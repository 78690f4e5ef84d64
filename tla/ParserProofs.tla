----------------------------- MODULE ParserProofs -----------------------------
(***************************************************************************)
(* The parser finds in the document of the registry the organisation that  *)
(* the document is of, whatever the organisation has none, one or several  *)
(* of.                                                                     *)
(***************************************************************************)
EXTENDS EgrulParser, ListProofs

-----------------------------------------------------------------------------
(***************************************************************************)
(* Flattened sequences: FlattenSeq is defined as a recursive function on   *)
(* the places of its argument.                                             *)
(***************************************************************************)
IsFlatten(g, s) ==
  g = [i \in 1..Len(s) |-> IF i = 1 THEN s[i] ELSE g[i - 1] \o s[i]]

LEMMA FlattenIs ==
  ASSUME NEW s, Len(s) # 0, \E g : IsFlatten(g, s)
  PROVE  \E g : IsFlatten(g, s) /\ FlattenSeq(s) = g[Len(s)]
<1> DEFINE It == CHOOSE g : IsFlatten(g, s)
<1>1. FlattenSeq(s) = It[Len(s)]
  BY DEF FlattenSeq, IsFlatten
<1>2. IsFlatten(It, s)
  OBVIOUS
<1> QED
  BY <1>1, <1>2

LEMMA FlattenNone ==
  ASSUME NEW s, Len(s) = 0
  PROVE  FlattenSeq(s) = s
BY DEF FlattenSeq

LEMMA FlattenOne ==
  ASSUME NEW s, Len(s) = 1
  PROVE  FlattenSeq(s) = s[1]
<1> DEFINE h == [i \in 1..1 |-> s[i]]
<1>1. \A i \in 1..1 : i = 1
  OBVIOUS
<1>2. IsFlatten(h, s)
  BY <1>1 DEF IsFlatten
<1>3. PICK g : IsFlatten(g, s) /\ FlattenSeq(s) = g[Len(s)]
  BY <1>2, FlattenIs
<1>4. g[1] = s[1]
  BY <1>3 DEF IsFlatten
<1> QED
  BY <1>3, <1>4

LEMMA FlattenFour ==
  ASSUME NEW s, Len(s) = 4
  PROVE  FlattenSeq(s) = ((s[1] \o s[2]) \o s[3]) \o s[4]
<1> DEFINE a == s[1]  b == s[2]  c == s[3]  d == s[4]
           h == [i \in 1..4 |-> IF i = 1 THEN a
                                ELSE IF i = 2 THEN a \o b
                                ELSE IF i = 3 THEN (a \o b) \o c
                                ELSE ((a \o b) \o c) \o d]
<1>1. Len(s) = 4 /\ s[1] = a /\ s[2] = b /\ s[3] = c /\ s[4] = d
  OBVIOUS
<1>2. \A i \in 1..4 : i = 1 \/ i = 2 \/ i = 3 \/ i = 4
  OBVIOUS
<1>3. /\ h[1] = a /\ h[2] = a \o b /\ h[3] = (a \o b) \o c
      /\ h[4] = ((a \o b) \o c) \o d
  OBVIOUS
<1>4. \A i \in 1..4 : h[i] = IF i = 1 THEN s[i] ELSE h[i - 1] \o s[i]
  <2> HIDE DEF h
  <2>1. 2 - 1 = 1 /\ 3 - 1 = 2 /\ 4 - 1 = 3
    OBVIOUS
  <2> QED
    BY <1>1, <1>2, <1>3, <2>1
<1>5. IsFlatten(h, s)
  <2>1. h = [i \in 1..4 |-> h[i]]
    OBVIOUS
  <2> HIDE DEF h
  <2> QED
    BY <1>1, <1>4, <2>1 DEF IsFlatten
<1> HIDE DEF h
<1>6. PICK g : IsFlatten(g, s) /\ FlattenSeq(s) = g[Len(s)]
  <2>1. Len(s) # 0
    BY <1>1
  <2> QED
    BY <1>5, <2>1, FlattenIs
<1>7. \A i \in 1..4 : g[i] = IF i = 1 THEN s[i] ELSE g[i - 1] \o s[i]
  BY <1>1, <1>6 DEF IsFlatten
<1>8. /\ g[1] = s[1]
      /\ g[2] = g[1] \o s[2]
      /\ g[3] = g[2] \o s[3]
      /\ g[4] = g[3] \o s[4]
  <2>1. 1 \in 1..4 /\ 2 \in 1..4 /\ 3 \in 1..4 /\ 4 \in 1..4
    OBVIOUS
  <2>2. 2 - 1 = 1 /\ 3 - 1 = 2 /\ 4 - 1 = 3 /\ 2 # 1 /\ 3 # 1 /\ 4 # 1
    OBVIOUS
  <2> QED
    BY <1>7, <2>1, <2>2, Zenon
<1>9. g[4] = ((a \o b) \o c) \o d
  BY <1>1, <1>8, Zenon
<1>10. FlattenSeq(s) = g[4]
  BY <1>1, <1>6, Zenon
<1> QED
  BY <1>9, <1>10

(* A list of lists of one. *)
LEMMA FlattenSingles ==
  ASSUME NEW S, NEW list \in Seq(S), NEW s,
         s = [n \in DOMAIN list |-> <<list[n]>>]
  PROVE  FlattenSeq(s) = list
<1> DEFINE n == Len(list)
           Part(i) == [j \in 1..i |-> list[j]]
           h == [i \in 1..n |-> Part(i)]
<1>1. n \in Nat /\ DOMAIN list = 1..n /\ \A i \in 1..n : list[i] \in S
  OBVIOUS
<1>2. Len(s) = n /\ \A i \in 1..n : s[i] = <<list[i]>>
  BY <1>1
<1>3. CASE n = 0
  BY <1>1, <1>2, <1>3, FlattenNone
<1>4. CASE n # 0
  <2>1. ASSUME NEW i \in Nat, i + 1 \in 1..n
        PROVE  Part(i) \o <<list[i + 1]>> = Part(i + 1)
    <3>1. Part(i) \in Seq(S) /\ Len(Part(i)) = i
      BY <1>1, <2>1
    <3>2. Part(i + 1) \in Seq(S) /\ Len(Part(i + 1)) = i + 1
      BY <1>1, <2>1
    <3>3. /\ Part(i) \o <<list[i + 1]>> \in Seq(S)
          /\ Len(Part(i) \o <<list[i + 1]>>) = i + 1
      BY <1>1, <2>1, <3>1
    <3>4. \A j \in 1..i + 1 :
            (Part(i) \o <<list[i + 1]>>)[j] = Part(i + 1)[j]
      BY <1>1, <2>1, <3>1
    <3> HIDE DEF Part
    <3> QED
      BY <3>2, <3>3, <3>4
  <2>2. Part(1) = <<list[1]>>
    BY <1>1, <1>4
  <2>3. ASSUME NEW i \in 1..n
        PROVE  h[i] = IF i = 1 THEN s[i] ELSE h[i - 1] \o s[i]
    <3> HIDE DEF Part
    <3>1. CASE i = 1
      BY <1>2, <2>2, <3>1
    <3>2. CASE i # 1
      <4>1. i - 1 \in 1..n /\ i - 1 \in Nat /\ (i - 1) + 1 = i
        BY <1>1, <3>2
      <4>2. Part(i - 1) \o <<list[i]>> = Part(i)
        BY <2>1, <4>1
      <4> QED
        BY <1>2, <3>2, <4>1, <4>2
    <3> QED
      BY <3>1, <3>2
  <2>4. IsFlatten(h, s)
    <3>1. h = [i \in 1..n |-> h[i]]
      OBVIOUS
    <3> HIDE DEF h
    <3> QED
      BY <1>2, <2>3, <3>1 DEF IsFlatten
  <2> HIDE DEF h, Part
  <2>5. PICK g : IsFlatten(g, s) /\ FlattenSeq(s) = g[Len(s)]
    BY <1>2, <1>4, <2>4, FlattenIs
  <2>6. \A i \in 1..n : g[i] = IF i = 1 THEN s[i] ELSE g[i - 1] \o s[i]
    BY <1>2, <2>5 DEF IsFlatten
  <2> DEFINE G == {i \in Nat : i + 1 <= n => g[i + 1] = Part(i + 1)}
  <2>7. 0 \in G
    BY <1>1, <1>2, <1>4, <2>2, <2>6
  <2>8. ASSUME NEW i \in Nat, i \in G PROVE i + 1 \in G
    <3> SUFFICES ASSUME (i + 1) + 1 <= n
                 PROVE  g[(i + 1) + 1] = Part((i + 1) + 1)
      OBVIOUS
    <3> DEFINE k == i + 1
    <3>1. /\ k \in Nat /\ k + 1 \in 1..n /\ k + 1 # 1 /\ (k + 1) - 1 = k
          /\ k <= n
      BY <1>1
    <3>2. g[k] = Part(k)
      BY <2>8, <3>1
    <3> HIDE DEF k
    <3>3. g[k + 1] = g[k] \o s[k + 1] /\ s[k + 1] = <<list[k + 1]>>
      BY <1>2, <2>6, <3>1
    <3>4. g[k + 1] = Part(k + 1)
      BY <2>1, <3>1, <3>2, <3>3
    <3> QED
      BY <3>4 DEF k
  <2> HIDE DEF G
  <2>9. n - 1 \in G
    BY <1>1, <1>4, <2>7, <2>8, Induction
  <2>10. g[n] = Part(n)
    BY <1>1, <1>4, <2>9 DEF G
  <2>11. Part(n) = list
    BY <1>1 DEF Part
  <2> QED
    BY <1>2, <2>5, <2>10, <2>11
<1> QED
  BY <1>3, <1>4

-----------------------------------------------------------------------------
(***************************************************************************)
(* Nodes.                                                                  *)
(***************************************************************************)
LEMMA FieldGiven ==
  ASSUME NEW pairs, NEW key, NEW v, NEW default,
         <<key, v>> \in pairs,
         \A p \in pairs : p[1] = key => p[2] = v
  PROVE  Get(Fields(pairs), key, default) = v
<1> DEFINE f == [k \in {p[1] : p \in pairs} |->
                   (CHOOSE p \in pairs : p[1] = k)[2]]
<1>1. Fields(pairs).value = f
  BY DEF Fields, Object
<1>2. <<key, v>>[1] = key
  OBVIOUS
<1>3. key \in DOMAIN f
  BY <1>2
<1>4. f[key] = v
  <2> DEFINE c == CHOOSE p \in pairs : p[1] = key
  <2>1. c \in pairs /\ c[1] = key
    BY <1>2
  <2>2. f[key] = c[2]
    BY <1>3
  <2> HIDE DEF c, f
  <2> QED
    BY <2>1, <2>2
<1> QED
  BY <1>1, <1>3, <1>4 DEF Get

LEMMA FieldMissing ==
  ASSUME NEW pairs, NEW key, NEW default, \A p \in pairs : p[1] # key
  PROVE  Get(Fields(pairs), key, default) = default
BY DEF Get, Fields, Object

LEMMA FieldsIsObject == ASSUME NEW pairs PROVE IsObject(Fields(pairs))
BY DEF IsObject, Fields, Object

LEMMA NoFieldsIs ==
  /\ IsObject(NoFields)
  /\ \A key, default : AttrOr(NoFields, key, default) = default
  /\ \A key, default : Get(NoFields, key, default) = default
<1>1. \A key, default : Get(NoFields, key, default) = default
  BY DEF Get, NoFields, Object
<1>2. IsObject(NoFields)
  BY DEF IsObject, NoFields, Object
<1>3. \A key, default : AttrOr(NoFields, key, default) = default
  BY <1>1, <1>2 DEF AttrOr, Node, Text
<1> QED
  BY <1>1, <1>2, <1>3

LEMMA AttributesKey ==
  ASSUME NEW given
  PROVE  \A p \in Attributes(given) : p[1] = "@attributes"
BY DEF Attributes

(* The attributes of a node: pairs are all its fields. *)
LEMMA AttributesNode ==
  ASSUME NEW pairs, NEW given, Attributes(given) \subseteq pairs,
         \A p \in pairs : p[1] = "@attributes" => p \in Attributes(given)
  PROVE  Node(Fields(pairs), "@attributes") =
           Fields({<<p[1], Text(p[2])>> : p \in {p \in given : p[2] # <<>>}})
<1> DEFINE some  == {p \in given : p[2] # <<>>}
           attrs == Fields({<<p[1], Text(p[2])>> : p \in some})
<1>1. CASE some = {}
  <2>1. \A p \in pairs : p[1] # "@attributes"
    BY <1>1 DEF Attributes
  <2>2. Node(Fields(pairs), "@attributes") = NoFields
    BY <2>1, FieldMissing DEF Node
  <2>3. {<<p[1], Text(p[2])>> : p \in some} = {}
    BY <1>1
  <2>4. Fields({}) = NoFields
    BY DEF Fields, NoFields
  <2> QED
    BY <2>2, <2>3, <2>4
<1>2. CASE some # {}
  <2>1. Attributes(given) = {<<"@attributes", attrs>>}
    BY <1>2 DEF Attributes
  <2> HIDE DEF attrs
  <2>2. /\ <<"@attributes", attrs>> \in pairs
        /\ \A p \in pairs : p[1] = "@attributes" => p[2] = attrs
    BY <2>1
  <2>3. Node(Fields(pairs), "@attributes") = attrs
    BY <2>2, FieldGiven DEF Node
  <2> QED
    BY <2>3 DEF attrs
<1> QED
  BY <1>1, <1>2

LEMMA AttrGiven ==
  ASSUME NEW pairs, NEW given, Attributes(given) \subseteq pairs,
         \A p \in pairs : p[1] = "@attributes" => p \in Attributes(given),
         NEW key, NEW v, NEW default, <<key, v>> \in given,
         \A p \in given : p[1] = key => p[2] = v
  PROVE  AttrOr(Fields(pairs), key, default) = FirstOf(v, default)
<1> DEFINE texts == {<<p[1], Text(p[2])>> : p \in {p \in given : p[2] # <<>>}}
<1>1. Node(Fields(pairs), "@attributes") = Fields(texts)
  BY AttributesNode
<1>2. AttrOr(Fields(pairs), key, default) =
        Get(Fields(texts), key, Text(default)).value
  BY <1>1, FieldsIsObject DEF AttrOr
<1>3. CASE v # <<>>
  <2>1. /\ <<key, Text(v)>> \in texts
        /\ \A p \in texts : p[1] = key => p[2] = Text(v)
    BY <1>3
  <2> HIDE DEF texts
  <2>2. Get(Fields(texts), key, Text(default)) = Text(v)
    BY <2>1, FieldGiven
  <2> QED
    BY <1>2, <1>3, <2>2 DEF Text, FirstOf
<1>4. CASE v = <<>>
  <2>1. \A p \in texts : p[1] # key
    BY <1>4
  <2> HIDE DEF texts
  <2>2. Get(Fields(texts), key, Text(default)) = Text(default)
    BY <2>1, FieldMissing
  <2> QED
    BY <1>2, <1>4, <2>2 DEF Text, FirstOf
<1> QED
  BY <1>3, <1>4

LEMMA AttrMissing ==
  ASSUME NEW pairs, NEW given, Attributes(given) \subseteq pairs,
         \A p \in pairs : p[1] = "@attributes" => p \in Attributes(given),
         NEW key, NEW default, \A p \in given : p[1] # key
  PROVE  AttrOr(Fields(pairs), key, default) = default
<1> DEFINE texts == {<<p[1], Text(p[2])>> : p \in {p \in given : p[2] # <<>>}}
<1>1. AttrOr(Fields(pairs), key, default) =
        Get(Fields(texts), key, Text(default)).value
  BY AttributesNode, FieldsIsObject DEF AttrOr
<1>2. \A p \in texts : p[1] # key
  OBVIOUS
<1> HIDE DEF texts
<1>3. Get(Fields(texts), key, Text(default)) = Text(default)
  BY <1>2, FieldMissing
<1> QED
  BY <1>1, <1>3 DEF Text

(* A node that is missing, an element, or a list of them. *)
LEMMA RepeatedKey ==
  ASSUME NEW key, NEW nodes
  PROVE  \A p \in Repeated(key, nodes) : p[1] = key
BY DEF Repeated

LEMMA RepeatedGet ==
  ASSUME NEW S, NEW nodes \in Seq(S), NEW pairs, NEW key, NEW default,
         Repeated(key, nodes) \subseteq pairs,
         \A p \in pairs : p[1] = key => p \in Repeated(key, nodes)
  PROVE  Get(Fields(pairs), key, default) =
           IF Len(nodes) = 0 THEN default
           ELSE IF Len(nodes) = 1 THEN nodes[1] ELSE List(nodes)
<1>1. CASE Len(nodes) = 0
  <2>1. Repeated(key, nodes) = {}
    BY <1>1 DEF Repeated
  <2> QED
    BY <1>1, <2>1, FieldMissing
<1>2. CASE Len(nodes) # 0
  <2> DEFINE v == IF Len(nodes) = 1 THEN nodes[1] ELSE List(nodes)
  <2>1. Repeated(key, nodes) = {<<key, v>>}
    BY <1>2 DEF Repeated
  <2> HIDE DEF v
  <2>2. /\ <<key, v>> \in pairs
        /\ \A p \in pairs : p[1] = key => p[2] = v
    BY <2>1
  <2>3. Get(Fields(pairs), key, default) = v
    BY <2>2, FieldGiven
  <2> QED
    BY <1>2, <2>3 DEF v
<1> QED
  BY <1>1, <1>2

LEMMA RepeatedItems ==
  ASSUME NEW S, NEW nodes \in Seq(S), NEW pairs, NEW key,
         Repeated(key, nodes) \subseteq pairs,
         \A p \in pairs : p[1] = key => p \in Repeated(key, nodes),
         \A n \in DOMAIN nodes : IsObject(nodes[n])
  PROVE  Items(Fields(pairs), key) = nodes
<1> DEFINE raw == Get(Fields(pairs), key, List(<<>>))
<1>1. raw = IF Len(nodes) = 0 THEN List(<<>>)
            ELSE IF Len(nodes) = 1 THEN nodes[1] ELSE List(nodes)
  BY RepeatedGet
<1> HIDE DEF raw
<1>2. ~IsObject(List(nodes)) /\ List(nodes).value = nodes
      /\ ~IsObject(List(<<>>)) /\ List(<<>>).value = <<>>
  BY DEF IsObject, List
<1>3. Items(Fields(pairs), key) = IF IsObject(raw) THEN <<raw>> ELSE raw.value
  BY DEF Items, raw
<1>4. CASE Len(nodes) = 0
  BY <1>1, <1>2, <1>3, <1>4
<1>5. CASE Len(nodes) = 1
  <2>1. IsObject(nodes[1]) /\ nodes = <<nodes[1]>>
    BY <1>5
  <2> QED
    BY <1>1, <1>3, <1>5, <2>1
<1>6. CASE Len(nodes) # 0 /\ Len(nodes) # 1
  BY <1>1, <1>2, <1>3, <1>6
<1> QED
  BY <1>4, <1>5, <1>6

-----------------------------------------------------------------------------
(***************************************************************************)
(* The parts of an entry.                                                  *)
(***************************************************************************)
LEMMA EachSeq ==
  ASSUME NEW T, NEW s \in Seq(T), NEW e, e = [n \in DOMAIN s |-> e[n]]
  PROVE  (\E S : e \in Seq(S)) /\ Len(e) = Len(s) /\ DOMAIN e = DOMAIN s
<1>1. e \in Seq({e[n] : n \in DOMAIN s})
  OBVIOUS
<1>2. Len(e) = Len(s) /\ DOMAIN e = DOMAIN s
  OBVIOUS
<1> QED
  BY <1>1, <1>2

LEMMA NoneOrOne ==
  ASSUME NEW T, NEW s \in AtMostOne(T)
  PROVE  /\ s \in Seq(T)
         /\ \/ Len(s) = 0 /\ s = <<>>
            \/ Len(s) = 1 /\ 1 \in DOMAIN s /\ s = <<s[1]>> /\ s[1] \in T
<1>1. s \in Seq(T) /\ Len(s) <= 1
  BY DEF AtMostOne
<1>2. Len(s) \in Nat
  BY <1>1
<1>3. \A n \in Nat : n <= 1 => n = 0 \/ n = 1
  OBVIOUS
<1>4. Len(s) = 0 \/ Len(s) = 1
  BY <1>1, <1>2, <1>3
<1>5. CASE Len(s) = 0
  BY <1>1, <1>5
<1>6. CASE Len(s) = 1
  BY <1>1, <1>6
<1> QED
  BY <1>1, <1>4, <1>5, <1>6

(* A node of attributes alone. *)
LEMMA AttrOnly ==
  ASSUME NEW given, NEW key, NEW v, <<key, v>> \in given,
         \A p \in given : p[1] = key => p[2] = v
  PROVE  /\ Attr(Fields(Attributes(given)), key) = v
         /\ \A default :
              AttrOr(Fields(Attributes(given)), key, default)
                = FirstOf(v, default)
<1>1. ASSUME NEW default
      PROVE  AttrOr(Fields(Attributes(given)), key, default)
               = FirstOf(v, default)
  BY AttrGiven
<1> QED
  BY <1>1 DEF Attr, FirstOf

LEMMA NameIs ==
  ASSUME NEW name
  PROVE  PersonName(PersonNode(name)) = NameOf(name)
<1> DEFINE given == {<<"Familiya", name.last>>, <<"Imya", name.first>>,
                     <<"Otchestvo", name.middle>>}
<1>1. /\ Attr(Fields(Attributes(given)), "Familiya") = name.last
      /\ Attr(Fields(Attributes(given)), "Imya") = name.first
      /\ Attr(Fields(Attributes(given)), "Otchestvo") = name.middle
  <2>1. /\ <<"Familiya", name.last>> \in given
        /\ \A p \in given : p[1] = "Familiya" => p[2] = name.last
    OBVIOUS
  <2>2. /\ <<"Imya", name.first>> \in given
        /\ \A p \in given : p[1] = "Imya" => p[2] = name.first
    OBVIOUS
  <2>3. /\ <<"Otchestvo", name.middle>> \in given
        /\ \A p \in given : p[1] = "Otchestvo" => p[2] = name.middle
    OBVIOUS
  <2> HIDE DEF given
  <2> QED
    BY <2>1, <2>2, <2>3, AttrOnly
<1> QED
  BY <1>1 DEF PersonName, PersonNode, NameOf

LEMMA TextIsText ==
  ASSUME NEW s, NEW default
  PROVE  Text(s) # Null /\ TextOr(Text(s), default) = s
<1>1. Text(s).type = "text" /\ Text(s).value = s /\ Null.type = "null"
  BY DEF Text, Null
<1>2. Text(s) # Null
  BY <1>1
<1> QED
  BY <1>1, <1>2 DEF TextOr

Share(name, f) ==
  [name |-> name, nominal |-> Amount(FirstOf(f.nominal, Zero)),
   percent |-> f.percent]

LEMMA ShareIs ==
  ASSUME NEW name, NEW f, NEW pairs,
         <<"DolyaUstKap", ShareNode(f)>> \in pairs,
         \A p \in pairs : p[1] = "DolyaUstKap" => p[2] = ShareNode(f)
  PROVE  /\ Founder(name, Fields(pairs)) = Share(name, f)
         /\ IsObject(Node(Fields(pairs), "DolyaUstKap"))
<1> DEFINE given == {<<"NominStoim", f.nominal>>}
           size  == Fields({<<"Protsent", Text(f.percent)>>})
           all   == Attributes(given) \cup {<<"RazmerDoli", size>>}
<1>1. Node(Fields(pairs), "DolyaUstKap") = Fields(all)
  <2>1. Get(Fields(pairs), "DolyaUstKap", NoFields) = ShareNode(f)
    BY FieldGiven
  <2> QED
    BY <2>1 DEF Node, ShareNode
<1>2. AttrOr(Fields(all), "NominStoim", Zero) = FirstOf(f.nominal, Zero)
  <2>1. /\ Attributes(given) \subseteq all
        /\ \A p \in all : p[1] = "@attributes" => p \in Attributes(given)
    OBVIOUS
  <2>2. /\ <<"NominStoim", f.nominal>> \in given
        /\ \A p \in given : p[1] = "NominStoim" => p[2] = f.nominal
    OBVIOUS
  <2> HIDE DEF given, all
  <2> QED
    BY <2>1, <2>2, AttrGiven
<1>3. Node(Fields(all), "RazmerDoli") = size
  <2>1. /\ <<"RazmerDoli", size>> \in all
        /\ \A p \in all : p[1] = "RazmerDoli" => p[2] = size
    BY AttributesKey
  <2> HIDE DEF all, size
  <2> QED
    BY <2>1, FieldGiven DEF Node
<1>4. Get(size, "Protsent", Text(Zero)) = Text(f.percent)
  <2> DEFINE one == {<<"Protsent", Text(f.percent)>>}
  <2>1. /\ <<"Protsent", Text(f.percent)>> \in one
        /\ \A p \in one : p[1] = "Protsent" => p[2] = Text(f.percent)
    OBVIOUS
  <2>2. size = Fields(one)
    OBVIOUS
  <2> HIDE DEF one, size
  <2> QED
    BY <2>1, <2>2, FieldGiven
<1>5. IsObject(size) /\ IsObject(Fields(all))
  BY FieldsIsObject
<1>6. TextOr(Text(f.percent), <<"None">>) = f.percent
  BY TextIsText
<1> HIDE DEF all, size
<1>7. Founder(name, Fields(pairs)).nominal = Amount(FirstOf(f.nominal, Zero))
  BY <1>1, <1>2 DEF Founder, Amount
<1>8. Founder(name, Fields(pairs)).percent = f.percent
  BY <1>1, <1>3, <1>4, <1>5, <1>6 DEF Founder
<1>9. Founder(name, Fields(pairs)) =
        [name    |-> name,
         nominal |-> Founder(name, Fields(pairs)).nominal,
         percent |-> Founder(name, Fields(pairs)).percent]
  BY DEF Founder
<1> QED
  BY <1>1, <1>5, <1>7, <1>8, <1>9 DEF Share

LEMMA PersonFounderIs ==
  ASSUME NEW f
  PROVE  /\ IsObject(PersonFounder(f))
         /\ IsObject(Node(PersonFounder(f), "DolyaUstKap"))
         /\ Founder(PersonName(Node(PersonFounder(f), "SvFL")),
                    PersonFounder(f)) = Share(NameOf(f.name), f)
<1> DEFINE pairs == {<<"SvFL", PersonNode(f.name)>>,
                     <<"DolyaUstKap", ShareNode(f)>>}
<1>1. PersonFounder(f) = Fields(pairs)
  BY DEF PersonFounder
<1>2. /\ <<"SvFL", PersonNode(f.name)>> \in pairs
      /\ \A p \in pairs : p[1] = "SvFL" => p[2] = PersonNode(f.name)
      /\ <<"DolyaUstKap", ShareNode(f)>> \in pairs
      /\ \A p \in pairs : p[1] = "DolyaUstKap" => p[2] = ShareNode(f)
  OBVIOUS
<1> HIDE DEF pairs
<1>3. Node(Fields(pairs), "SvFL") = PersonNode(f.name)
  BY <1>2, FieldGiven DEF Node
<1> QED
  BY <1>1, <1>2, <1>3, NameIs, ShareIs, FieldsIsObject

(* The parser takes the short name of a company that has no full one; the  *)
(* registry gives every founder its full name.                             *)
LEMMA CompanyFounderIs ==
  ASSUME NEW f
  PROVE  /\ IsObject(CompanyFounder(f))
         /\ IsObject(Node(CompanyFounder(f), "DolyaUstKap"))
         /\ LET org == Node(CompanyFounder(f), "SvOrg")
            IN Founder(AttrOr(org, "NaimYuLPoln", Attr(org, "NaimYuLSokr")),
                       CompanyFounder(f)) = Share(f.name, f)
<1> DEFINE given == {<<"NaimYuLPoln", f.name>>}
           org   == Fields(Attributes(given))
           pairs == {<<"SvOrg", org>>, <<"DolyaUstKap", ShareNode(f)>>}
<1>1. CompanyFounder(f) = Fields(pairs)
  BY DEF CompanyFounder
<1>2. /\ <<"SvOrg", org>> \in pairs
      /\ \A p \in pairs : p[1] = "SvOrg" => p[2] = org
      /\ <<"DolyaUstKap", ShareNode(f)>> \in pairs
      /\ \A p \in pairs : p[1] = "DolyaUstKap" => p[2] = ShareNode(f)
  OBVIOUS
<1>3. Attr(org, "NaimYuLSokr") = <<>>
  <2>1. \A p \in given : p[1] # "NaimYuLSokr"
    OBVIOUS
  <2> HIDE DEF given
  <2> QED
    BY <2>1, AttrMissing DEF Attr
<1>4. AttrOr(org, "NaimYuLPoln", <<>>) = f.name
  <2>1. /\ <<"NaimYuLPoln", f.name>> \in given
        /\ \A p \in given : p[1] = "NaimYuLPoln" => p[2] = f.name
    OBVIOUS
  <2> HIDE DEF given
  <2> QED
    BY <2>1, AttrOnly DEF Attr
<1> HIDE DEF pairs, org
<1>5. Node(Fields(pairs), "SvOrg") = org
  BY <1>2, FieldGiven DEF Node
<1> QED
  BY <1>1, <1>2, <1>3, <1>4, <1>5, ShareIs, FieldsIsObject

LEMMA FoundersAre ==
  ASSUME NEW o \in Organisation, NEW yul,
         Node(yul, "SvUchredit") = FoundersNode(o)
  PROVE  /\ ParseFounders(yul) = Described(o).participants
         /\ \A key \in {"UchrFL", "UchrYuL"} :
              \A n \in DOMAIN Items(Node(yul, "SvUchredit"), key) :
                LET f == Items(Node(yul, "SvUchredit"), key)[n]
                IN IsObject(f) /\ IsObject(Node(f, "DolyaUstKap"))
<1> DEFINE people    == Each(o.people, PersonFounder)
           companies == Each(o.companies, CompanyFounder)
           pairs     == Repeated("UchrFL", people) \cup
                        Repeated("UchrYuL", companies)
<1>1. /\ people = [n \in DOMAIN o.people |-> PersonFounder(o.people[n])]
      /\ companies = [n \in DOMAIN o.companies |->
                        CompanyFounder(o.companies[n])]
  BY DEF Each
<1>2. /\ o.people \in Seq([name : FullName, nominal : Words, percent : Words])
      /\ o.companies \in Seq([name : Words, nominal : Words, percent : Words])
  BY DEF Organisation
<1>3. /\ (\E S : people \in Seq(S)) /\ DOMAIN people = DOMAIN o.people
      /\ (\E T : companies \in Seq(T)) /\ DOMAIN companies = DOMAIN o.companies
  <2>1. /\ people = [n \in DOMAIN o.people |-> people[n]]
        /\ companies = [n \in DOMAIN o.companies |-> companies[n]]
    BY <1>1
  <2> HIDE DEF people, companies
  <2>2. (\E S : people \in Seq(S)) /\ DOMAIN people = DOMAIN o.people
    <3>1. PICK T : o.people \in Seq(T)
      BY <1>2
    <3> QED
      BY <2>1, <3>1, EachSeq
  <2>3. /\ \E T : companies \in Seq(T)
        /\ DOMAIN companies = DOMAIN o.companies
    BY <1>2, <2>1, EachSeq
  <2> QED
    BY <2>2, <2>3
<1>4. /\ \A n \in DOMAIN people :
           IsObject(people[n]) /\ IsObject(Node(people[n], "DolyaUstKap"))
      /\ \A n \in DOMAIN companies :
           IsObject(companies[n]) /\ IsObject(Node(companies[n], "DolyaUstKap"))
  BY <1>1, <1>3, PersonFounderIs, CompanyFounderIs
<1> HIDE DEF people, companies
<1>5. /\ \A p \in pairs : p[1] = "UchrFL" => p \in Repeated("UchrFL", people)
      /\ \A p \in pairs : p[1] = "UchrYuL" =>
           p \in Repeated("UchrYuL", companies)
  BY RepeatedKey
<1>6. Node(yul, "SvUchredit") = Fields(pairs)
  BY DEF FoundersNode, people, companies
<1>7. /\ Items(Fields(pairs), "UchrFL") = people
      /\ Items(Fields(pairs), "UchrYuL") = companies
  BY <1>3, <1>4, <1>5, RepeatedItems
<1> HIDE DEF pairs
<1> DEFINE Person(f) == Founder(PersonName(Node(f, "SvFL")), f)
           Company(f) ==
             LET org == Node(f, "SvOrg")
             IN Founder(AttrOr(org, "NaimYuLPoln", Attr(org, "NaimYuLSokr")), f)
<1>8. ParseFounders(yul) = [n \in DOMAIN people |-> Person(people[n])]
                           \o [n \in DOMAIN companies |-> Company(companies[n])]
  BY <1>6, <1>7 DEF ParseFounders, Each
<1>9. [n \in DOMAIN people |-> Person(people[n])]
        = [n \in DOMAIN o.people |-> Share(NameOf(o.people[n].name), o.people[n])]
  BY <1>1, <1>3, PersonFounderIs
<1>10. [n \in DOMAIN companies |-> Company(companies[n])]
        = [n \in DOMAIN o.companies |->
             Share(o.companies[n].name, o.companies[n])]
  BY <1>1, <1>3, CompanyFounderIs
<1> HIDE DEF Person, Company
<1>11. Described(o).participants =
         [n \in DOMAIN o.people |-> Share(NameOf(o.people[n].name), o.people[n])]
         \o [n \in DOMAIN o.companies |->
               Share(o.companies[n].name, o.companies[n])]
  BY DEF Described, Share, Each
<1>12. /\ Items(Node(yul, "SvUchredit"), "UchrFL") = people
       /\ Items(Node(yul, "SvUchredit"), "UchrYuL") = companies
  BY <1>6, <1>7
<1> QED
  BY <1>4, <1>8, <1>9, <1>10, <1>11, <1>12

LEMMA ActivityIs ==
  ASSUME NEW a \in Given \X Words
  PROVE  IsObject(ActivityNode(a)) /\ Coded(ActivityNode(a)) = <<a>>
<1> DEFINE given == {<<"KodOKVED", a[1]>>, <<"NaimOKVED", a[2]>>}
<1>1. /\ <<"KodOKVED", a[1]>> \in given
      /\ \A p \in given : p[1] = "KodOKVED" => p[2] = a[1]
      /\ <<"NaimOKVED", a[2]>> \in given
      /\ \A p \in given : p[1] = "NaimOKVED" => p[2] = a[2]
  OBVIOUS
<1>2. ActivityNode(a) = Fields(Attributes(given))
  BY DEF ActivityNode
<1> HIDE DEF given
<1>3. /\ Attr(ActivityNode(a), "KodOKVED") = a[1]
      /\ Attr(ActivityNode(a), "NaimOKVED") = a[2]
  BY <1>1, <1>2, AttrOnly
<1>4. a[1] # <<>> /\ a = <<a[1], a[2]>>
  BY DEF Given
<1> QED
  BY <1>2, <1>3, <1>4, FieldsIsObject DEF Coded, Activity

LEMMA ActivitiesAre ==
  ASSUME NEW o \in Organisation, NEW yul,
         Node(yul, "SvOKVED") = OkvedNode(o)
  PROVE  ParseOkved(yul).all = o.main \o o.more
<1> DEFINE main  == Each(o.main, ActivityNode)
           more  == Each(o.more, ActivityNode)
           pairs == Repeated("SvOKVEDOsn", main) \cup
                    Repeated("SvOKVEDDop", more)
<1>1. /\ main = [n \in DOMAIN o.main |-> ActivityNode(o.main[n])]
      /\ more = [n \in DOMAIN o.more |-> ActivityNode(o.more[n])]
  BY DEF Each
<1>2. /\ o.main \in Seq(Given \X Words)
      /\ \/ Len(o.main) = 0 /\ o.main = <<>>
         \/ /\ Len(o.main) = 1 /\ 1 \in DOMAIN o.main
            /\ o.main = <<o.main[1]>>
      /\ o.more \in Seq(Given \X Words)
  BY NoneOrOne DEF Organisation
<1>3. /\ (\E S : main \in Seq(S)) /\ DOMAIN main = DOMAIN o.main
      /\ Len(main) = Len(o.main)
      /\ (\E T : more \in Seq(T)) /\ DOMAIN more = DOMAIN o.more
  <2>1. /\ main = [n \in DOMAIN o.main |-> main[n]]
        /\ more = [n \in DOMAIN o.more |-> more[n]]
    BY <1>1
  <2> HIDE DEF main, more
  <2> QED
    BY <1>2, <2>1, EachSeq
<1>4. /\ \A n \in DOMAIN o.more : o.more[n] \in Given \X Words
      /\ \A n \in DOMAIN o.main : o.main[n] \in Given \X Words
  BY <1>2
<1>5. \A n \in DOMAIN more : IsObject(more[n]) /\ Coded(more[n]) = <<o.more[n]>>
  BY <1>1, <1>3, <1>4, ActivityIs
<1> HIDE DEF main, more
<1>6. /\ \A p \in pairs : p[1] = "SvOKVEDOsn" =>
           p \in Repeated("SvOKVEDOsn", main)
      /\ \A p \in pairs : p[1] = "SvOKVEDDop" =>
           p \in Repeated("SvOKVEDDop", more)
  BY RepeatedKey
<1>7. Node(yul, "SvOKVED") = Fields(pairs)
  BY DEF OkvedNode, main, more
<1>8. Items(Fields(pairs), "SvOKVEDDop") = more
  BY <1>3, <1>5, <1>6, RepeatedItems
<1>9. Node(Fields(pairs), "SvOKVEDOsn") =
        IF Len(main) = 0 THEN NoFields
        ELSE IF Len(main) = 1 THEN main[1] ELSE List(main)
  BY <1>3, <1>6, RepeatedGet DEF Node
<1> HIDE DEF pairs
<1>10. Coded(Node(Fields(pairs), "SvOKVEDOsn")) = o.main
  <2>1. CASE Len(o.main) = 0
    <3>1. Attr(NoFields, "KodOKVED") = <<>>
      BY NoFieldsIs DEF Attr
    <3> QED
      BY <1>2, <1>3, <1>9, <2>1, <3>1 DEF Coded
  <2>2. CASE Len(o.main) = 1
    <3>1. 1 \in DOMAIN o.main /\ o.main = <<o.main[1]>>
      BY <1>2, <2>2
    <3>2. main[1] = ActivityNode(o.main[1])
      BY <1>1, <3>1
    <3>3. Coded(main[1]) = <<o.main[1]>>
      BY <1>4, <3>1, <3>2, ActivityIs
    <3> QED
      BY <1>3, <1>9, <2>2, <3>1, <3>3
  <2> QED
    BY <1>2, <2>1, <2>2
<1>11. Each(more, Coded) = [n \in DOMAIN o.more |-> <<o.more[n]>>]
  BY <1>3, <1>5 DEF Each
<1>12. FlattenSeq(Each(more, Coded)) = o.more
  BY <1>2, <1>11, FlattenSingles
<1> QED
  BY <1>7, <1>8, <1>10, <1>12 DEF ParseOkved

LEMMA BuildingIs ==
  ASSUME NEW b
  PROVE  /\ IsObject(BuildingNode(b))
         /\ Attr(BuildingNode(b), "Tip") = b.kind
         /\ Attr(BuildingNode(b), "Nomer") = b.number
<1> DEFINE given == {<<"Tip", b.kind>>, <<"Nomer", b.number>>}
<1>1. /\ <<"Tip", b.kind>> \in given
      /\ \A p \in given : p[1] = "Tip" => p[2] = b.kind
      /\ <<"Nomer", b.number>> \in given
      /\ \A p \in given : p[1] = "Nomer" => p[2] = b.number
  OBVIOUS
<1>2. BuildingNode(b) = Fields(Attributes(given))
  BY DEF BuildingNode
<1> HIDE DEF given
<1>3. Attr(BuildingNode(b), "Tip") = b.kind /\ Attr(BuildingNode(b), "Nomer") = b.number
  BY <1>1, <1>2, AttrOnly
<1> QED
  BY <1>2, <1>3, FieldsIsObject

LEMMA StreetIs ==
  ASSUME NEW s
  PROVE  /\ Attr(StreetNode(s), "Tip") = s.kind
         /\ Attr(StreetNode(s), "Naim") = s.name
<1> DEFINE given == {<<"Tip", s.kind>>, <<"Naim", s.name>>}
<1>1. /\ <<"Tip", s.kind>> \in given
      /\ \A p \in given : p[1] = "Tip" => p[2] = s.kind
      /\ <<"Naim", s.name>> \in given
      /\ \A p \in given : p[1] = "Naim" => p[2] = s.name
  OBVIOUS
<1>2. StreetNode(s) = Fields(Attributes(given))
  BY DEF StreetNode
<1> HIDE DEF given
<1>3. Attr(StreetNode(s), "Tip") = s.kind /\ Attr(StreetNode(s), "Naim") = s.name
  BY <1>1, <1>2, AttrOnly
<1> QED
  BY <1>3

Fias(o) ==
  Attributes({<<"Indeks", o.index>>})
  \cup {<<"NaimRegion", Text(o.region)>>}
  \cup Repeated("ElUlDorSeti", Each(o.street, StreetNode))
  \cup Repeated("Zdanie", Each(o.buildings, BuildingNode))

LEMMA AddressFields ==
  ASSUME NEW o
  PROVE  /\ Node(AddressNode(o), "SvAdrYuLFIAS") = Fields(Fias(o))
         /\ Node(AddressNode(o), "AdresRF") = NoFields
<1> DEFINE pairs == {<<"SvAdrYuLFIAS", Fields(Fias(o))>>}
<1>1. AddressNode(o) = Fields(pairs)
  BY DEF AddressNode, Fias
<1>2. /\ <<"SvAdrYuLFIAS", Fields(Fias(o))>> \in pairs
      /\ \A p \in pairs : p[1] = "SvAdrYuLFIAS" => p[2] = Fields(Fias(o))
      /\ \A p \in pairs : p[1] # "AdresRF"
  OBVIOUS
<1> HIDE DEF pairs
<1> QED
  BY <1>1, <1>2, FieldGiven, FieldMissing DEF Node

LEMMA FiasKeys ==
  ASSUME NEW o, NEW p \in Fias(o)
  PROVE  /\ p[1] = "@attributes" => p \in Attributes({<<"Indeks", o.index>>})
         /\ p[1] = "NaimRegion" => p[2] = Text(o.region)
         /\ p[1] = "ElUlDorSeti" =>
              p \in Repeated("ElUlDorSeti", Each(o.street, StreetNode))
         /\ p[1] = "Zdanie" =>
              p \in Repeated("Zdanie", Each(o.buildings, BuildingNode))
BY AttributesKey, RepeatedKey DEF Fias

LEMMA IndexIs ==
  ASSUME NEW o
  PROVE  Attr(Fields(Fias(o)), "Indeks") = o.index
<1> DEFINE given == {<<"Indeks", o.index>>}
<1>1. /\ Attributes(given) \subseteq Fias(o)
      /\ \A p \in Fias(o) : p[1] = "@attributes" => p \in Attributes(given)
  BY FiasKeys DEF Fias
<1>2. /\ <<"Indeks", o.index>> \in given
      /\ \A p \in given : p[1] = "Indeks" => p[2] = o.index
  OBVIOUS
<1> HIDE DEF given
<1>3. AttrOr(Fields(Fias(o)), "Indeks", <<>>) = FirstOf(o.index, <<>>)
  BY <1>1, <1>2, AttrGiven
<1> QED
  BY <1>3 DEF Attr, FirstOf

LEMMA RegionIs ==
  ASSUME NEW o
  PROVE  TextOr(Get(Fields(Fias(o)), "NaimRegion", Null), <<>>) = o.region
<1>1. /\ <<"NaimRegion", Text(o.region)>> \in Fias(o)
      /\ \A p \in Fias(o) : p[1] = "NaimRegion" => p[2] = Text(o.region)
  BY FiasKeys DEF Fias
<1>2. Get(Fields(Fias(o)), "NaimRegion", Null) = Text(o.region)
  BY <1>1, FieldGiven
<1> QED
  BY <1>2, TextIsText

(* What the parser makes of the street, and what should be there. *)
StreetOf(node) ==
  IF Attr(node, "Naim") = <<>> THEN <<>>
  ELSE Join(<<Attr(node, "Tip"), Attr(node, "Naim")>>)

LEMMA StreetsAre ==
  ASSUME NEW o \in Organisation
  PROVE  StreetOf(Node(Fields(Fias(o)), "ElUlDorSeti"))
           = Join([n \in DOMAIN o.street |->
                     Join(<<o.street[n].kind, o.street[n].name>>)])
<1> DEFINE nodes == Each(o.street, StreetNode)
           words == [n \in DOMAIN o.street |->
                       Join(<<o.street[n].kind, o.street[n].name>>)]
           node  == Node(Fields(Fias(o)), "ElUlDorSeti")
<1>1. /\ o.street \in Seq([kind : Words, name : Given])
      /\ \/ Len(o.street) = 0 /\ o.street = <<>>
         \/ /\ Len(o.street) = 1 /\ 1 \in DOMAIN o.street
            /\ o.street = <<o.street[1]>>
            /\ o.street[1] \in [kind : Words, name : Given]
  BY NoneOrOne DEF Organisation
<1>2. nodes = [n \in DOMAIN o.street |-> StreetNode(o.street[n])]
  BY DEF Each
<1>3. (\E S : nodes \in Seq(S)) /\ Len(nodes) = Len(o.street)
  <2>1. PICK T : o.street \in Seq(T)
    BY <1>1
  <2>2. nodes = [n \in DOMAIN o.street |-> nodes[n]]
    BY <1>2
  <2> HIDE DEF nodes
  <2> QED
    BY <2>1, <2>2, EachSeq
<1>4. node = IF Len(nodes) = 0 THEN NoFields
             ELSE IF Len(nodes) = 1 THEN nodes[1] ELSE List(nodes)
  <2>1. /\ Repeated("ElUlDorSeti", nodes) \subseteq Fias(o)
        /\ \A p \in Fias(o) : p[1] = "ElUlDorSeti" =>
             p \in Repeated("ElUlDorSeti", nodes)
    BY FiasKeys DEF Fias
  <2> HIDE DEF nodes
  <2> QED
    BY <1>3, <2>1, RepeatedGet DEF Node
<1>5. CASE Len(o.street) = 0
  <2>1. node = NoFields
    BY <1>3, <1>4, <1>5
  <2>2. StreetOf(node) = <<>>
    BY <2>1, NoFieldsIs DEF StreetOf, Attr
  <2>3. words = <<>> /\ Len(words) = 0
    BY <1>1, <1>5
  <2> HIDE DEF words, node
  <2>4. Join(words) = words
    BY <2>3, FlattenNone DEF Join
  <2> QED
    BY <2>2, <2>3, <2>4 DEF words, node
<1>6. CASE Len(o.street) = 1
  <2> DEFINE s == o.street[1]
  <2>1. /\ s.name # <<>> /\ 1 \in DOMAIN o.street /\ DOMAIN o.street = 1..1
        /\ node = StreetNode(s)
    BY <1>1, <1>2, <1>3, <1>4, <1>6 DEF Given
  <2>2. StreetOf(node) = Join(<<s.kind, s.name>>)
    BY <2>1, StreetIs DEF StreetOf
  <2>3. Len(words) = 1 /\ words[1] = Join(<<s.kind, s.name>>)
    BY <2>1
  <2> HIDE DEF words
  <2>4. Join(words) = words[1]
    BY <2>3, FlattenOne DEF Join
  <2> QED
    BY <2>2, <2>3, <2>4 DEF words
<1> QED
  BY <1>1, <1>5, <1>6

(* What the parser makes of a building. *)
BuildingOf(node) ==
  IF Attr(node, "Nomer") = <<>> THEN <<>>
  ELSE Join(<<Attr(node, "Tip"), Attr(node, "Nomer")>>)

LEMMA BuildingsAre ==
  ASSUME NEW o \in Organisation
  PROVE  LET items == Items(Fields(Fias(o)), "Zdanie")
         IN [n \in DOMAIN items |-> BuildingOf(items[n])]
              = [n \in DOMAIN o.buildings |->
                   Join(<<o.buildings[n].kind, o.buildings[n].number>>)]
<1> DEFINE nodes == Each(o.buildings, BuildingNode)
<1>1. o.buildings \in Seq([kind : Words, number : Given])
  BY DEF Organisation
<1>2. nodes = [n \in DOMAIN o.buildings |-> BuildingNode(o.buildings[n])]
  BY DEF Each
<1>3. (\E S : nodes \in Seq(S)) /\ DOMAIN nodes = DOMAIN o.buildings
  <2>1. PICK T : o.buildings \in Seq(T)
    BY <1>1
  <2>2. nodes = [n \in DOMAIN o.buildings |-> nodes[n]]
    BY <1>2
  <2> HIDE DEF nodes
  <2> QED
    BY <2>1, <2>2, EachSeq
<1>4. \A n \in DOMAIN nodes : IsObject(nodes[n])
  BY <1>2, <1>3, BuildingIs
<1>5. Items(Fields(Fias(o)), "Zdanie") = nodes
  <2>1. /\ Repeated("Zdanie", nodes) \subseteq Fias(o)
        /\ \A p \in Fias(o) : p[1] = "Zdanie" =>
             p \in Repeated("Zdanie", nodes)
    BY FiasKeys DEF Fias
  <2> HIDE DEF nodes
  <2> QED
    BY <1>3, <1>4, <2>1, RepeatedItems
<1>6. \A n \in DOMAIN o.buildings : o.buildings[n].number # <<>>
  <2>1. \A n \in DOMAIN o.buildings :
          o.buildings[n] \in [kind : Words, number : Given]
    <3>1. \A T : \A s \in Seq(T) : \A n \in DOMAIN s : s[n] \in T
      OBVIOUS
    <3> QED
      BY <1>1, <3>1
  <2> QED
    BY <2>1 DEF Given
<1>7. ASSUME NEW n \in DOMAIN o.buildings
      PROVE  BuildingOf(nodes[n])
               = Join(<<o.buildings[n].kind, o.buildings[n].number>>)
  <2> DEFINE b == o.buildings[n]
  <2>1. nodes[n] = BuildingNode(b)
    BY <1>2
  <2>2. b.number # <<>>
    BY <1>6
  <2> HIDE DEF nodes, b
  <2>3. /\ Attr(nodes[n], "Tip") = b.kind
        /\ Attr(nodes[n], "Nomer") = b.number
    BY <2>1, BuildingIs
  <2>4. BuildingOf(nodes[n]) = Join(<<b.kind, b.number>>)
    BY <2>2, <2>3 DEF BuildingOf
  <2> QED
    BY <2>4 DEF b
<1> HIDE DEF nodes
<1> QED
  BY <1>3, <1>5, <1>7

LEMMA AddressIs ==
  ASSUME NEW o \in Organisation, NEW yul,
         Node(yul, "SvAdresYuL") = AddressNode(o)
  PROVE  LET address == ParseAddress(yul)
         IN Join(<<address.index, address.region, address.street,
                   address.building>>) = Described(o).legal_address
<1> DEFINE items   == Items(Fields(Fias(o)), "Zdanie")
           streets == Join([n \in DOMAIN o.street |->
                              Join(<<o.street[n].kind, o.street[n].name>>)])
           houses  == Join([n \in DOMAIN o.buildings |->
                              Join(<<o.buildings[n].kind,
                                     o.buildings[n].number>>)])
           address == ParseAddress(yul)
<1>1. /\ Node(AddressNode(o), "SvAdrYuLFIAS") = Fields(Fias(o))
      /\ Node(AddressNode(o), "AdresRF") = NoFields
  BY AddressFields
<1>2. address.index = o.index
  <2>1. address.index = FirstOf(Attr(Fields(Fias(o)), "Indeks"),
                                Attr(NoFields, "Indeks"))
    BY <1>1 DEF ParseAddress
  <2>2. Attr(NoFields, "Indeks") = <<>>
    BY NoFieldsIs DEF Attr
  <2>3. Attr(Fields(Fias(o)), "Indeks") = o.index
    BY IndexIs
  <2> QED
    BY <2>1, <2>2, <2>3 DEF FirstOf
<1>3. address.region = o.region
  <2>1. address.region =
          TextOr(Get(Fields(Fias(o)), "NaimRegion", Null), <<>>)
    BY <1>1 DEF ParseAddress
  <2> HIDE DEF address
  <2> QED
    BY <2>1, RegionIs
<1>4. address.street = streets
  <2>1. address.street = StreetOf(Node(Fields(Fias(o)), "ElUlDorSeti"))
    BY <1>1 DEF ParseAddress, StreetOf
  <2> QED
    BY <2>1, StreetsAre
<1>5. address.building = houses
  <2>1. address.building = Join([n \in DOMAIN items |-> BuildingOf(items[n])])
    BY <1>1 DEF ParseAddress, BuildingOf, Each
  <2>2. [n \in DOMAIN items |-> BuildingOf(items[n])]
              = [n \in DOMAIN o.buildings |->
                   Join(<<o.buildings[n].kind, o.buildings[n].number>>)]
    BY BuildingsAre
  <2> QED
    BY <2>1, <2>2
<1>6. Described(o).legal_address = ((o.index \o o.region) \o streets) \o houses
  BY DEF Described, Each
<1> HIDE DEF address, streets, houses
<1>7. Join(<<address.index, address.region, address.street, address.building>>)
        = ((o.index \o o.region) \o streets) \o houses
  <2> DEFINE parts == <<o.index, o.region, streets, houses>>
  <2>1. /\ Len(parts) = 4 /\ parts[1] = o.index /\ parts[2] = o.region
        /\ parts[3] = streets /\ parts[4] = houses
    OBVIOUS
  <2>2. Join(<<address.index, address.region, address.street,
               address.building>>) = FlattenSeq(parts)
    BY <1>2, <1>3, <1>4, <1>5 DEF Join
  <2> HIDE DEF parts
  <2>3. FlattenSeq(parts) = ((o.index \o o.region) \o streets) \o houses
    BY <2>1, FlattenFour
  <2> QED
    BY <2>2, <2>3
<1> QED
  BY <1>6, <1>7 DEF address

LEMMA CapitalIs ==
  ASSUME NEW o, NEW yul, Node(yul, "SvUstKap") = CapitalNode(o)
  PROVE  /\ CapitalText(yul) = FirstOf(o.capital, Zero)
         /\ ParseCapital(yul) = Described(o).charter_capital
<1> DEFINE given == {<<"SumKap", o.capital>>}
<1>1. /\ <<"SumKap", o.capital>> \in given
      /\ \A p \in given : p[1] = "SumKap" => p[2] = o.capital
  OBVIOUS
<1>2. CapitalNode(o) = Fields(Attributes(given))
  BY DEF CapitalNode
<1> HIDE DEF given
<1>3. CapitalText(yul) = FirstOf(o.capital, Zero)
  BY <1>1, <1>2, AttrOnly DEF CapitalText
<1>4. Described(o).charter_capital = Capital(FirstOf(o.capital, Zero))
  BY DEF Described
<1> QED
  BY <1>3, <1>4 DEF ParseCapital, Roubles, Capital, Amount

LEMMA ShortNameIs ==
  ASSUME NEW name \in Given, NEW default
  PROVE  AttrOr(ShortNameNode(name), "NaimSokr", default) = name
<1> DEFINE given == {<<"NaimSokr", name>>}
<1>1. /\ <<"NaimSokr", name>> \in given
      /\ \A p \in given : p[1] = "NaimSokr" => p[2] = name
  OBVIOUS
<1>2. ShortNameNode(name) = Fields(Attributes(given))
  BY DEF ShortNameNode
<1> HIDE DEF given
<1>3. AttrOr(ShortNameNode(name), "NaimSokr", default) = FirstOf(name, default)
  BY <1>1, <1>2, AttrOnly
<1> QED
  BY <1>3 DEF FirstOf, Given

LEMMA NamesAre ==
  ASSUME NEW o \in Organisation
  PROVE  /\ Attr(NameNode(o), "NaimYuLPoln") = o.full_name
         /\ AttrOr(Node(NameNode(o), "SvNaimYuLSokr"), "NaimSokr", o.full_name)
              = (o.short_name \o <<o.full_name>>)[1]
<1> DEFINE given == {<<"NaimYuLPoln", o.full_name>>}
           nodes == Each(o.short_name, ShortNameNode)
           pairs == Attributes(given) \cup Repeated("SvNaimYuLSokr", nodes)
           node  == Node(NameNode(o), "SvNaimYuLSokr")
<1>1. NameNode(o) = Fields(pairs)
  BY DEF NameNode
<1>2. /\ \A p \in pairs : p[1] = "@attributes" => p \in Attributes(given)
      /\ \A p \in pairs : p[1] = "SvNaimYuLSokr" =>
           p \in Repeated("SvNaimYuLSokr", nodes)
  BY AttributesKey, RepeatedKey
<1>3. Attr(NameNode(o), "NaimYuLPoln") = o.full_name
  <2>1. /\ <<"NaimYuLPoln", o.full_name>> \in given
        /\ \A p \in given : p[1] = "NaimYuLPoln" => p[2] = o.full_name
        /\ Attributes(given) \subseteq pairs
    OBVIOUS
  <2> HIDE DEF given, pairs
  <2>2. AttrOr(Fields(pairs), "NaimYuLPoln", <<>>) = FirstOf(o.full_name, <<>>)
    BY <1>2, <2>1, AttrGiven
  <2> QED
    BY <1>1, <2>2 DEF Attr, FirstOf
<1>4. /\ o.short_name \in Seq(Given)
      /\ \/ Len(o.short_name) = 0 /\ o.short_name = <<>>
         \/ /\ Len(o.short_name) = 1 /\ 1 \in DOMAIN o.short_name
            /\ o.short_name = <<o.short_name[1]>> /\ o.short_name[1] \in Given
  BY NoneOrOne DEF Organisation
<1>5. nodes = [n \in DOMAIN o.short_name |-> ShortNameNode(o.short_name[n])]
  BY DEF Each
<1>6. (\E S : nodes \in Seq(S)) /\ Len(nodes) = Len(o.short_name)
  <2>1. nodes = [n \in DOMAIN o.short_name |-> nodes[n]]
    BY <1>5
  <2> HIDE DEF nodes
  <2> QED
    BY <1>4, <2>1, EachSeq
<1>7. node = IF Len(nodes) = 0 THEN NoFields
             ELSE IF Len(nodes) = 1 THEN nodes[1] ELSE List(nodes)
  <2>1. Repeated("SvNaimYuLSokr", nodes) \subseteq pairs
    OBVIOUS
  <2> HIDE DEF nodes, pairs
  <2> QED
    BY <1>1, <1>2, <1>6, <2>1, RepeatedGet DEF Node
<1>8. AttrOr(node, "NaimSokr", o.full_name)
        = (o.short_name \o <<o.full_name>>)[1]
  <2>1. CASE Len(o.short_name) = 0
    <3>1. node = NoFields
      BY <1>6, <1>7, <2>1
    <3>2. (o.short_name \o <<o.full_name>>)[1] = o.full_name
      BY <1>4, <2>1
    <3> HIDE DEF node
    <3> QED
      BY <3>1, <3>2, NoFieldsIs
  <2>2. CASE Len(o.short_name) = 1
    <3> DEFINE name == o.short_name[1]
    <3>1. name \in Given /\ node = ShortNameNode(name)
      BY <1>4, <1>5, <1>6, <1>7, <2>2
    <3>2. (o.short_name \o <<o.full_name>>)[1] = name
      BY <1>4, <2>2
    <3> HIDE DEF node, name
    <3> QED
      BY <3>1, <3>2, ShortNameIs
  <2> QED
    BY <1>4, <2>1, <2>2
<1> QED
  BY <1>3, <1>8

LEMMA PairOf ==
  ASSUME NEW x, NEW y
  PROVE  <<x>> \o <<y>> = <<x, y>>
<1> DEFINE s == <<x>> \o <<y>>
           t == <<x, y>>
           T == {x, y}
<1>1. <<x>> \in Seq(T) /\ <<y>> \in Seq(T)
  OBVIOUS
<1>2. s \in Seq(T) /\ Len(s) = 2 /\ s[1] = x /\ s[2] = y
  BY <1>1
<1>3. t \in Seq(T) /\ Len(t) = 2 /\ t[1] = x /\ t[2] = y
  OBVIOUS
<1>4. \A i \in 1..2 : i = 1 \/ i = 2
  OBVIOUS
<1> HIDE DEF s, t, T
<1>5. s = t
  BY <1>2, <1>3, <1>4
<1> QED
  BY <1>5 DEF s, t

(* What the document shows of a director. *)
LinesOf(d) ==
  <<<<RoleLabel(d.role), NameOf(d.name)>>>> \o
  IF RoleLabel(d.role) = GeneralDirector
  THEN <<<<<<"chief accountant", "of the company">>, NameOf(d.name)>>>>
  ELSE <<>>

LEMMA DirectorIs ==
  ASSUME NEW d
  PROVE  /\ IsObject(DirectorNode(d)) /\ DirectorNode(d) # NoFields
         /\ PersonName(Node(DirectorNode(d), "SvFL")) = NameOf(d.name)
         /\ Attr(Node(DirectorNode(d), "SvDolzhn"), "NaimDolzhn") = d.role
<1> DEFINE given == {<<"NaimDolzhn", d.role>>}
           role  == Fields(Attributes(given))
           pairs == {<<"SvFL", PersonNode(d.name)>>, <<"SvDolzhn", role>>}
<1>1. DirectorNode(d) = Fields(pairs)
  BY DEF DirectorNode
<1>2. /\ <<"SvFL", PersonNode(d.name)>> \in pairs
      /\ \A p \in pairs : p[1] = "SvFL" => p[2] = PersonNode(d.name)
      /\ <<"SvDolzhn", role>> \in pairs
      /\ \A p \in pairs : p[1] = "SvDolzhn" => p[2] = role
  OBVIOUS
<1>3. Attr(role, "NaimDolzhn") = d.role
  <2>1. /\ <<"NaimDolzhn", d.role>> \in given
        /\ \A p \in given : p[1] = "NaimDolzhn" => p[2] = d.role
    OBVIOUS
  <2> HIDE DEF given
  <2> QED
    BY <2>1, AttrOnly
<1> HIDE DEF pairs, role
<1>4. Node(Fields(pairs), "SvFL") = PersonNode(d.name)
  BY <1>2, FieldGiven DEF Node
<1>5. Node(Fields(pairs), "SvDolzhn") = role
  BY <1>2, FieldGiven DEF Node
<1>6. DirectorNode(d) # NoFields
  <2>1. Get(Fields(pairs), "SvFL", Null) = PersonNode(d.name)
    BY <1>2, FieldGiven
  <2>2. Get(NoFields, "SvFL", Null) = Null
    BY NoFieldsIs
  <2>3. IsObject(PersonNode(d.name)) /\ ~IsObject(Null)
    BY FieldsIsObject DEF PersonNode, IsObject, Null
  <2> QED
    BY <1>1, <2>1, <2>2, <2>3
<1> QED
  BY <1>1, <1>3, <1>4, <1>5, <1>6, NameIs, FieldsIsObject

LEMMA DirectorsAre ==
  ASSUME NEW o \in Organisation, Len(o.directors) <= 1,
         NEW yul, NEW node, node = Node(yul, "SvedDolzhnFL"),
         Len(o.directors) = 0 => node = NoFields,
         Len(o.directors) = 1 => node = DirectorNode(o.directors[1]),
         NEW org, org.director = ParseDirector(yul)
  PROVE  Context(org).ceos = Described(o).ceos
<1> DEFINE lines == [n \in DOMAIN o.directors |-> LinesOf(o.directors[n])]
<1>1. PICK T : o.directors \in Seq(T)
  BY DEF Organisation
<1>2. \/ Len(o.directors) = 0 /\ o.directors = <<>>
      \/ Len(o.directors) = 1 /\ 1 \in DOMAIN o.directors
  <2>1. Len(o.directors) \in Nat /\ \A n \in Nat : n <= 1 => n = 0 \/ n = 1
    BY <1>1
  <2>2. Len(o.directors) = 0 \/ Len(o.directors) = 1
    BY <2>1
  <2> QED
    BY <1>1, <2>2
<1>3. Described(o).ceos = FlattenSeq(lines)
  BY DEF Described, LinesOf, Each
<1>4. Len(lines) = Len(o.directors)
  <2>1. lines = [n \in DOMAIN o.directors |-> lines[n]]
    OBVIOUS
  <2> HIDE DEF lines
  <2> QED
    BY <1>1, <2>1, EachSeq
<1>5. Context(org).ceos =
        IF org.director = <<>> THEN <<>>
        ELSE IF org.director[1].role = GeneralDirector
             THEN <<<<org.director[1].role, org.director[1].name>>,
                    <<<<"chief accountant", "of the company">>,
                      org.director[1].name>>>>
             ELSE <<<<org.director[1].role, org.director[1].name>>>>
  BY DEF Context
<1>6. CASE Len(o.directors) = 0
  <2>1. org.director = <<>>
    BY <1>6 DEF ParseDirector
  <2>2. lines = <<>> /\ Len(lines) = 0
    BY <1>2, <1>4, <1>6
  <2> HIDE DEF lines
  <2>3. FlattenSeq(lines) = <<>>
    BY <2>2, FlattenNone
  <2> QED
    BY <1>3, <1>5, <2>1, <2>3
<1>7. CASE Len(o.directors) = 1
  <2> DEFINE d == o.directors[1]
             r == RoleLabel(d.role)
             name == NameOf(d.name)
             found == [name |-> PersonName(Node(node, "SvFL")),
                       role |-> RoleLabel(Attr(Node(node, "SvDolzhn"),
                                               "NaimDolzhn"))]
  <2>1. /\ 1 \in DOMAIN o.directors
        /\ lines[1] = LinesOf(d) /\ Len(lines) = 1
    BY <1>2, <1>4, <1>7
  <2>2. FlattenSeq(lines) = LinesOf(d)
    <3> HIDE DEF lines
    <3> QED
      BY <2>1, FlattenOne
  <2>3. node = DirectorNode(d)
    BY <1>7
  <2> HIDE DEF d
  <2>4. /\ IsObject(node) /\ node # NoFields
        /\ PersonName(Node(node, "SvFL")) = name
        /\ Attr(Node(node, "SvDolzhn"), "NaimDolzhn") = d.role
    BY <2>3, DirectorIs
  <2>5. org.director = <<found>>
    BY <2>4 DEF ParseDirector
  <2>6. found.name = name /\ found.role = r
    BY <2>4
  <2> HIDE DEF found, r, name
  <2>7. org.director # <<>> /\ org.director[1] = found
    BY <2>5
  <2>8. Context(org).ceos =
          IF r = GeneralDirector
          THEN <<<<r, name>>, <<<<"chief accountant", "of the company">>, name>>>>
          ELSE <<<<r, name>>>>
    BY <1>5, <2>6, <2>7
  <2>9. LinesOf(d) =
          IF r = GeneralDirector
          THEN <<<<r, name>>, <<<<"chief accountant", "of the company">>, name>>>>
          ELSE <<<<r, name>>>>
    <3> DEFINE x == <<r, name>>
               y == <<<<"chief accountant", "of the company">>, name>>
    <3>1. LinesOf(d) = <<x>> \o (IF r = GeneralDirector THEN <<y>> ELSE <<>>)
      BY DEF LinesOf, r, name
    <3> HIDE DEF x, y
    <3>2. <<x>> \o <<y>> = <<x, y>> /\ <<x>> \o <<>> = <<x>>
      <4> DEFINE B == {x, y}
      <4>1. /\ <<x>> \in Seq(B) /\ <<y>> \in Seq(B) /\ <<>> \in Seq(B)
            /\ <<x, y>> \in Seq(B)
        OBVIOUS
      <4>2. <<x>> \o <<y>> = <<x, y>>
        BY PairOf
      <4>3. <<x>> \o <<>> = <<x>>
        BY <4>1
      <4> QED
        BY <4>2, <4>3
    <3>3. LinesOf(d) = IF r = GeneralDirector THEN <<x, y>> ELSE <<x>>
      BY <3>1, <3>2
    <3> QED
      BY <3>3 DEF x, y
  <2> QED
    BY <1>3, <2>2, <2>8, <2>9
<1> QED
  BY <1>2, <1>6, <1>7

-----------------------------------------------------------------------------
(***************************************************************************)
(* The whole document.                                                     *)
(***************************************************************************)
LEMMA NotNull ==
  /\ \A pairs : Fields(pairs) # Null /\ Fields(pairs).type = "object"
  /\ NoFields # Null /\ NoFields.type = "object"
  /\ \A s : List(s) # Null /\ List(s).type = "list"
<1>1. \A pairs : Fields(pairs).type = "object"
  BY DEF Fields, Object
<1>2. NoFields.type = "object"
  BY DEF NoFields, Object
<1>3. \A s : List(s).type = "list"
  BY DEF List
<1>4. Null.type = "null"
  BY DEF Null
<1> QED
  BY <1>1, <1>2, <1>3, <1>4

(* A node of Repeated is no null, and a list when it has several elements. *)
LEMMA RepeatedNode ==
  ASSUME NEW S, NEW nodes \in Seq(S), NEW pairs, NEW key,
         Repeated(key, nodes) \subseteq pairs,
         \A p \in pairs : p[1] = key => p \in Repeated(key, nodes),
         \A n \in DOMAIN nodes : IsObject(nodes[n])
  PROVE  /\ Node(Fields(pairs), key) # Null
         /\ Node(Fields(pairs), key).type = "list" <=> Len(nodes) > 1
<1> DEFINE node == Node(Fields(pairs), key)
<1>1. node = IF Len(nodes) = 0 THEN NoFields
             ELSE IF Len(nodes) = 1 THEN nodes[1] ELSE List(nodes)
  BY RepeatedGet DEF Node
<1> HIDE DEF node
<1>2. Len(nodes) \in Nat /\ Null.type = "null"
  BY DEF Null
<1>3. CASE Len(nodes) = 0
  BY <1>1, <1>3, NotNull DEF node
<1>4. CASE Len(nodes) = 1
  <2>1. nodes[1].type = "object"
    BY <1>4 DEF IsObject
  <2> QED
    BY <1>1, <1>2, <1>4, <2>1 DEF node
<1>5. CASE Len(nodes) # 0 /\ Len(nodes) # 1
  <2>1. node = List(nodes)
    BY <1>1, <1>5
  <2>2. Len(nodes) > 1
    <3>1. \A n \in Nat : n # 0 /\ n # 1 => n > 1
      OBVIOUS
    <3> QED
      BY <1>2, <1>5, <3>1
  <2>3. List(nodes) # Null /\ List(nodes).type = "list"
    BY NotNull
  <2> QED
    BY <2>1, <2>2, <2>3 DEF node
<1> QED
  BY <1>3, <1>4, <1>5

LEMMA EntryKeys ==
  ASSUME NEW o, NEW p \in Entry(o)
  PROVE  /\ p[1] = "@attributes" => p \in Attributes({<<"DataOGRN", o.date>>})
         /\ p[1] = "SvNaimYuL" => p[2] = NameNode(o)
         /\ p[1] = "SvAdresYuL" => p[2] = AddressNode(o)
         /\ p[1] = "SvUchredit" => p[2] = FoundersNode(o)
         /\ p[1] = "SvOKVED" => p[2] = OkvedNode(o)
         /\ p[1] = "SvUstKap" => p[2] = CapitalNode(o)
         /\ p[1] = "SvedDolzhnFL" =>
              p \in Repeated("SvedDolzhnFL", Each(o.directors, DirectorNode))
BY AttributesKey, RepeatedKey DEF Entry

LEMMA EntryNodes ==
  ASSUME NEW o
  PROVE  /\ Node(Document(o), "SvYuL") = Fields(Entry(o))
         /\ Attr(Fields(Entry(o)), "DataOGRN") = o.date
         /\ Node(Fields(Entry(o)), "SvNaimYuL") = NameNode(o)
         /\ Node(Fields(Entry(o)), "SvAdresYuL") = AddressNode(o)
         /\ Node(Fields(Entry(o)), "SvUchredit") = FoundersNode(o)
         /\ Node(Fields(Entry(o)), "SvOKVED") = OkvedNode(o)
         /\ Node(Fields(Entry(o)), "SvUstKap") = CapitalNode(o)
<1> DEFINE E == Entry(o)
<1>1. Node(Document(o), "SvYuL") = Fields(Entry(o))
  <2> DEFINE pairs == {<<"SvYuL", Fields(Entry(o))>>}
  <2>1. /\ <<"SvYuL", Fields(Entry(o))>> \in pairs
        /\ \A p \in pairs : p[1] = "SvYuL" => p[2] = Fields(Entry(o))
    OBVIOUS
  <2>2. Document(o) = Fields(pairs)
    BY DEF Document
  <2> HIDE DEF pairs
  <2> QED
    BY <2>1, <2>2, FieldGiven DEF Node
<1>2. Attr(Fields(E), "DataOGRN") = o.date
  <2> DEFINE given == {<<"DataOGRN", o.date>>}
  <2>1. /\ Attributes(given) \subseteq E
        /\ \A p \in E : p[1] = "@attributes" => p \in Attributes(given)
    BY EntryKeys DEF Entry
  <2>2. /\ <<"DataOGRN", o.date>> \in given
        /\ \A p \in given : p[1] = "DataOGRN" => p[2] = o.date
    OBVIOUS
  <2> HIDE DEF given, E
  <2>3. AttrOr(Fields(E), "DataOGRN", <<>>) = FirstOf(o.date, <<>>)
    BY <2>1, <2>2, AttrGiven
  <2> QED
    BY <2>3 DEF Attr, FirstOf
<1>3. /\ <<"SvNaimYuL", NameNode(o)>> \in E
      /\ <<"SvAdresYuL", AddressNode(o)>> \in E
      /\ <<"SvUchredit", FoundersNode(o)>> \in E
      /\ <<"SvOKVED", OkvedNode(o)>> \in E
      /\ <<"SvUstKap", CapitalNode(o)>> \in E
  BY DEF Entry
<1>4. /\ \A p \in E : p[1] = "SvNaimYuL" => p[2] = NameNode(o)
      /\ \A p \in E : p[1] = "SvAdresYuL" => p[2] = AddressNode(o)
      /\ \A p \in E : p[1] = "SvUchredit" => p[2] = FoundersNode(o)
      /\ \A p \in E : p[1] = "SvOKVED" => p[2] = OkvedNode(o)
      /\ \A p \in E : p[1] = "SvUstKap" => p[2] = CapitalNode(o)
  BY EntryKeys
<1> HIDE DEF E
<1>5. Node(Fields(E), "SvNaimYuL") = NameNode(o)
  BY <1>3, <1>4, FieldGiven DEF Node
<1>6. Node(Fields(E), "SvAdresYuL") = AddressNode(o)
  BY <1>3, <1>4, FieldGiven DEF Node
<1>7. Node(Fields(E), "SvUchredit") = FoundersNode(o)
  BY <1>3, <1>4, FieldGiven DEF Node
<1>8. Node(Fields(E), "SvOKVED") = OkvedNode(o)
  BY <1>3, <1>4, FieldGiven DEF Node
<1>9. Node(Fields(E), "SvUstKap") = CapitalNode(o)
  BY <1>3, <1>4, FieldGiven DEF Node
<1> QED
  BY <1>1, <1>2, <1>5, <1>6, <1>7, <1>8, <1>9 DEF E

LEMMA EntryDirectors ==
  ASSUME NEW o \in Organisation
  PROVE  LET node == Node(Fields(Entry(o)), "SvedDolzhnFL")
         IN /\ Len(o.directors) = 0 => node = NoFields
            /\ Len(o.directors) = 1 => node = DirectorNode(o.directors[1])
            /\ node.type = "list" /\ node.value # <<>>
                 <=> Len(o.directors) > 1
<1> DEFINE nodes == Each(o.directors, DirectorNode)
           node  == Node(Fields(Entry(o)), "SvedDolzhnFL")
<1>1. PICK T : o.directors \in Seq(T)
  BY DEF Organisation
<1>2. nodes = [n \in DOMAIN o.directors |-> DirectorNode(o.directors[n])]
  BY DEF Each
<1>3. /\ \E S : nodes \in Seq(S)
      /\ Len(nodes) = Len(o.directors)
      /\ DOMAIN nodes = DOMAIN o.directors
  <2>1. nodes = [n \in DOMAIN o.directors |-> nodes[n]]
    BY <1>2
  <2> HIDE DEF nodes
  <2> QED
    BY <1>1, <2>1, EachSeq
<1>4. \A n \in DOMAIN nodes : IsObject(nodes[n])
  BY <1>2, <1>3, DirectorIs
<1>5. /\ Repeated("SvedDolzhnFL", nodes) \subseteq Entry(o)
      /\ \A p \in Entry(o) : p[1] = "SvedDolzhnFL" =>
           p \in Repeated("SvedDolzhnFL", nodes)
  BY EntryKeys DEF Entry
<1>6. Len(o.directors) = 1 => nodes[1] = DirectorNode(o.directors[1])
  BY <1>1, <1>2
<1> HIDE DEF nodes
<1>7. node = IF Len(nodes) = 0 THEN NoFields
             ELSE IF Len(nodes) = 1 THEN nodes[1] ELSE List(nodes)
  BY <1>3, <1>5, RepeatedGet DEF Node
<1>8. node.type = "list" <=> Len(nodes) > 1
  BY <1>3, <1>4, <1>5, RepeatedNode
<1>9. Len(nodes) > 1 => node.value # <<>>
  <2>1. PICK S : nodes \in Seq(S)
    BY <1>3
  <2>2. \A n \in Nat : n > 1 => n # 0 /\ n # 1
    OBVIOUS
  <2>3. Len(nodes) \in Nat /\ (Len(nodes) > 1 => nodes # <<>>)
    BY <2>1
  <2>4. List(nodes).value = nodes
    BY DEF List
  <2> HIDE DEF node
  <2> QED
    BY <1>7, <2>2, <2>3, <2>4
<1> HIDE DEF node
<1> QED
  BY <1>3, <1>6, <1>7, <1>8, <1>9 DEF node

LEMMA ListsAreNotNull ==
  ASSUME NEW o \in Organisation
  PROVE  /\ Node(Fields(Fias(o)), "Zdanie") # Null
         /\ Node(FoundersNode(o), "UchrFL") # Null
         /\ Node(FoundersNode(o), "UchrYuL") # Null
         /\ Node(OkvedNode(o), "SvOKVEDDop") # Null
<1> DEFINE buildings == Each(o.buildings, BuildingNode)
           people    == Each(o.people, PersonFounder)
           companies == Each(o.companies, CompanyFounder)
           main      == Each(o.main, ActivityNode)
           more      == Each(o.more, ActivityNode)
           founders  == Repeated("UchrFL", people) \cup
                        Repeated("UchrYuL", companies)
           okved     == Repeated("SvOKVEDOsn", main) \cup
                        Repeated("SvOKVEDDop", more)
<1>1. \A T : \A s \in Seq(T) : \A n \in DOMAIN s : s[n] \in T
  OBVIOUS
<1>2. Node(Fields(Fias(o)), "Zdanie") # Null
  <2>1. PICK T : o.buildings \in Seq(T)
    BY DEF Organisation
  <2>2. buildings = [n \in DOMAIN o.buildings |-> BuildingNode(o.buildings[n])]
    BY DEF Each
  <2>3. buildings = [n \in DOMAIN o.buildings |-> buildings[n]]
    BY <2>2
  <2>4. \A n \in DOMAIN buildings : IsObject(buildings[n])
    BY <2>2, BuildingIs
  <2>5. /\ Repeated("Zdanie", buildings) \subseteq Fias(o)
        /\ \A p \in Fias(o) : p[1] = "Zdanie" =>
             p \in Repeated("Zdanie", buildings)
    BY FiasKeys DEF Fias
  <2> HIDE DEF buildings
  <2>6. \E S : buildings \in Seq(S)
    BY <2>1, <2>3, EachSeq
  <2> QED
    BY <2>4, <2>5, <2>6, RepeatedNode
<1>3. /\ Node(FoundersNode(o), "UchrFL") # Null
      /\ Node(FoundersNode(o), "UchrYuL") # Null
  <2>1. PICK T : o.people \in Seq(T)
    BY DEF Organisation
  <2>2. PICK U : o.companies \in Seq(U)
    BY DEF Organisation
  <2>3. /\ people = [n \in DOMAIN o.people |-> PersonFounder(o.people[n])]
        /\ companies = [n \in DOMAIN o.companies |->
                          CompanyFounder(o.companies[n])]
    BY DEF Each
  <2>4. /\ people = [n \in DOMAIN o.people |-> people[n]]
        /\ companies = [n \in DOMAIN o.companies |-> companies[n]]
    BY <2>3
  <2>5. \A n \in DOMAIN people : IsObject(people[n])
    BY <2>3, PersonFounderIs
  <2>6. \A n \in DOMAIN companies : IsObject(companies[n])
    BY <2>3, CompanyFounderIs
  <2>7. FoundersNode(o) = Fields(founders)
    BY DEF FoundersNode
  <2> HIDE DEF people, companies
  <2>8. /\ \A p \in founders : p[1] = "UchrFL" => p \in Repeated("UchrFL", people)
        /\ \A p \in founders : p[1] = "UchrYuL" =>
             p \in Repeated("UchrYuL", companies)
        /\ Repeated("UchrFL", people) \subseteq founders
        /\ Repeated("UchrYuL", companies) \subseteq founders
    BY RepeatedKey
  <2> HIDE DEF founders
  <2>9. \E S : people \in Seq(S)
    BY <2>1, <2>4, EachSeq
  <2>10. \E S : companies \in Seq(S)
    BY <2>2, <2>4, EachSeq
  <2>11. Node(Fields(founders), "UchrFL") # Null
    BY <2>5, <2>8, <2>9, RepeatedNode
  <2>12. Node(Fields(founders), "UchrYuL") # Null
    BY <2>6, <2>8, <2>10, RepeatedNode
  <2> QED
    BY <2>7, <2>11, <2>12
<1>4. Node(OkvedNode(o), "SvOKVEDDop") # Null
  <2>1. o.more \in Seq(Given \X Words)
    BY DEF Organisation
  <2>2. more = [n \in DOMAIN o.more |-> ActivityNode(o.more[n])]
    BY DEF Each
  <2>3. more = [n \in DOMAIN o.more |-> more[n]]
    BY <2>2
  <2>4. \A n \in DOMAIN more : IsObject(more[n])
    BY <1>1, <2>1, <2>2, ActivityIs
  <2>5. OkvedNode(o) = Fields(okved)
    BY DEF OkvedNode
  <2> HIDE DEF main, more
  <2>6. /\ \A p \in okved : p[1] = "SvOKVEDDop" =>
             p \in Repeated("SvOKVEDDop", more)
        /\ Repeated("SvOKVEDDop", more) \subseteq okved
    BY RepeatedKey
  <2> HIDE DEF okved
  <2>7. \E S : more \in Seq(S)
    BY <2>1, <2>3, EachSeq
  <2> QED
    BY <2>4, <2>5, <2>6, <2>7, RepeatedNode
<1> QED
  BY <1>2, <1>3, <1>4

(* The parser raises on the document of an organisation with several       *)
(* directors, on whose list it calls .get (_parse_director), or with a     *)
(* capital that is a number and not finite, which int() does not take      *)
(* (_parse_capital), and on no other.                                      *)
THEOREM RaisesExactly ==
  ASSUME NEW o \in Organisation
  PROVE  Raises(Document(o)) <=>
           Len(o.directors) > 1 \/ Infinite(FirstOf(o.capital, Zero))
<1> DEFINE yul == Fields(Entry(o))
           directors == Node(yul, "SvedDolzhnFL")
           founders == FoundersNode(o)
<1>1. Node(Document(o), "SvYuL") = yul /\ IsObject(Document(o)) /\ IsObject(yul)
  BY EntryNodes, FieldsIsObject DEF Document
<1>2. /\ Node(yul, "SvNaimYuL") = NameNode(o)
      /\ Node(yul, "SvAdresYuL") = AddressNode(o)
      /\ Node(yul, "SvUchredit") = founders
      /\ Node(yul, "SvOKVED") = OkvedNode(o)
      /\ Node(yul, "SvUstKap") = CapitalNode(o)
  BY EntryNodes
<1>3. Node(AddressNode(o), "SvAdrYuLFIAS") = Fields(Fias(o))
  BY AddressFields
<1>4. /\ IsObject(NameNode(o)) /\ IsObject(AddressNode(o))
      /\ IsObject(Fields(Fias(o)))
      /\ IsObject(founders) /\ IsObject(OkvedNode(o))
  BY FieldsIsObject DEF NameNode, AddressNode, FoundersNode, OkvedNode
<1>5. directors.type = "list" /\ directors.value # <<>>
        <=> Len(o.directors) > 1
  BY EntryDirectors
<1>6. CapitalText(yul) = FirstOf(o.capital, Zero)
  BY <1>2, CapitalIs
<1> HIDE DEF yul
<1>7. \A key \in {"UchrFL", "UchrYuL"} :
        \A n \in DOMAIN Items(founders, key) :
          /\ IsObject(Items(founders, key)[n])
          /\ IsObject(Node(Items(founders, key)[n], "DolyaUstKap"))
  BY <1>2, FoundersAre
<1> HIDE DEF founders
<1>8. \A key \in {"UchrFL", "UchrYuL"} : ~BadFounders(founders, key)
  BY <1>7, ListsAreNotNull DEF BadFounders, founders
<1> HIDE DEF directors
<1>9. Raises(Document(o)) <=>
        \/ directors.type = "list" /\ directors.value # <<>>
        \/ Infinite(CapitalText(yul))
  BY <1>1, <1>2, <1>3, <1>4, <1>8, ListsAreNotNull DEF Raises, directors
<1> QED
  BY <1>5, <1>6, <1>9 DEF yul, directors

(* Whenever the parser does not raise, the document says of an             *)
(* organisation what the parser reads of it: its names, address, director  *)
(* with the role, founders with their shares and nominal values, with      *)
(* their kopecks, activities and date, each when there is none, one or     *)
(* several, and the capital in whole roubles (parse_egrul_response,        *)
(* _build_context).  An amount that is no number is zero or, of the        *)
(* capital, the text.                                                      *)
THEOREM DocumentDescribes ==
  ASSUME NEW o \in Organisation, ~Raises(Document(o))
  PROVE  Context(Parse(Document(o))) = Described(o)
<1>0. Len(o.directors) <= 1
  <2>1. PICK T : o.directors \in Seq(T)
    BY DEF Organisation
  <2>2. Len(o.directors) \in Nat /\ ~(Len(o.directors) > 1)
    BY <2>1, RaisesExactly
  <2> QED
    BY <2>2
<1> DEFINE yul == Fields(Entry(o))
           org == Parse(Document(o))
<1>1. /\ Node(Document(o), "SvYuL") = yul
      /\ Attr(yul, "DataOGRN") = o.date
      /\ Node(yul, "SvNaimYuL") = NameNode(o)
      /\ Node(yul, "SvAdresYuL") = AddressNode(o)
      /\ Node(yul, "SvUchredit") = FoundersNode(o)
      /\ Node(yul, "SvOKVED") = OkvedNode(o)
      /\ Node(yul, "SvUstKap") = CapitalNode(o)
  BY EntryNodes
<1>2. /\ org.full_name = o.full_name
      /\ org.short_name = (o.short_name \o <<o.full_name>>)[1]
  <2> HIDE DEF yul
  <2> QED
    BY <1>1, NamesAre DEF Parse
<1>3. /\ org.registration_date = o.date
      /\ org.authorized_capital = Described(o).charter_capital
  <2> HIDE DEF yul
  <2> QED
    BY <1>1, CapitalIs DEF Parse
<1>4. /\ org.address = ParseAddress(yul)
      /\ org.director = ParseDirector(yul)
      /\ org.founders = ParseFounders(yul)
      /\ org.okved_list = ParseOkved(yul).all
  <2> HIDE DEF yul
  <2> QED
    BY <1>1 DEF Parse
<1> HIDE DEF yul, org
<1>5. Context(org).full_company_name = Described(o).full_company_name
  BY <1>2 DEF Context, Described
<1>6. Context(org).short_company_name = Described(o).short_company_name
  BY <1>2 DEF Context, Described
<1>7. Context(org).legal_address = Described(o).legal_address
  <2>1. Context(org).legal_address =
          Join(<<org.address.index, org.address.region, org.address.street,
                 org.address.building>>)
    BY DEF Context
  <2> QED
    BY <1>1, <1>4, <2>1, AddressIs
<1>8. Context(org).ceos = Described(o).ceos
  <2> DEFINE node == Node(yul, "SvedDolzhnFL")
  <2>1. /\ Len(o.directors) = 0 => node = NoFields
        /\ Len(o.directors) = 1 => node = DirectorNode(o.directors[1])
    BY EntryDirectors DEF yul
  <2>2. node = Node(yul, "SvedDolzhnFL")
    OBVIOUS
  <2> HIDE DEF node
  <2> QED
    BY <1>0, <1>4, <2>1, <2>2, DirectorsAre
<1>9. Context(org).charter_capital = Described(o).charter_capital
  BY <1>3 DEF Context
<1>10. Context(org).participants = Described(o).participants
  <2>1. Context(org).participants = org.founders
    BY DEF Context
  <2> QED
    BY <1>1, <1>4, <2>1, FoundersAre
<1>11. Context(org).registration_date = Described(o).registration_date
  BY <1>3 DEF Context, Described
<1>12. Context(org).activities_list = Described(o).activities_list
  <2>1. /\ Context(org).activities_list = org.okved_list
        /\ Described(o).activities_list = o.main \o o.more
    BY DEF Context, Described
  <2> QED
    BY <1>1, <1>4, <2>1, ActivitiesAre
<1>13. Context(org) = Described(o)
  <2> DEFINE c == Context(org)
             d == Described(o)
  <2>1. c = [full_company_name  |-> c.full_company_name,
             short_company_name |-> c.short_company_name,
             legal_address      |-> c.legal_address,
             ceos               |-> c.ceos,
             charter_capital    |-> c.charter_capital,
             participants       |-> c.participants,
             registration_date  |-> c.registration_date,
             activities_list    |-> c.activities_list]
    BY DEF Context
  <2>2. d = [full_company_name  |-> d.full_company_name,
             short_company_name |-> d.short_company_name,
             legal_address      |-> d.legal_address,
             ceos               |-> d.ceos,
             charter_capital    |-> d.charter_capital,
             participants       |-> d.participants,
             registration_date  |-> d.registration_date,
             activities_list    |-> d.activities_list]
    BY DEF Described
  <2>3. /\ c.full_company_name = d.full_company_name
        /\ c.short_company_name = d.short_company_name
        /\ c.legal_address = d.legal_address
        /\ c.ceos = d.ceos
        /\ c.charter_capital = d.charter_capital
        /\ c.participants = d.participants
        /\ c.registration_date = d.registration_date
        /\ c.activities_list = d.activities_list
    BY <1>5, <1>6, <1>7, <1>8, <1>9, <1>10, <1>11, <1>12
  <2> HIDE DEF c, d
  <2>4. c = d
    BY <2>1, <2>2, <2>3
  <2> QED
    BY <2>4 DEF c, d
<1> QED
  BY <1>13 DEF org
=============================================================================
