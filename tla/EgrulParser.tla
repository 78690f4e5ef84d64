----------------------------- MODULE EgrulParser -----------------------------
(***************************************************************************)
(* From the JSON of the registry to the fields of an organisation and the  *)
(* lines of the document: backend/app/services/egrul_parser.py and         *)
(* docx_generator.py.                                                      *)
(*                                                                         *)
(* The registry converts XML to JSON.  A node without an element is        *)
(* missing, a node with one element is that element, a node with several   *)
(* is a list; the parser has to see the same organisation in all of them.  *)
(* A text is the sequence of its words, the empty one is <<>>: separators  *)
(* are left out.  Names of nodes are transliterated.  A node is an object, *)
(* a list or null, and its attributes are texts.                           *)
(***************************************************************************)
EXTENDS Naturals, SequencesExt

Words == Seq(STRING)
Given == Words \ {<<>>}

Zero == <<"0">>

(***************************************************************************)
(* The texts decimal.Decimal takes, and the numbers they are.  A number is *)
(* finite when int() and num2words take it: NaN and Infinity are not.      *)
(***************************************************************************)
CONSTANT Decimal

Number == [finite : BOOLEAN, whole : Words, fraction : Words]

ASSUME DecimalAssumption ==
  /\ Zero \in DOMAIN Decimal
  /\ \A text \in DOMAIN Decimal : Decimal[text] \in Number

(***************************************************************************)
(* JSON.                                                                   *)
(***************************************************************************)
Text(s)    == [type |-> "text", value |-> s]
List(s)    == [type |-> "list", value |-> s]
Object(f)  == [type |-> "object", value |-> f]
Null       == [type |-> "null"]
NoFields   == Object([key \in {} |-> Null])

IsObject(v) == v.type = "object"

(* dict.get: a present null is not replaced by the default. *)
Get(v, key, default) ==
  IF key \in DOMAIN v.value THEN v.value[key] ELSE default

Node(v, key) == Get(v, key, NoFields)

(* _get_attrs(node).get(key, default) *)
AttrOr(v, key, default) ==
  LET attrs == IF IsObject(v) THEN Node(v, "@attributes") ELSE NoFields
  IN Get(attrs, key, Text(default)).value

Attr(v, key) == AttrOr(v, key, <<>>)

(* The text of a leaf, which may be null. *)
TextOr(v, default) == IF v = Null THEN default ELSE v.value

(* Mutant: a single element is not made a list of one. *)
Items_ListsOnly(v, key) ==
  LET raw == Get(v, key, List(<<>>))
  IN IF IsObject(raw) THEN <<>> ELSE raw.value

(* A node that may be repeated. *)
Items(v, key) ==
  LET raw == Get(v, key, List(<<>>))
  IN IF IsObject(raw) THEN <<raw>> ELSE raw.value

(* " ".join and the like *)
Join(texts) == FlattenSeq(texts)

FirstOf(s, t) == IF s # <<>> THEN s ELSE t

Each(s, Op(_)) == [n \in DOMAIN s |-> Op(s[n])]

-----------------------------------------------------------------------------
(***************************************************************************)
(* The sections of an entry.                                               *)
(***************************************************************************)
ParseAddress(yul) ==
  LET node   == Node(yul, "SvAdresYuL")
      fias   == Node(node, "SvAdrYuLFIAS")
      street == Node(fias, "ElUlDorSeti")
      Building(b) == IF Attr(b, "Nomer") = <<>> THEN <<>>
                     ELSE Join(<<Attr(b, "Tip"), Attr(b, "Nomer")>>)
  IN [index    |-> FirstOf(Attr(fias, "Indeks"),
                           Attr(Node(node, "AdresRF"), "Indeks")),
      region   |-> TextOr(Get(fias, "NaimRegion", Null), <<>>),
      street   |-> IF Attr(street, "Naim") = <<>> THEN <<>>
                   ELSE Join(<<Attr(street, "Tip"), Attr(street, "Naim")>>),
      building |-> Join(Each(Items(fias, "Zdanie"), Building))]

PersonName(node) ==
  Join(<<Attr(node, "Familiya"), Attr(node, "Imya"), Attr(node, "Otchestvo")>>)

(* _ROLE_MAP *)
GeneralDirector == <<"general director", "of the company">>

RoleLabel(role) ==
  CASE role = <<"likvidator">> -> <<"liquidator", "of the company">>
    [] role \in {<<"direktor">>, <<"generalnyy">>,
                 <<"generalnyy", "direktor">>} -> GeneralDirector
    [] OTHER -> role

(* An empty node is no director, and neither is null. *)
ParseDirector(yul) ==
  LET node == Node(yul, "SvedDolzhnFL")
  IN IF ~IsObject(node) \/ node = NoFields THEN <<>>
     ELSE <<[name |-> PersonName(Node(node, "SvFL")),
             role |-> RoleLabel(Attr(Node(node, "SvDolzhn"), "NaimDolzhn"))]>>

Infinite(text) == text \in DOMAIN Decimal /\ ~Decimal[text].finite

(* Whole roubles: int() drops the kopecks.  A text that is no number is    *)
(* shown as it is.                                                         *)
Roubles(text) ==
  IF text \in DOMAIN Decimal THEN Decimal[text].whole \o <<"roubles">> ELSE text

CapitalText(yul) == AttrOr(Node(yul, "SvUstKap"), "SumKap", Zero)

ParseCapital(yul) == Roubles(CapitalText(yul))

(* A nominal value that is no number is zero; str(None) is None. *)
Founder(name, node) ==
  LET share == Node(node, "DolyaUstKap")
      size  == Node(share, "RazmerDoli")
      value == AttrOr(share, "NominStoim", Zero)
  IN [name    |-> name,
      nominal |-> Decimal[IF value \in DOMAIN Decimal THEN value ELSE Zero],
      percent |-> IF IsObject(size)
                  THEN TextOr(Get(size, "Protsent", Text(Zero)), <<"None">>)
                  ELSE Zero]

ParseFounders(yul) ==
  LET node == Node(yul, "SvUchredit")
      Person(f) == Founder(PersonName(Node(f, "SvFL")), f)
      Company(f) ==
        LET org == Node(f, "SvOrg")
        IN Founder(AttrOr(org, "NaimYuLPoln", Attr(org, "NaimYuLSokr")), f)
  IN Each(Items(node, "UchrFL"), Person) \o Each(Items(node, "UchrYuL"), Company)

Activity(node) == <<Attr(node, "KodOKVED"), Attr(node, "NaimOKVED")>>

(* Only an activity with a code is appended. *)
Coded(node) ==
  IF Attr(node, "KodOKVED") = <<>> THEN <<>> ELSE <<Activity(node)>>

ParseOkved(yul) ==
  LET node == Node(yul, "SvOKVED")
      main == Coded(Node(node, "SvOKVEDOsn"))
  IN [main |-> main,
      all  |-> main \o FlattenSeq(Each(Items(node, "SvOKVEDDop"), Coded))]

-----------------------------------------------------------------------------
(* parse_egrul_response *)
Parse(data) ==
  LET yul  == Node(data, "SvYuL")
      name == Node(yul, "SvNaimYuL")
      full == Attr(name, "NaimYuLPoln")
  IN [full_name          |-> full,
      short_name         |-> AttrOr(Node(name, "SvNaimYuLSokr"), "NaimSokr", full),
      registration_date  |-> Attr(yul, "DataOGRN"),
      authorized_capital |-> ParseCapital(yul),
      address            |-> ParseAddress(yul),
      director           |-> ParseDirector(yul),
      founders           |-> ParseFounders(yul),
      okved_main         |-> ParseOkved(yul).main,
      okved_list         |-> ParseOkved(yul).all]

(* A null at a node that may be repeated, a founder that is no object, or  *)
(* one whose share is none.                                                *)
BadFounders(node, key) ==
  \/ Node(node, key) = Null
  \/ \E n \in DOMAIN Items(node, key) :
       LET f == Items(node, key)[n]
       IN ~IsObject(f) \/ ~IsObject(Node(f, "DolyaUstKap"))

(* The parser raises where it calls .get on a null or on a list, iterates  *)
(* over a null, or takes the whole roubles of no finite number: it looks   *)
(* for a list only in the nodes of Items.                                  *)
Raises(data) ==
  LET yul       == Node(data, "SvYuL")
      fias      == Node(Node(yul, "SvAdresYuL"), "SvAdrYuLFIAS")
      directors == Node(yul, "SvedDolzhnFL")
  IN \/ ~IsObject(data) \/ ~IsObject(yul)
     \/ \E key \in {"SvNaimYuL", "SvAdresYuL", "SvUchredit", "SvOKVED"} :
          ~IsObject(Node(yul, key))
     \/ ~IsObject(fias) \/ Node(fias, "Zdanie") = Null
     \/ directors.type = "list" /\ directors.value # <<>>
     \/ Infinite(CapitalText(yul))
     \/ \E key \in {"UchrFL", "UchrYuL"} :
          BadFounders(Node(yul, "SvUchredit"), key)
     \/ Node(Node(yul, "SvOKVED"), "SvOKVEDDop") = Null

(* The name a row or a history record is given. *)
OrgName(org) == FirstOf(org.short_name, org.full_name)

-----------------------------------------------------------------------------
(* _build_context: what the document shows of the organisation. *)
Context(org) ==
  LET address == org.address
      Chief   == <<"chief accountant", "of the company">>
  IN [full_company_name  |-> org.full_name,
      short_company_name |-> org.short_name,
      legal_address      |-> Join(<<address.index, address.region,
                                    address.street, address.building>>),
      ceos               |->
        IF org.director = <<>> THEN <<>>
        ELSE LET d == org.director[1]
             IN IF d.role = GeneralDirector
                THEN <<<<d.role, d.name>>, <<Chief, d.name>>>>
                ELSE <<<<d.role, d.name>>>>,
      charter_capital    |-> org.authorized_capital,
      participants       |-> org.founders,
      registration_date  |-> org.registration_date,
      activities_list    |-> org.okved_list]
-----------------------------------------------------------------------------
(***************************************************************************)
(* An organisation as far as the parser reads of it (the registry's entry  *)
(* has more: founders of other kinds, for one), and the document the       *)
(* registry has of it: what is absent has no node, what is repeated is a   *)
(* list.                                                                   *)
(***************************************************************************)

AtMostOne(S) == {s \in Seq(S) : Len(s) <= 1}

FullName == [last : Words, first : Words, middle : Words]

Organisation ==
  [full_name  : Words,
   short_name : AtMostOne(Given),
   index      : Words,
   region     : Words,
   street     : AtMostOne([kind : Words, name : Given]),
   buildings  : Seq([kind : Words, number : Given]),
   directors  : Seq([name : FullName, role : Words]),
   people     : Seq([name : FullName, nominal : Words, percent : Words]),
   companies  : Seq([name : Words, nominal : Words, percent : Words]),
   main       : AtMostOne(Given \X Words),
   more       : Seq(Given \X Words),
   capital    : Words,
   date       : Words]

Fields(pairs) ==
  Object([key \in {p[1] : p \in pairs} |->
            (CHOOSE p \in pairs : p[1] = key)[2]])

Attributes(pairs) ==
  LET given == {p \in pairs : p[2] # <<>>}
  IN IF given = {} THEN {}
     ELSE {<<"@attributes", Fields({<<p[1], Text(p[2])>> : p \in given})>>}

Repeated(key, nodes) ==
  CASE Len(nodes) = 0 -> {}
    [] Len(nodes) = 1 -> {<<key, nodes[1]>>}
    [] OTHER -> {<<key, List(nodes)>>}

PersonNode(name) ==
  Fields(Attributes({<<"Familiya", name.last>>, <<"Imya", name.first>>,
                     <<"Otchestvo", name.middle>>}))

ShareNode(f) ==
  Fields(Attributes({<<"NominStoim", f.nominal>>}) \cup
         {<<"RazmerDoli", Fields({<<"Protsent", Text(f.percent)>>})>>})

PersonFounder(f) ==
  Fields({<<"SvFL", PersonNode(f.name)>>, <<"DolyaUstKap", ShareNode(f)>>})

CompanyFounder(f) ==
  Fields({<<"SvOrg", Fields(Attributes({<<"NaimYuLPoln", f.name>>}))>>,
          <<"DolyaUstKap", ShareNode(f)>>})

DirectorNode(d) ==
  Fields({<<"SvFL", PersonNode(d.name)>>,
          <<"SvDolzhn", Fields(Attributes({<<"NaimDolzhn", d.role>>}))>>})

ActivityNode(a) ==
  Fields(Attributes({<<"KodOKVED", a[1]>>, <<"NaimOKVED", a[2]>>}))

StreetNode(s) ==
  Fields(Attributes({<<"Tip", s.kind>>, <<"Naim", s.name>>}))

ShortNameNode(name) == Fields(Attributes({<<"NaimSokr", name>>}))

BuildingNode(b) ==
  Fields(Attributes({<<"Tip", b.kind>>, <<"Nomer", b.number>>}))

AddressNode(o) ==
  Fields({<<"SvAdrYuLFIAS",
            Fields(Attributes({<<"Indeks", o.index>>})
                   \cup {<<"NaimRegion", Text(o.region)>>}
                   \cup Repeated("ElUlDorSeti", Each(o.street, StreetNode))
                   \cup Repeated("Zdanie", Each(o.buildings, BuildingNode)))>>})

NameNode(o) ==
  Fields(Attributes({<<"NaimYuLPoln", o.full_name>>})
         \cup Repeated("SvNaimYuLSokr", Each(o.short_name, ShortNameNode)))

FoundersNode(o) ==
  Fields(Repeated("UchrFL", Each(o.people, PersonFounder))
         \cup Repeated("UchrYuL", Each(o.companies, CompanyFounder)))

OkvedNode(o) ==
  Fields(Repeated("SvOKVEDOsn", Each(o.main, ActivityNode))
         \cup Repeated("SvOKVEDDop", Each(o.more, ActivityNode)))

CapitalNode(o) == Fields(Attributes({<<"SumKap", o.capital>>}))

Entry(o) ==
  Attributes({<<"DataOGRN", o.date>>})
  \cup {<<"SvNaimYuL", NameNode(o)>>, <<"SvAdresYuL", AddressNode(o)>>,
        <<"SvUchredit", FoundersNode(o)>>, <<"SvOKVED", OkvedNode(o)>>,
        <<"SvUstKap", CapitalNode(o)>>}
  \cup Repeated("SvedDolzhnFL", Each(o.directors, DirectorNode))

Document(o) == Fields({<<"SvYuL", Fields(Entry(o))>>})

-----------------------------------------------------------------------------
NameOf(person) == Join(<<person.last, person.first, person.middle>>)

(* What the document should say of an organisation: the capital in whole   *)
(* roubles, the nominal value of a founder with its kopecks; of an amount  *)
(* that is no number, the text and zero.                                   *)
Amount(text) ==
  IF text \in DOMAIN Decimal THEN Decimal[text] ELSE Decimal[Zero]

Capital(text) ==
  IF text \in DOMAIN Decimal THEN Amount(text).whole \o <<"roubles">> ELSE text

Described(o) ==
  LET Share(name, f) == [name |-> name, percent |-> f.percent,
                         nominal |-> Amount(FirstOf(f.nominal, Zero))]
      Person(f)   == Share(NameOf(f.name), f)
      Company(f)  == Share(f.name, f)
      Street(s)   == Join(<<s.kind, s.name>>)
      Building(b) == Join(<<b.kind, b.number>>)
      Lines(d) ==
        <<<<RoleLabel(d.role), NameOf(d.name)>>>> \o
        IF RoleLabel(d.role) = GeneralDirector
        THEN <<<<<<"chief accountant", "of the company">>, NameOf(d.name)>>>>
        ELSE <<>>
  IN [full_company_name  |-> o.full_name,
      short_company_name |-> (o.short_name \o <<o.full_name>>)[1],
      legal_address      |-> o.index \o o.region \o Join(Each(o.street, Street))
                             \o Join(Each(o.buildings, Building)),
      ceos               |-> FlattenSeq(Each(o.directors, Lines)),
      charter_capital    |-> Capital(FirstOf(o.capital, Zero)),
      participants       |-> Each(o.people, Person) \o Each(o.companies, Company),
      registration_date  |-> o.date,
      activities_list    |-> o.main \o o.more]
=============================================================================
