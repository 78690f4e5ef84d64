------------------------------- MODULE MCLookup -------------------------------
(* Values for model-checking Lookup. *)
EXTENDS Lookup

CONSTANTS p1, p3

Person(middle) == [last |-> <<"Ivanov">>, first |-> <<"Ivan">>, middle |-> middle]

PersonShare(nominal) ==
  [name |-> Person(<<>>), nominal |-> nominal, percent |-> <<"50">>]

CompanyShare == [name |-> <<"Trust">>, nominal |-> <<"100">>, percent |-> <<"50">>]

Director(role) == [name |-> Person(<<"Ivanovich">>), role |-> role]

Building(number) == [kind |-> <<"d">>, number |-> number]

Org(full) ==
  [full_name |-> full, short_name |-> <<<<"Romashka">>>>,
   index |-> <<"125009">>, region |-> <<"Moskva">>,
   street |-> <<[kind |-> <<"ul">>, name |-> <<"Tverskaya">>]>>,
   buildings |-> <<Building(<<"1">>)>>,
   directors |-> <<Director(<<"direktor">>)>>,
   people |-> <<PersonShare(<<"100">>)>>, companies |-> <<>>,
   main |-> <<<<<<"62.01">>, <<"software">>>>>>, more |-> <<>>,
   capital |-> <<"10000">>, date |-> <<"01.01.2010">>]

Romashka == Org(<<"Obshchestvo", "Romashka">>)

(* An organisation with a name that does not fit and no short one, and one *)
(* with two directors, which the parser refuses.                           *)
LongOrg == [Org(<<"a", "very", "long", "name">>) EXCEPT !.short_name = <<>>]
TwoDirectors ==
  [Romashka EXCEPT !.directors = <<Director(<<"direktor">>), Director(<<>>)>>]

MCOrgs == <<Romashka, LongOrg, TwoDirectors>>

UpTo2(a, b) == {<<>>, <<a>>, <<a, b>>}

(* Amounts: whole roubles, with kopecks, no finite number; "n/a" is none. *)
MCDecimal ==
  LET Finite(whole, fraction) ==
        [finite |-> TRUE, whole |-> whole, fraction |-> fraction]
  IN (<<"0">> :> Finite(<<"0">>, <<>>)) @@
     (<<"100">> :> Finite(<<"100">>, <<>>)) @@
     (<<"100", "25">> :> Finite(<<"100">>, <<"25">>)) @@
     (<<"10000">> :> Finite(<<"10000">>, <<>>)) @@
     (<<"10000", "50">> :> Finite(<<"10000">>, <<"50">>)) @@
     (<<"NaN">> :> [finite |-> FALSE, whole |-> <<>>, fraction |-> <<>>])

(* None, one or several of everything that repeats or may be missing; what *)
(* ends up in the same part of the document is varied together.            *)
MCAllOrgs ==
  {[Romashka EXCEPT !.people = p, !.companies = c] :
     p \in UpTo2(PersonShare(<<"100">>), PersonShare(<<>>)),
     c \in UpTo2(CompanyShare, CompanyShare)} \cup
  {[Romashka EXCEPT !.people = <<PersonShare(n)>>, !.capital = c] :
     n \in {<<"100", "25">>, <<"n/a">>, <<"NaN">>},
     c \in {<<"10000", "50">>, <<"n/a">>, <<"NaN">>}} \cup
  {[Romashka EXCEPT !.street = s, !.buildings = b, !.index = <<>>] :
     s \in {<<>>, Romashka.street},
     b \in UpTo2(Building(<<"1">>), Building(<<"2">>))} \cup
  {[Romashka EXCEPT !.main = m, !.more = n] :
     m \in {<<>>, Romashka.main},
     n \in UpTo2(<<<<"63.11">>, <<"data">>>>, <<<<"70.22">>, <<"advice">>>>)} \cup
  {[Romashka EXCEPT !.directors = d, !.short_name = <<>>, !.capital = <<>>] :
     d \in {<<>>, <<Director(<<"likvidator">>)>>, <<Director(<<"direktor">>)>>}}

MCLongNames == {LongOrg.full_name}

MCPages == {<<0, 1>>, <<1, 2>>}

MCOnePage == {<<0, 1>>}

MCEveryOrg ==
  FoldSet(LAMBDA o, orgs : Append(orgs, o), MCOrgs, MCAllOrgs)

(* The history and the pool tell apart only what becomes of a document: an *)
(* organisation after those of MCOrgs is looked up when nothing else has   *)
(* happened.                                                               *)
RareAlone ==
  \A p \in Procs : look[p].org \notin {None} \cup DOMAIN MCOrgs =>
    history = {} /\ \A q \in Procs \ {p} : look[q] = Idle

(* Bound: what p1, p2 and p3 do is look up as a user who is no             *)
(* administrator; look up and list; and hold a connection for a while.     *)
Roles ==
  /\ look[p1].page = None /\ look[p1].user \notin Admins
  /\ look[p3].pc \in {"idle", "other", "answer"}
  /\ \A p \in Procs \ {p3} : look[p].pc # "other"

(* Bound: the clock. *)
Soon == \A r \in Begun : r.created_at <= MaxHistory + 1

Bounded == RareAlone /\ Roles /\ Soon
=============================================================================
