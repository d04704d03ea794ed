----------------------------- MODULE TedSuppliers -----------------------------
(***************************************************************************)
(* Who a TED notice's contract event names: the name and identifier rules  *)
(* of the cleaning stage (src/src/etl/cleaning/rules/names.py,             *)
(* identifiers.py), the matcher that gives a supplier its company          *)
(* (ted_matcher.py), and the parties that load_ted_contracts.py builds.    *)
(* One run of the loader goes through several notices with one matcher.    *)
(***************************************************************************)
EXTENDS Integers, Sequences, FiniteSets, SequencesExt, FiniteSetsExt

CONSTANTS
  Organisation,  \* what notices publish of organisations, as records (below)
  Vat,           \* VAT numbers
  NoVat,         \* no usable VAT number
  Company,       \* companies that the graph holds
  NoCompany,     \* no company
  NoName,        \* the name of an organisation published without one
  MaxNotices,    \* bound: notices of a run
  MaxAwards      \* bound: awards of a notice

\* name; signals: what the name rules look for in it; legalForm: a legal form
\* vouches for it; phrase: four words or more; vat: the organisation's number;
\* written: how the notice gives it - canonical, without the country's prefix,
\* or under another scheme, for another country, mistyped or not at all.
Signal == {"italian", "multiple", "several", "annex", "na", "scheme", "domain",
           "placeholder"}
OrganisationFacts(Name) ==
  [name : Name, signals : SUBSET Signal, legalForm : BOOLEAN, phrase : BOOLEAN,
   vat : Vat \union {NoVat}, written : {"vat", "bare", "unusable"}]

ASSUME SuppliersAssumption ==
  /\ NoVat \notin Vat
  /\ Organisation \subseteq OrganisationFacts({o.name : o \in Organisation})
  /\ \A o \in Organisation :
       /\ o.vat = NoVat => o.written = "unusable"
       /\ o.name = NoName => o.signals = {} /\ ~o.legalForm
  /\ MaxNotices \in Nat /\ MaxAwards \in Nat

VARIABLES
  awards,    \* the notice in hand: its awards that name a contractor
  resolved,  \* resolved[i]: the company of award i; its domain: those resolved so far
  cache,     \* the matcher's _vat_cache
  announced, \* seen_companies
  contract,  \* the contract event of the notice just emitted
  notices,   \* notices so far
  idsOf      \* history: the companies a VAT number was resolved to

supplierVars ==
  <<awards, resolved, cache, announced, contract, notices, idsOf>>

----------------------------------------------------------------------------
(* The name rules, most specific first.                                    *)

NameRules == <<"italian", "multiple", "several", "annex", "na", "url", "placeholder">>

\* A legal form vouches for a name with a remark, or with a bare domain, not
\* for one with the scheme of a URL.
Hits(rule, o) ==
  CASE rule \in {"several", "annex", "na"} -> rule \in o.signals /\ ~o.legalForm
    [] rule = "url" -> \/ "scheme" \in o.signals
                       \/ "domain" \in o.signals /\ o.phrase /\ ~o.legalForm
    [] OTHER -> rule \in o.signals

Withheld(o) == \E i \in DOMAIN NameRules : Hits(NameRules[i], o)

\* run_stage: the first rule is the reason.
Reason(o) == SelectInSeq(NameRules, LAMBDA rule : Hits(rule, o))

BaseIdentifier(o) == IF o.written = "vat" THEN o.vat ELSE NoVat
PrefixedIdentifier(o) == IF o.written = "unusable" THEN NoVat ELSE o.vat
Identifier(o) ==
  IF BaseIdentifier(o) # NoVat THEN BaseIdentifier(o) ELSE PrefixedIdentifier(o)

----------------------------------------------------------------------------
(* TedMatcher.match_company.                                               *)

\* gmr_id.from_vat, from_name.  (Every number is published with one country.)
FromVat(v) == [by |-> "vat", of |-> v]
FromName(o) == [by |-> "name", of |-> o.name]
GmrId == {[by |-> "graph", of |-> c] : c \in Company}
           \union {FromVat(v) : v \in Vat} \union {FromName(o) : o \in Organisation}
ASSUME NoCompanyAssumption == NoCompany \notin GmrId

\* What /resolve may answer: a match, candidates of which the first is
\* confident and the second, if any, is or is not, or nothing of use.
Matched == {[hint |-> "matched", company |-> c, rival |-> FALSE] : c \in Company}
            \union {[hint |-> "ambiguous", company |-> c, rival |-> r] :
                      c \in Company, r \in BOOLEAN}
            \union {[hint |-> "none", company |-> NoCompany, rival |-> FALSE]}

Accepted(a) == a.hint = "matched" \/ (a.hint = "ambiguous" /\ ~a.rival)

Match(o, a) ==
  LET v == Identifier(o) IN
  IF v # NoVat /\ v \in DOMAIN cache THEN cache[v]
  ELSE IF Accepted(a) THEN [by |-> "graph", of |-> a.company]
  ELSE IF v # NoVat THEN FromVat(v) ELSE FromName(o)

\* Mutant: a fuzzy match is not remembered.
Remembered_ExactOnly(o, id, a) ==
  LET v == Identifier(o) IN
  IF v = NoVat \/ v \in DOMAIN cache \/ a.hint = "ambiguous" THEN cache
  ELSE [w \in DOMAIN cache \union {v} |-> IF w = v THEN id ELSE cache[w]]

Remembered(o, id, a) ==
  LET v == Identifier(o) IN
  IF v = NoVat \/ v \in DOMAIN cache THEN cache
  ELSE [w \in DOMAIN cache \union {v} |-> IF w = v THEN id ELSE cache[w]]

----------------------------------------------------------------------------
(* _emit_notice.                                                           *)

NoContract == [parties |-> {}, withheld |-> {}, primary |-> NoCompany, of |-> <<>>]

SuppliersInit ==
  /\ awards = <<>> /\ resolved = <<>>
  /\ \E known \in SUBSET Vat :
       cache \in [known -> {[by |-> "graph", of |-> c] : c \in Company}]
  /\ announced = {}
  /\ contract = NoContract
  /\ notices = 0
  /\ idsOf = [v \in Vat |-> IF v \in DOMAIN cache THEN {cache[v]} ELSE {}]

Usable(s) == {i \in DOMAIN s : ~Withheld(s[i].org)}

\* _candidate_suppliers: winners and named tenderers.
TakeNotice ==
  /\ awards = <<>> /\ notices < MaxNotices
  /\ \E n \in 1..MaxAwards :
       awards' \in [1..n -> [org : Organisation, winner : BOOLEAN]]
  /\ notices' = notices + 1 /\ contract' = NoContract
  /\ UNCHANGED <<resolved, cache, announced, idsOf>>

\* _resolve_suppliers: the next candidate that the name rules let through.
ToResolve == Usable(awards) \ DOMAIN resolved
ResolveNext ==
  /\ ToResolve # {}
  /\ \E a \in Matched :
       LET i == Min(ToResolve)
           org == awards[i].org
           id == Match(org, a)
           v == Identifier(org)
       IN /\ cache' = Remembered(org, id, a)
          /\ announced' = announced \union {id}
          /\ resolved' = [k \in DOMAIN resolved \union {i} |-> IF k = i THEN id ELSE resolved[k]]
          /\ idsOf' = IF v = NoVat THEN idsOf
                      ELSE [idsOf EXCEPT ![v] = @ \union {id}]
  /\ UNCHANGED <<awards, contract, notices>>

Role(award) == IF award.winner THEN "winner" ELSE "named_tenderer"

Primary ==
  LET winners == {i \in DOMAIN resolved : awards[i].winner} IN
  IF winners = {} THEN NoCompany ELSE resolved[Min(winners)]

\* _build_parties, _withheld_payload; supplier_count.
EmitContract ==
  /\ awards # <<>> /\ ToResolve = {}
  /\ LET each == ToSet(awards)
         out == {a.org : a \in {b \in each : Withheld(b.org)}}
     IN contract' =
          [parties |-> {[id |-> resolved[i], role |-> Role(awards[i])] :
                          i \in {k \in DOMAIN resolved : awards[k].org.name # NoName}},
           withheld |-> {[org |-> o, reason |-> Reason(o),
                          winner |-> \E a \in each : a.org = o /\ a.winner] : o \in out},
           primary |-> Primary,
           of |-> awards]
  /\ awards' = <<>> /\ resolved' = <<>>
  /\ UNCHANGED <<cache, announced, notices, idsOf>>

SuppliersNext == TakeNotice \/ ResolveNext \/ EmitContract
SuppliersSpec == SuppliersInit /\ [][SuppliersNext]_supplierVars

----------------------------------------------------------------------------
(* Properties.                                                             *)

\* Every award whose contractor is named is accounted for: by a company in the
\* award's role, or by the withheld text, and then no legal form vouches for the
\* name unless it is one no company writes. The contract names no company that
\* was not announced, and is attributed to a winner or to nobody.
Accounted ==
  LET each == ToSet(contract.of)
      out == {w.org : w \in contract.withheld}
      ids == {p.id : p \in contract.parties} \union ({contract.primary} \ {NoCompany})
  IN /\ \A a \in each :
          IF a.org \in out
            THEN a.org.legalForm =>
                   a.org.signals \intersect
                     {"scheme", "italian", "multiple", "placeholder"} # {}
            ELSE a.org.name # NoName =>
                   \E p \in contract.parties : p.role = Role(a)
     /\ ids \subseteq announced
     /\ (contract.primary # NoCompany) = (\E a \in each : a.winner /\ a.org \notin out)

\* A VAT number stands for one company throughout a run, whichever of its
\* spellings a notice uses and whatever /resolve answers in the meantime.
OneIdPerVat == \A v \in Vat : Cardinality(idsOf[v]) <= 1

\* No award loses its company, and no company becomes two in one run.
AwardsAreAttributed == Accounted /\ OneIdPerVat
=============================================================================
