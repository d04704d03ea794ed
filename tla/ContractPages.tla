----------------------------- MODULE ContractPages -----------------------------
(***************************************************************************)
(* The contract pages of the public API                                    *)
(* (src/src/api/routers/contracts.py over                                  *)
(* src/src/data/graph/graph_contract_source.py): the contracts of a        *)
(* company or a buyer, the page of one contract, its link to TED, the      *)
(* grants of a company and the search.  An answer is put together from     *)
(* several statements, each with a snapshot of its own, while the sink     *)
(* writes notices, merges, listings, grants and translations.  What the    *)
(* graph holds only grows; of the notices of a contract the newest gives   *)
(* the contract its properties and its notice id.                          *)
(***************************************************************************)
EXTENDS Integers, Sequences, FiniteSets, SequencesExt, FiniteSetsExt, OrderedRows

CONSTANTS
  GraphFact,       \* what the sink can write:
                   \*   [kind |-> "notice", id, contract, date, worth, doubtful, framework,
                   \*    buyers, winners, withheld, rules, number] (id: newer is greater; date
                   \*    and worth: 0 is missing; withheld and rules: the names refused, and
                   \*    why; number: whether it states its publication number)
                   \*   [kind |-> "merge", pair]      two records are one company, or one buyer
                   \*   [kind |-> "listing", company, ticker]
                   \*   [kind |-> "grant", company, project]
                   \*   [kind |-> "title", contract]  a translation of the contract's title
  PageCompany, Buyer,  \* numbers, in the order of the names
  CompanyName,     \* a company's name, a sequence of characters
  Unnamed,         \* the names that say that there is none ("nan", ...)
  Separator,       \* the characters that the index's analyzer splits at
  ListQuery,       \* the lists asked for: [side, of, sort, limit] (side: "company",
                   \*   "buyer", or "grants" of a company)
  SearchFor,       \* the searches: [q, limit]
  NoKey,           \* no framework
  PublicationForm, \* the frameworks whose key is a publication number
  SiblingLimit,    \* FRAMEWORK_SIBLING_LIMIT
  LinkQuery,       \* the notices whose page at TED is asked for
  LookupCache      \* _CACHE_SIZE

\* A notice without a buyer is not loaded; the company asked for is in the path.
ASSUME PagesAssumption ==
  /\ IsFiniteSet(GraphFact) /\ IsFiniteSet(PageCompany) /\ IsFiniteSet(Buyer)
  /\ PageCompany \union Buyer \subseteq Nat \ {0}
  /\ \A f \in GraphFact :
       /\ f.kind = "notice" =>
            /\ f.id \in Nat /\ f.date \in Nat /\ f.worth \in Nat /\ f.doubtful \in BOOLEAN
            /\ f.buyers \subseteq Buyer /\ f.buyers # {} /\ f.winners \subseteq PageCompany
       /\ f.kind = "merge" => f.pair \subseteq PageCompany \union Buyer
       /\ f.kind = "listing" => f.company \in PageCompany
       /\ f.kind = "grant" => f.company \in PageCompany /\ f.project \in Nat
  /\ \A f, g \in GraphFact :
       f.kind = "notice" /\ g.kind = "notice" /\ f.id = g.id => f = g
  /\ CompanyName \in [PageCompany -> Seq(STRING)]
  /\ ListQuery \subseteq [side : {"company", "buyer", "grants"}, of : PageCompany \union Buyer,
                        sort : {"recent", "oldest", "value_desc", "value_asc"}, limit : Nat]
  /\ \A text \in SearchFor : text.limit \in Nat
  /\ SiblingLimit \in Nat /\ LookupCache \in Nat \ {0}

VARIABLES
  written,       \* the facts in the graph
  lookups,     \* the LRU cache of resolve_publication_number: notice ids, latest first
  view         \* the request

pageVars == <<written, lookups, view>>

----------------------------------------------------------------------------
(* The graph.                                                              *)

FactsOf(kind) == {f \in written : f.kind = kind}
NoticeIds == {f.id : f \in {g \in GraphFact : g.kind = "notice"}}
PageContracts == {n.contract : n \in FactsOf("notice")}
Chain(k) == {n \in FactsOf("notice") : n.contract = k}

\* The properties of the contract are those of its newest notice; the edges of
\* every notice stay.
Current(k) == CHOOSE n \in Chain(k) : \A m \in Chain(k) : m.id <= n.id
BuyersOf(k) == UNION {n.buyers : n \in Chain(k)}
WinnersOf(k) == UNION {n.winners : n \in Chain(k)}

Beside(S) == S \union UNION {f.pair : f \in {g \in FactsOf("merge") : g.pair \cap S # {}}}

\* Mutant: the records merged with this one, and not those merged with them.
IdentityClass_OneStep(x) == Beside({x})

\* identity_class: reachability over SAME_AS.
IdentityClass(x) ==
  LET reached[i \in 0..Cardinality(GraphFact)] ==
        IF i = 0 THEN {x} ELSE Beside(reached[i - 1])
  IN  reached[Cardinality(GraphFact)]

\* A flagged value stays on the page and out of the totals.
Trusted(k) == IF Current(k).doubtful THEN 0 ELSE Current(k).worth
MoneyOf(K) == MapThenSumSet(Trusted, K)

----------------------------------------------------------------------------
(* Lists: the rows by one statement, the totals by the next.               *)

Absent(x) == IF x = 0 THEN 1 ELSE 0

\* A missing value comes first where a clause sorts it downwards (the date in the
\* orders by value), which Cypher does unless IS NULL is sorted before it.
OrderKey(sort, r) ==
  CASE sort = "recent"     -> <<Absent(r.date), -r.date, r.id>>
    [] sort = "oldest"     -> <<Absent(r.date), r.date, r.id>>
    [] sort = "value_desc" -> <<Absent(r.worth), -r.worth, 1 - Absent(r.date), -r.date, r.id>>
    [] sort = "value_asc"  -> <<Absent(r.worth), r.worth, 1 - Absent(r.date), -r.date, r.id>>

Nobody == 0
FirstNamed(S) == IF S = {} THEN Nobody ELSE Min(S)
ListRow(k, others) ==
  [id |-> Current(k).id, date |-> Current(k).date, worth |-> Current(k).worth,
   other |-> FirstNamed(others), others |-> Cardinality(others),
   doubtful |-> Current(k).doubtful, withheld |-> Len(Current(k).withheld)]

\* A company's contracts need a buyer, a buyer's no supplier.
CompanyContracts(c) ==
  {k \in PageContracts : WinnersOf(k) \cap IdentityClass(c) # {} /\ BuyersOf(k) # {}}
CompanyTotals(c) == {k \in PageContracts : WinnersOf(k) \cap IdentityClass(c) # {}}
BuyerContracts(a) == {k \in PageContracts : BuyersOf(k) \cap IdentityClass(a) # {}}
ContractsOf(side, x) == IF side = "company" THEN CompanyContracts(x) ELSE BuyerContracts(x)
ToTotal(side, x) == IF side = "company" THEN CompanyTotals(x) ELSE BuyerContracts(x)

\* FILED_BY of this record alone.
GrantsOf(c) == {f.project : f \in {g \in FactsOf("grant") : g.company = c}}

InGraph(side, x) ==
  IF side = "buyer" THEN \E n \in FactsOf("notice") : x \in n.buyers
  ELSE (\E n \in FactsOf("notice") : x \in n.winners)
       \/ \E f \in FactsOf("listing") \union FactsOf("grant") : f.company = x

\* calm: nothing was written since the request began; the other fields are those of
\* the answer so far.
Idle == [pc |-> "idle"]
Request(pc, fields) == With(fields, [pc |-> pc, calm |-> TRUE])
Answered(fields) == view' = With(fields, [view EXCEPT !.pc = "answered"])
Then(pc, fields) == view' = With(fields, [view EXCEPT !.pc = pc])

AskList(list) ==
  /\ view = Idle
  /\ view' = IF InGraph(list.side, list.of) THEN Request("rows", list)
             ELSE Request("answered", With([rows |-> <<>>, count |-> 0, money |-> 0], list))
  /\ UNCHANGED <<written, lookups>>

\* The rows, with the buyers of a company's contracts or the suppliers of a buyer's.
ListedRows(list) ==
  {ListRow(k, IF list.side = "company" THEN BuyersOf(k) ELSE WinnersOf(k)) :
     k \in ContractsOf(list.side, list.of)}
ListKeys(list) ==
  IF list.side = "grants" THEN [g \in GrantsOf(list.of) |-> <<-g>>]
  ELSE [r \in ListedRows(list) |-> OrderKey(list.sort, r)]

ListRows ==
  /\ view.pc = "rows"
  /\ Then("totals", [rows |-> Top(ListKeys(view), view.limit)])
  /\ UNCHANGED <<written, lookups>>

ListTotals ==
  /\ view.pc = "totals"
  /\ IF view.side = "grants"
     THEN Answered([count |-> Cardinality(GrantsOf(view.of)), money |-> 0])
     ELSE LET K == ToTotal(view.side, view.of)
          IN  Answered([count |-> Cardinality(K), money |-> MoneyOf(K)])
  /\ UNCHANGED <<written, lookups>>

----------------------------------------------------------------------------
(* One contract.                                                           *)

\* By the id of any of its notices.
NoticeOf(id) == {k \in PageContracts : \E n \in Chain(k) : n.id = id}

\* The names that the cleaning stage refused, each with its rule: the lists are
\* parallel, and one that fell short leaves a reason out.
WithheldSuppliers(names, reasons) ==
  LET reason(i) == IF i <= Len(reasons) THEN reasons[i] ELSE ""
  IN  SelectSeq([i \in 1..Len(names) |-> [name |-> names[i], reason |-> reason(i)]],
                LAMBDA w : w.name # "")

\* TED has a page for a key in the form of a publication number.
FrameworkLink(f) == f \in PublicationForm

\* The first statement: the contract, one of its buyers and one of its winners.
AskDetail(id) ==
  /\ view = Idle
  /\ UNCHANGED <<written, lookups>>
  /\ \/ /\ ~ \E k \in NoticeOf(id) : BuyersOf(k) # {}
        /\ view' = Request("answered", [notice |-> id, found |-> FALSE])
     \/ \E k \in NoticeOf(id), a \in Buyer, c \in PageCompany \union {Nobody} :
          LET own == Current(k)
              detail == [notice |-> id, found |-> TRUE, contract |-> k, own |-> own.id,
                         worth |-> own.worth, buyer |-> a, winner |-> c,
                         framework |-> own.framework,
                         undisclosed |-> c = Nobody
                         /\ WithheldSuppliers(own.withheld, own.rules) # <<>>]
          IN  /\ a \in BuyersOf(k)
              /\ IF WinnersOf(k) = {} THEN c = Nobody ELSE c \in WinnersOf(k)
              /\ view' = IF own.framework = NoKey
                         THEN Request("answered", With([siblings |-> <<>>, count |-> 0,
                                                        linked |-> FALSE], detail))
                         ELSE Request("siblings", detail)

\* _framework_siblings: the others with the key, told apart by the id that the
\* contract had in the first statement.
SiblingsOf == {k \in PageContracts : /\ Current(k).framework = view.framework
                                     /\ Current(k).id # view.own}

FrameworkSiblings ==
  /\ view.pc = "siblings"
  /\ LET rows == {[id |-> Current(k).id, date |-> Current(k).date, contract |-> k,
                   supplier |-> FirstNamed(WinnersOf(k))] : k \in SiblingsOf}
     IN  Then("siblingCount", [siblings |->
           Top([r \in rows |-> OrderKey("recent", r)], SiblingLimit)])
  /\ UNCHANGED <<written, lookups>>

SiblingCount ==
  /\ view.pc = "siblingCount"
  /\ Answered([count |-> Cardinality(SiblingsOf), linked |-> FrameworkLink(view.framework)])
  /\ UNCHANGED <<written, lookups>>

\* Titles in another language, by the ids of notices: a contract without a
\* translation is left out.
Translated(id) == \E k \in NoticeOf(id), f \in FactsOf("title") : f.contract = k
AskTitles(ids) ==
  /\ view = Idle
  /\ view' = Request("answered", [ids |-> ids, titled |-> {id \in ids : Translated(id)}])
  /\ UNCHANGED <<written, lookups>>

----------------------------------------------------------------------------
(* The link to TED.                                                        *)

\* get_stored_publication_number: of the contract whose current notice it is.  A
\* number stands for the notice whose page it opens.
StoredNumber(id) ==
  {Current(k).id : k \in {c \in PageContracts : Current(c).id = id /\ Current(c).number}}

AskLink(id) ==
  /\ view = Idle
  /\ \/ \E number \in StoredNumber(id) :
          view' = Request("answered", [link |-> id, status |-> 302, number |-> number])
     \/ StoredNumber(id) = {} /\ view' = Request("lookup", [link |-> id])
  /\ UNCHANGED <<written, lookups>>

\* lru_cache keeps the answers, and no exception.
Touched(id) == LET others == SelectSeq(lookups, LAMBDA x : x # id)
               IN  SubSeq(<<id>> \o others, 1, Min({LookupCache, Len(others) + 1}))

\* What is not in the cache is asked of TED, which has it, or does not, or fails.
LookUp ==
  /\ view.pc = "lookup"
  /\ \/ /\ lookups' = Touched(view.link)
        /\ Answered([status |-> 302, number |-> view.link])
     \/ /\ view.link \notin ToSet(lookups)
        /\ \E status \in {404, 502} : Answered([status |-> status])
        /\ UNCHANGED lookups
  /\ UNCHANGED written

----------------------------------------------------------------------------
(* The search.                                                             *)

SplitUp(text) ==
  SelectSeq(FoldLeft(LAMBDA ws, ch : IF ch \in Separator THEN Append(ws, <<>>)
                                     ELSE [ws EXCEPT ![Len(ws)] = Append(@, ch)],
                     <<<<>>>>, text),
            LAMBDA w : w # <<>>)
Within(q, text) == \E i \in 1..(Len(text) + 1) : IsPrefix(q, SubSeq(text, i, Len(text)))

\* _fulltext_query against the index: every token but the last is a token of the
\* name, and the last begins one.  A search without a token finds nothing.
FulltextHit(c, q) ==
  LET tokens == SplitUp(q)
      name == ToSet(SplitUp(CompanyName[c]))
  IN  /\ tokens # <<>>
      /\ \A i \in 1..(Len(tokens) - 1) : tokens[i] \in name
      /\ \E w \in name : IsPrefix(tokens[Len(tokens)], w)

NameRank(c, q) == CASE CompanyName[c] = q -> 4
                    [] CompanyName[c] # q /\ IsPrefix(q, CompanyName[c]) -> 2
                    [] OTHER -> 0
ListingRank(c, t, q) ==
  Max({NameRank(c, q), IF t = q THEN 3 ELSE IF IsPrefix(q, t) THEN 1 ELSE 0})
HitKey(hit) == <<-hit.rank, Len(CompanyName[hit.company]), hit.company>>
TopHits(hits, limit) == Top([h \in hits |-> HitKey(h)], limit)
HitBy(hits) == {h.company : h \in ToSet(hits)}

\* The listed companies: by ticker, or by name.
ListedHits(q) ==
  LET by(c) == {f.ticker : f \in {g \in FactsOf("listing") :
                   g.company = c /\ (IsPrefix(q, g.ticker) \/ Within(q, CompanyName[c]))}}
  IN  {[company |-> c, rank |-> Max({ListingRank(c, t, q) : t \in by(c)})] :
         c \in {d \in PageCompany : by(d) # {}}}
ByText(q, seen, S) ==
  {[company |-> c, rank |-> NameRank(c, q)] :
     c \in {d \in S \ seen : FulltextHit(d, q) /\ Within(q, CompanyName[d])}}
Suppliers == UNION {WinnersOf(k) : k \in PageContracts}
Beneficiaries == {c \in PageCompany : GrantsOf(c) # {} /\ CompanyName[c] \notin Unnamed}

\* Ghost: those whom the search would find at its beginning.
ToFind(q) == {h.company : h \in ListedHits(q)}
             \union {h.company : h \in ByText(q, {}, Suppliers \union Beneficiaries)}

AskSearch(q, limit) ==
  /\ view = Idle
  /\ view' = Request("suppliers", [query |-> q, limit |-> limit, sure |-> ToFind(q),
                                   hits |-> TopHits(ListedHits(q), limit)])
  /\ UNCHANGED <<written, lookups>>

\* The companies that earlier statements found are not asked for again.
Seen == HitBy(view.hits)

SearchSuppliers ==
  /\ view.pc = "suppliers"
  /\ Then("grantees", [hits |-> view.hits \o
       TopHits(ByText(view.query, Seen, Suppliers), view.limit - Len(view.hits))])
  /\ UNCHANGED <<written, lookups>>

SearchGrantees ==
  /\ view.pc = "grantees"
  /\ Answered([hits |-> view.hits \o
       TopHits(ByText(view.query, Seen, Beneficiaries), view.limit - Len(view.hits))])
  /\ UNCHANGED <<written, lookups>>

----------------------------------------------------------------------------
(* What goes on meanwhile.                                                 *)

\* The sink, the consolidator and the translator.  Nothing waits for an answer, so
\* nothing is lost if it is read before the next write.
Write(f) ==
  /\ view.pc # "answered" /\ f \notin written
  /\ written' = written \union {f}
  /\ view' = IF view = Idle THEN Idle ELSE [view EXCEPT !.calm = FALSE]
  /\ UNCHANGED lookups

Read ==
  /\ view.pc = "answered"
  /\ view' = Idle
  /\ UNCHANGED <<written, lookups>>

PagesInit == written = {} /\ lookups = <<>> /\ view = Idle

PagesNext ==
  \/ \E f \in GraphFact : Write(f)
  \/ \E id \in NoticeIds : AskDetail(id)
  \/ \E id \in LinkQuery : AskLink(id)
  \/ \E list \in ListQuery : AskList(list)
  \/ ListRows \/ ListTotals \/ FrameworkSiblings \/ SiblingCount \/ LookUp
  \/ AskTitles(NoticeIds)
  \/ \E text \in SearchFor : AskSearch(text.q, text.limit)
  \/ SearchSuppliers \/ SearchGrantees \/ Read

PagesSpec == PagesInit /\ [][PagesNext]_pageVars

----------------------------------------------------------------------------
(* Properties.                                                             *)

Answers(field) == view.pc = "answered" /\ field \in DOMAIN view

\* Two records are one if every set of records that is closed under the merges and
\* holds one of them holds the other.
OneEntity(x, y) ==
  \A S \in SUBSET (PageCompany \union Buyer) :
    x \in S /\ (\A f \in FactsOf("merge") : f.pair \cap S # {} => f.pair \subseteq S) => y \in S
HeldBy(side, x) ==
  {k \in PageContracts : \E y \in IF side = "company" THEN WinnersOf(k) ELSE BuyersOf(k) :
                           OneEntity(x, y)}

\* In this order none of the contracts beyond the page should have come before r.
NoneBefore(sort, r, k) ==
  LET later(x, y) == y = 0 \/ (x # 0 /\ x <= y)
  IN  CASE sort = "recent"     -> Current(k).date <= r.date
        [] sort = "oldest"     -> later(r.date, Current(k).date)
        [] sort = "value_desc" -> Current(k).worth <= r.worth
        [] sort = "value_asc"  -> later(r.worth, Current(k).worth)

\* The total of the rows of a list, as the caller can add them up.
TotalOf(listing) ==
  FoldLeft(LAMBDA sum, r : sum + IF r.doubtful THEN 0 ELSE r.worth, 0, listing)

\* A list shows no contract twice and never more than it counts.  If nothing was
\* written in between, it shows as many as it counts or as it was asked for, those
\* that the order puts first; it counts the contracts of every record that is the same
\* company, or buyer, once; and the total is that of the rows when they are all there.
ListsAgree ==
  Answers("rows") =>
    LET listing == view.rows
        some == view.side # "grants" /\ view.calm /\ view.rows # <<>>
    IN  /\ Len(listing) <= view.count
        /\ view.side # "grants" =>
             \A i, j \in DOMAIN listing : listing[i].id = listing[j].id => i = j
        /\ view.calm => Len(listing) = Min({view.limit, view.count})
        /\ view.calm /\ view.side # "grants" /\ InGraph(view.side, view.of) =>
             view.count = Cardinality(HeldBy(view.side, view.of))
        /\ some => \A r \in ToSet(listing), k \in HeldBy(view.side, view.of) :
             Current(k).id \in {s.id : s \in ToSet(listing)} \/ NoneBefore(view.sort, r, k)
        /\ some /\ view.count <= view.limit =>
             view.money = TotalOf(listing)

\* The id of any notice in the graph leads to the contract it is a notice of, as the
\* contract now is, and to a title in another language where there is one.  The
\* contract is no sibling of its own.  (If a newer notice of it arrives between two
\* statements, it is: only a calm page is without it.)
DetailIsOfTheNotice ==
  /\ Answers("found") =>
       /\ view.calm => (view.found <=> \E n \in FactsOf("notice") : n.id = view.notice)
       /\ view.found => \E n \in Chain(view.contract) : n.id = view.notice
       /\ view.found /\ view.calm =>
            /\ \A s \in ToSet(view.siblings) : s.contract # view.contract
            /\ Len(view.siblings) = Min({SiblingLimit, view.count})
            /\ view.undisclosed => view.winner = Nobody
  /\ Answers("titled") =>
       \A n \in FactsOf("notice"), f \in FactsOf("title") :
         n.id \in view.ids /\ f.contract = n.contract => n.id \in view.titled

\* A link to TED opens the notice that was asked for, and not a newer one of its
\* contract; and one that opened is not refused while it is the last that was looked up.
LinksOpenTheNotice ==
  Answers("link") =>
    IF view.status = 302 THEN view.number = view.link ELSE view.link \notin ToSet(lookups)

\* A search shows nobody twice and no more than it was asked for, and finds everybody
\* whom it would have found when it began, unless it is full, although its three
\* statements read three states of the graph.
SearchIsWhole ==
  Answers("hits") =>
    /\ \A i, j \in DOMAIN view.hits : view.hits[i].company = view.hits[j].company => i = j
    /\ Len(view.hits) <= view.limit
    /\ Len(view.hits) < view.limit => view.sure \subseteq HitBy(view.hits)
\* A page of the API agrees with itself, whatever is written between the statements that
\* it is made of.
PagesAgree == ListsAgree /\ DetailIsOfTheNotice /\ LinksOpenTheNotice /\ SearchIsWhole
=============================================================================
