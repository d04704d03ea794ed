--------------------------- MODULE LoaderProofs ---------------------------
(***************************************************************************)
(* Proofs about the loaders of registers and filings: EuLobbying, OpenFigi, *)
(* Gleif, Firds, Sanctions, EciRegister, Cohesion and CompanyFilings, for any *)
(* registrants, tickers, companies, listings, subjects, initiatives, projects *)
(* and files, and any numbers of runs, failures and restarts.  Each part has *)
(* its types, its inductive invariant, one lemma per action, and its theorem. *)
(***************************************************************************)
EXTENDS EuLobbying, OpenFigi, Gleif, Firds, Sanctions, EciRegister,
        Cohesion, CompanyFilings, FiniteSetTheorems, SequenceTheorems, WellFoundedInduction, TLAPS

----------------------------------------------------------------------------
(* EuLobbying: when a run has gone to its end, the graph says of every     *)
(* registrant what the register it read says.                              *)

(* The inductive invariant.                                                *)

Register == [Registrant -> Entry \union {Unregistered}]

LobbyTypes ==
  /\ register \in Register /\ snapshots \subseteq Register
  /\ lobbyRun \in [pc : {"idle", "emit", "done"}, read : Register,
                   todo : SUBSET Registrant]
  /\ lobbyRun.todo \subseteq In(lobbyRun.read)

\* Of a registrant that no event is about the graph knows nothing.
UnknownIsUndisclosed ==
  \A r \in Registrant \ emittedEver : disclosures[r] = Undisclosed

\* What the graph says of a registrant of the register read.
Follows(r) ==
  /\ disclosures[r].active
  /\ disclosures[r].name = lobbyRun.read[r].version
  /\ lobbyRun.read[r].lists => disclosures[r].list = lobbyRun.read[r].version

\* A run has emitted what is no longer to do.
EmittedFollows ==
  lobbyRun.pc \in {"emit", "done"} =>
    \A r \in In(lobbyRun.read) \ lobbyRun.todo : r \in emittedEver /\ Follows(r)

LobbyInv ==
  /\ LobbyTypes /\ UnknownIsUndisclosed /\ EmittedFollows /\ GraphFollowsRegister

LEMMA NobodyIsRegistered ==
  LET nobody == [r \in Registrant |-> Unregistered]
  IN nobody \in Register /\ In(nobody) = {}
  BY DEF Register, In

LEMMA LobbyInitInv == LobbyInit => LobbyInv
<1>. SUFFICES ASSUME LobbyInit PROVE LobbyInv
  OBVIOUS
<1>1. lobbyRun.pc = "idle" /\ lobbyRun.todo = {}
      /\ lobbyRun.read = [r \in Registrant |-> Unregistered]
  BY DEF LobbyInit, LobbyIdle
<1>2. LobbyTypes
  BY <1>1, NobodyIsRegistered DEF LobbyInit, LobbyTypes, LobbyIdle
<1>3. UnknownIsUndisclosed
  BY DEF LobbyInit, UnknownIsUndisclosed
<1>. QED
  BY <1>1, <1>2, <1>3 DEF LobbyInv, EmittedFollows, GraphFollowsRegister

\* Steps that leave the graph alone and have no run that emits or is done.
LEMMA IdleInv ==
  ASSUME LobbyInv, lobbyRun' = LobbyIdle, UNCHANGED <<register, snapshots, disclosures, emittedEver>>
  PROVE  LobbyInv'
<1>1. lobbyRun'.pc = "idle" /\ lobbyRun'.todo = {}
      /\ lobbyRun'.read = [r \in Registrant |-> Unregistered]
  BY DEF LobbyIdle
<1>2. LobbyTypes'
  BY <1>1, NobodyIsRegistered DEF LobbyInv, LobbyTypes, LobbyIdle
<1>. QED
  BY <1>1, <1>2 DEF LobbyInv, UnknownIsUndisclosed, EmittedFollows, GraphFollowsRegister

LEMMA StartInv ==
  ASSUME LobbyInv, StartLobbyRun
  PROVE  LobbyInv'
<1>1. PICK fetched \in {register} \union snapshots :
        /\ lobbyRun' = [pc |-> "emit", read |-> fetched, todo |-> In(fetched)]
        /\ snapshots' = snapshots \union {fetched}
  BY DEF StartLobbyRun
<1>2. fetched \in Register /\ UNCHANGED <<register, disclosures, emittedEver>>
  BY DEF LobbyInv, LobbyTypes, StartLobbyRun
<1>3. LobbyTypes'
  BY <1>1, <1>2 DEF LobbyInv, LobbyTypes, In
<1>4. EmittedFollows' /\ GraphFollowsRegister'
  BY <1>1 DEF EmittedFollows, GraphFollowsRegister
<1>. QED  BY <1>2, <1>3, <1>4 DEF LobbyInv, UnknownIsUndisclosed

\* A chunk brings its registrants up to what the run read.
LEMMA ChunkInv ==
  ASSUME LobbyInv, EmitChunkOf
  PROVE  LobbyInv'
<1>1. PICK chunk \in SUBSET lobbyRun.todo :
        /\ disclosures' = [r \in Registrant |->
             IF r \in chunk THEN Disclosed(disclosures[r], lobbyRun.read[r])
                            ELSE disclosures[r]]
        /\ emittedEver' = emittedEver \union chunk
        /\ lobbyRun' = [lobbyRun EXCEPT !.todo = @ \ chunk]
  BY DEF EmitChunkOf
<1>2. /\ lobbyRun.pc = "emit" /\ UNCHANGED <<register, snapshots>>
      /\ lobbyRun'.pc = lobbyRun.pc /\ lobbyRun'.read = lobbyRun.read
      /\ lobbyRun'.todo = lobbyRun.todo \ chunk
      /\ chunk \subseteq In(lobbyRun.read)
  BY <1>1 DEF EmitChunkOf, LobbyInv, LobbyTypes
<1>3. LobbyTypes'
  BY <1>1, <1>2 DEF LobbyInv, LobbyTypes
<1>4. UnknownIsUndisclosed'
  BY <1>1 DEF LobbyInv, UnknownIsUndisclosed
<1>5. EmittedFollows'
  <2>1. ASSUME NEW r \in In(lobbyRun.read) \ lobbyRun'.todo
        PROVE  r \in emittedEver' /\ Follows(r)'
    <3>1. r \in Registrant
      BY <2>1 DEF In
    <3>2. CASE r \in chunk
      BY <1>1, <1>2, <3>1, <3>2 DEF Follows, Disclosed
    <3>3. CASE r \notin chunk
      <4>1. r \in emittedEver /\ Follows(r)
        BY <1>2, <2>1, <3>3 DEF LobbyInv, EmittedFollows
      <4>2. disclosures'[r] = disclosures[r]
        BY <1>1, <3>1, <3>3
      <4>. QED  BY <1>1, <1>2, <4>1, <4>2 DEF Follows
    <3>. QED  BY <3>2, <3>3
  <2>. QED  BY <1>2, <2>1 DEF EmittedFollows
<1>6. GraphFollowsRegister'
  BY <1>2 DEF GraphFollowsRegister
<1>. QED  BY <1>3, <1>4, <1>5, <1>6 DEF LobbyInv

\* The tombstones take care of everyone else the log ever told of.
LEMMA TombstonesInv ==
  ASSUME LobbyInv, EmitTombstones
  PROVE  LobbyInv'
<1>1. /\ lobbyRun.pc = "emit" /\ lobbyRun.todo = {}
      /\ disclosures' = [r \in Registrant |->
           IF r \in Dropped(lobbyRun.read)
             THEN [name |-> Redacted, list |-> Redacted, active |-> FALSE]
             ELSE disclosures[r]]
      /\ lobbyRun' = [lobbyRun EXCEPT !.pc = "done"]
      /\ UNCHANGED <<register, snapshots, emittedEver>>
  BY DEF EmitTombstones
<1>2. /\ lobbyRun'.read = lobbyRun.read /\ lobbyRun'.todo = {}
  BY <1>1 DEF LobbyInv, LobbyTypes
<1>3. LobbyTypes'
  BY <1>1, <1>2 DEF LobbyInv, LobbyTypes
<1>4. UnknownIsUndisclosed'
  BY <1>1 DEF LobbyInv, UnknownIsUndisclosed, Dropped
<1>5. \A r \in In(lobbyRun.read) : r \in emittedEver /\ Follows(r)'
  <2>1. ASSUME NEW r \in In(lobbyRun.read)
        PROVE  r \in emittedEver /\ Follows(r)'
    <3>1. r \in emittedEver /\ Follows(r)
      BY <1>1, <2>1 DEF LobbyInv, EmittedFollows
    <3>2. disclosures'[r] = disclosures[r]
      BY <1>1, <2>1 DEF Dropped, In
    <3>. QED  BY <1>2, <3>1, <3>2 DEF Follows
  <2>. QED  BY <2>1
<1>6. EmittedFollows'
  BY <1>1, <1>2, <1>5 DEF EmittedFollows
<1>7. GraphFollowsRegister'
  <2>1. ASSUME NEW r \in Registrant, r \notin In(lobbyRun.read)
        PROVE  /\ ~disclosures'[r].active /\ disclosures'[r].name \in {0, Redacted}
               /\ disclosures'[r].list \in {0, Redacted}
    <3>1. CASE r \in emittedEver
      BY <1>1, <2>1, <3>1 DEF Dropped
    <3>2. CASE r \notin emittedEver
      <4>1. disclosures'[r] = disclosures[r]
        BY <1>1, <3>2 DEF Dropped
      <4>2. disclosures[r] = Undisclosed
        BY <3>2 DEF LobbyInv, UnknownIsUndisclosed
      <4>. QED  BY <4>1, <4>2 DEF Undisclosed
    <3>. QED  BY <3>1, <3>2
  <2>. QED  BY <1>2, <1>5, <2>1 DEF GraphFollowsRegister, Follows
<1>. QED  BY <1>3, <1>4, <1>6, <1>7 DEF LobbyInv

\* The register changes, which the run that reads an older one does not see.
LEMMA RegisterInv ==
  ASSUME LobbyInv, RegisterChanges
  PROVE  LobbyInv'
<1>1. register' \in Register
  BY DEF RegisterChanges, Register, LobbyInv, LobbyTypes
<1>2. UNCHANGED <<snapshots, disclosures, emittedEver, lobbyRun>>
  BY DEF RegisterChanges
<1>. QED
  BY <1>1, <1>2 DEF LobbyInv, LobbyTypes, UnknownIsUndisclosed, EmittedFollows, Follows,
                    GraphFollowsRegister

LEMMA LobbyNextInv == LobbyInv /\ [LobbyNext]_lobbyVars => LobbyInv'
<1>. SUFFICES ASSUME LobbyInv, [LobbyNext]_lobbyVars PROVE LobbyInv'
  OBVIOUS
<1>1. CASE LobbyRunEnds \/ LobbyRunDies
  BY <1>1, IdleInv DEF LobbyRunEnds, LobbyRunDies
<1>2. CASE UNCHANGED lobbyVars
  BY <1>2 DEF lobbyVars, LobbyInv, LobbyTypes, UnknownIsUndisclosed, EmittedFollows,
              Follows, GraphFollowsRegister
<1>. QED
  BY <1>1, <1>2, RegisterInv, StartInv, ChunkInv, TombstonesInv DEF LobbyNext

\* After a complete run of load_eu_lobbying.py the graph follows the register
\* it read: everyone in it is active with its name and lists, and of nobody else
\* a name or a list that the log ever told is left, whatever runs died before.
THEOREM RegisterIsFollowed == LobbySpec => []GraphFollowsRegister
<1>1. LobbyInv => GraphFollowsRegister
  BY DEF LobbyInv
<1>. QED  BY <1>1, LobbyInitInv, LobbyNextInv, PTL DEF LobbySpec

----------------------------------------------------------------------------
(* OpenFigi: a redirection is announced only to a ticker that is listed, and *)
(* a row stays in flight until nothing of its mode is left.                *)

FigiTypes ==
  /\ figiMode \in {"idle", "isin", "lei", "lei-reeval"} /\ figiFaults \in Nat
  /\ isinOf \in [Ticker -> FigiIsin \union {NoIsin}]

\* A redirection that may be announced: to another ticker, listed with its ISIN.
Settled(r) == r[1] # r[2] /\ r[2] \in Ticker /\ isinOf[r[2]] # NoIsin

\* While rows are left, one of them is in flight.
PoolIsFed == figiMode \in {"lei", "lei-reeval"} /\ figiPool = {} => figiRows = {}

FigiInv ==
  /\ FigiTypes /\ PoolIsFed
  /\ \A r \in retiring : Settled(r)
  /\ \A r \in sameAs : Settled(r)

\* A listing that has an ISIN keeps one, so what was settled stays so.
LEMMA SettledStays ==
  ASSUME FigiTypes, \A t \in Ticker : isinOf[t] # NoIsin => isinOf'[t] # NoIsin,
         NEW r, Settled(r)
  PROVE  Settled(r)'
  BY DEF Settled

\* What is announced is listed with an ISIN.
LEMMA AnnounceLists ==
  ASSUME FigiTypes, NEW pairs, \A p \in pairs : p[2] \in Market, Announce(pairs)
  PROVE  /\ isinOf' \in [Ticker -> FigiIsin \union {NoIsin}]
         /\ \A t \in Ticker : isinOf[t] # NoIsin => isinOf'[t] # NoIsin
         /\ \A p \in pairs : isinOf'[p[2].ticker] # NoIsin
<1>. DEFINE tickers == {p[2].ticker : p \in pairs}
<1>1. PICK last \in [tickers -> {p[2].isin : p \in pairs}] :
        isinOf' = [t \in Ticker |-> IF t \in tickers THEN last[t] ELSE isinOf[t]]
  BY DEF Announce
<1>2. \A p \in pairs : p[2].isin \in FigiIsin /\ p[2].ticker \in Ticker
  BY FigiAssumption DEF FigiIsin
<1>3. \A t \in tickers : last[t] \in FigiIsin /\ last[t] # NoIsin
  BY <1>2, FigiAssumption
<1>4. \A p \in pairs : p[2].ticker \in tickers
  OBVIOUS
<1>. HIDE DEF tickers
<1>. QED  BY <1>1, <1>2, <1>3, <1>4 DEF FigiTypes

\* The rows of a mode are finitely many.
LEMMA SelectedRows ==
  ASSUME NEW mode \in {"lei", "lei-reeval"}
  PROVE  IsFiniteSet(Select(mode))
<1>. DEFINE of == IF mode = "lei" THEN {d \in Issuer :
                                     TickersOf(d) = {} /\ PlaceholdersOf(d) = {}}
                                  ELSE {d \in Issuer : SuspectsOf(d) # {}}
            f == [c \in of |-> RowOf(c)]
<1>1. Select(mode) = {RowOf(c) : c \in of}
  BY DEF Select
<1>2. IsFiniteSet(of)
  BY FigiAssumption, FS_Subset
<1>. HIDE DEF of
<1>3. f \in Surjection(of, Select(mode))
  BY <1>1 DEF Surjection
<1>. QED  BY <1>2, <1>3, FS_Surjection

\* A mode with rows starts with some of them in flight.
LEMMA FilledPool ==
  ASSUME NEW rows, IsFiniteSet(rows), {} \in Filled(rows)
  PROVE  rows = {}
<1>. DEFINE n == Cardinality(rows)
<1>1. n \in Nat /\ FigiInflight \in Nat \ {0}
  BY FS_CardinalityType, FigiAssumption
<1>2. Min({FigiInflight, n}) = 0
  BY FS_EmptySet DEF Filled
<1>3. PICK m \in {FigiInflight, n} : \A y \in {FigiInflight, n} : m =< y
  BY <1>1, FigiInflight <= n \/ n <= FigiInflight
<1>4. Min({FigiInflight, n}) \in {FigiInflight, n}
  BY <1>3 DEF Min
<1>. QED  BY <1>1, <1>2, <1>4, FS_EmptySet

LEMMA FigiInitInv == FigiInit => FigiInv
<1>. SUFFICES ASSUME FigiInit PROVE FigiInv
  OBVIOUS
<1>. QED  BY DEF FigiInit, FigiInv, FigiTypes, PoolIsFed

\* A step that leaves listings and redirections alone, and the pool fed.
LEMMA QuietFigi ==
  ASSUME FigiInv, UNCHANGED <<isinOf, sameAs>>, retiring' \subseteq retiring,
         figiMode' \in {"idle", "isin", "lei", "lei-reeval"}, figiFaults' \in Nat,
         PoolIsFed'
  PROVE  FigiInv'
  BY DEF FigiInv, FigiTypes, Settled

LEMMA EnterModeInv ==
  ASSUME FigiInv, NEW mode \in {"isin", "lei", "lei-reeval"}, EnterMode(mode)
  PROVE  FigiInv'
<1>1. CASE mode = "isin"
  BY <1>1, QuietFigi DEF EnterMode, PoolIsFed, FigiInv, FigiTypes
<1>2. CASE mode # "isin"
  <2>1. PICK p \in Filled(Select(mode)) : figiPool' = p /\ figiRows' = Select(mode) \ p
    BY <1>2 DEF EnterMode
  <2>2. figiPool' = {} => figiRows' = {}
    BY <1>2, <2>1, SelectedRows, FilledPool
  <2>. QED  BY <1>2, <2>2, QuietFigi DEF EnterMode, PoolIsFed, FigiInv, FigiTypes
<1>. QED  BY <1>1, <1>2

LEMMA NextModeInv ==
  ASSUME FigiInv, NextMode
  PROVE  FigiInv'
<1>1. CASE \E mode \in {"isin", "lei", "lei-reeval"} : EnterMode(mode)
  BY <1>1, EnterModeInv
<1>2. CASE figiMode' = "idle"
           /\ UNCHANGED <<figiRows, figiPool, retiring, isinOf, listedAs, sameAs, figiFaults>>
  BY <1>2, QuietFigi DEF PoolIsFed, FigiInv, FigiTypes
<1>. QED  BY <1>1, <1>2 DEF NextMode

LEMMA FaultsAreCounted ==
  ASSUME FigiTypes, NEW asked, NEW failed, Lost(asked, failed)
  PROVE  figiFaults' \in Nat
  BY DEF FigiTypes, Lost

\* The answers of a batch are listed.
LEMMA AskBatchInv ==
  ASSUME FigiInv, AskBatch
  PROVE  FigiInv'
<1>1. PICK asked \in SUBSET figiRows, answered \in BOOLEAN :
        /\ Lost({"batch"}, IF answered THEN {} ELSE {"batch"})
        /\ \E first \in [asked -> Market] :
             Announce(IF answered THEN {<<r.issuer, first[r]>> : r \in asked} ELSE {})
  BY DEF AskBatch
<1>2. PICK first \in [asked -> Market] :
        Announce(IF answered THEN {<<r.issuer, first[r]>> : r \in asked} ELSE {})
  BY <1>1
<1>. DEFINE pairs == IF answered THEN {<<r.issuer, first[r]>> : r \in asked} ELSE {}
<1>3. \A p \in pairs : p[2] \in Market
  OBVIOUS
<1>4. Announce(pairs)
  BY <1>2
<1>. HIDE DEF pairs
<1>5. /\ isinOf' \in [Ticker -> FigiIsin \union {NoIsin}]
      /\ \A t \in Ticker : isinOf[t] # NoIsin => isinOf'[t] # NoIsin
  BY <1>3, <1>4, AnnounceLists DEF FigiInv
<1>6. figiMode = "isin" /\ UNCHANGED <<figiMode, retiring, sameAs>>
  BY DEF AskBatch
<1>7. figiFaults' \in Nat
  BY <1>1, FaultsAreCounted DEF FigiInv
<1>. QED
  BY <1>5, <1>6, <1>7, SettledStays DEF FigiInv, FigiTypes, PoolIsFed

\* A replacement is one of the listings that the answer confirmed.
LEMMA ReplacementsAreConfirmed ==
  ASSUME NEW canon, NEW s
  PROVE  Replacements(s, canon) \subseteq {c.ticker : c \in canon}
  BY DEF Replacements

\* An answer is announced before the suspects that it lacks are retired, so each
\* is redirected to a ticker that has an ISIN by then.
LEMMA ConsumeInv ==
  ASSUME FigiInv, NEW row \in figiPool, Consume(row)
  PROVE  FigiInv'
<1>1. PICK failed \in SUBSET row.isins :
        /\ Lost(row.isins, failed)
        /\ Announce({row.issuer} \X Canonicals(Found(row, failed)))
        /\ IF figiMode = "lei-reeval"
             THEN retiring' \in RetireSets(row, Canonicals(Found(row, failed)))
             ELSE retiring' = {}
        /\ \E next \in NextRows(Canonicals(Found(row, failed))) :
             figiPool' = (figiPool \ {row}) \union next /\ figiRows' = figiRows \ next
  BY DEF Consume
<1>. DEFINE canon == Canonicals(Found(row, failed))
            pairs == {row.issuer} \X canon
<1>2. canon \subseteq Market
  BY DEF Canonicals, Found
<1>3. \A p \in pairs : p[2] \in Market
  BY <1>2
<1>4. Announce(pairs)
  BY <1>1
<1>5. \A c \in canon : <<row.issuer, c>> \in pairs /\ <<row.issuer, c>>[2] = c
  OBVIOUS
<1>6. IF figiMode = "lei-reeval" THEN retiring' \in RetireSets(row, canon) ELSE retiring' = {}
  BY <1>1
<1>. HIDE DEF canon, pairs
<1>7. /\ isinOf' \in [Ticker -> FigiIsin \union {NoIsin}]
      /\ \A t \in Ticker : isinOf[t] # NoIsin => isinOf'[t] # NoIsin
      /\ \A p \in pairs : isinOf'[p[2].ticker] # NoIsin
  BY <1>3, <1>4, AnnounceLists DEF FigiInv
<1>8. \A c \in canon : isinOf'[c.ticker] # NoIsin /\ c.ticker \in Ticker
  BY <1>2, <1>5, <1>7, FigiAssumption
<1>9. \A r \in retiring' : Settled(r)'
  <2>. SUFFICES ASSUME NEW r \in retiring' PROVE Settled(r)'
    OBVIOUS
  <2>1. PICK f \in [Unconfirmed(row, canon) -> Ticker] :
          /\ \A s \in DOMAIN f : f[s] \in Replacements(s, canon)
          /\ retiring' = {<<s, f[s]>> : s \in DOMAIN f}
    BY <1>6 DEF RetireSets
  <2>2. PICK s \in Unconfirmed(row, canon) : r = <<s, f[s]>>
    BY <2>1
  <2>3. s \notin {c.ticker : c \in canon}
    BY <2>2 DEF Unconfirmed
  <2>4. f[s] \in {c.ticker : c \in canon}
    BY <2>1, <2>2, ReplacementsAreConfirmed
  <2>. QED  BY <1>8, <2>2, <2>3, <2>4 DEF Settled
<1>10. figiMode' = figiMode /\ sameAs' = sameAs
  BY DEF Consume
<1>11. PoolIsFed'
  <2>1. PICK next \in NextRows(canon) :
          figiPool' = (figiPool \ {row}) \union next /\ figiRows' = figiRows \ next
    BY <1>1 DEF canon
  <2>2. next = {} => figiRows = {}
    BY <2>1 DEF NextRows
  <2>. QED  BY <2>1, <2>2 DEF PoolIsFed
<1>12. figiFaults' \in Nat
  BY <1>1, FaultsAreCounted DEF FigiInv
<1>. QED
  BY <1>7, <1>9, <1>10, <1>11, <1>12, SettledStays DEF FigiInv, FigiTypes

LEMMA RetireInv ==
  ASSUME FigiInv, Retire
  PROVE  FigiInv'
  BY DEF Retire, FigiInv, FigiTypes, PoolIsFed, Settled

LEMMA FigiAbortInv ==
  ASSUME FigiInv, FigiAbort
  PROVE  FigiInv' /\ figiFaults' # figiFaults
  BY DEF FigiAbort, FigiInv, FigiTypes, PoolIsFed, Settled

LEMMA FigiNextInv == FigiInv /\ [FigiNext]_figiVars => FigiInv'
<1>1. FigiInv /\ UNCHANGED figiVars => FigiInv'
  BY DEF figiVars, FigiInv, FigiTypes, PoolIsFed, Settled
<1>. QED
  BY <1>1, NextModeInv, AskBatchInv, ConsumeInv, RetireInv, FigiAbortInv DEF FigiNext

\* A mode ends with its rows asked about, or is killed.
LEMMA ModeLeavesNoRow ==
  ASSUME FigiInv, [FigiNext]_figiVars, figiMode \notin {figiMode', "idle"},
         figiFaults' = figiFaults
  PROVE  figiRows = {}
<1>1. NextMode
  BY FigiAbortInv DEF FigiNext, AskBatch, Consume, Retire, figiVars
<1>. QED  BY <1>1 DEF NextMode, ModeOver, FigiInv, PoolIsFed, FigiTypes

\* load_openfigi.py: a ticker is redirected only to another one that OpenFIGI
\* confirmed with an ISIN and that was announced before, and a mode that runs to
\* its end without a fault leaves no row behind, for any issuers, pool and batch
\* sizes, answers and faults, in whatever order the requests come back.
THEOREM TickersAreSettled == FigiSpec => TickersSettle
<1>1. FigiInv => RedirectsAreListed
  BY DEF FigiInv, RedirectsAreListed, Settled
<1>2. FigiInv /\ [FigiNext]_figiVars
        => [figiMode \notin {figiMode', "idle"} /\ figiFaults' = figiFaults
              => figiRows = {}]_figiVars
  BY ModeLeavesNoRow
<1>3. FigiSpec => []FigiInv
  BY FigiInitInv, FigiNextInv, PTL DEF FigiSpec
<1>. QED  BY <1>1, <1>2, <1>3, PTL DEF FigiSpec, TickersSettle, NoRowLeft

----------------------------------------------------------------------------
(* Gleif: on the log a link always comes after both its companies, so the  *)
(* sink, which drops a link whose end is missing, drops none.              *)

GleifLink == {r \in LinkRecord : Yielded(r)}
Announcement == [kind : {"UpsertCompany"}, lei : Lei, full : BOOLEAN, link : {Absence}]
LinkNews == [kind : {"UpsertRelationship"}, lei : Lei, full : {FALSE}, link : GleifLink]
News == Announcement \union LinkNews

IsLink(e) == e.kind = "UpsertRelationship"
Ends(e) == {e.link.child, e.link.parent}
EdgeOf(r) == <<r.child, r.parent>>

\* The companies that a log announces, and the links.
Told(q) == {q[j].lei : j \in {i \in 1..Len(q) : ~IsLink(q[i])}}
LinksIn(q) == {EdgeOf(q[j].link) : j \in {i \in 1..Len(q) : IsLink(q[i])}}

\* Each link of a log comes after both its companies.
Anchored(q, base) ==
  \A i \in 1..Len(q) : IsLink(q[i]) =>
    \A l \in Ends(q[i]) : l \in base \/ \E j \in 1..(i - 1) : ~IsLink(q[j]) /\ q[j].lei = l

GleifTypes ==
  /\ unsunk \in Seq(News) /\ batch \in Seq(News) /\ linkFile \in Seq(LinkRecord)
  /\ read \subseteq GleifLink

GleifInv ==
  /\ GleifTypes
  /\ Anchored(unsunk, DOMAIN named) /\ Anchored(batch, {})
  /\ DOMAIN owns \union LinksIn(unsunk) = {EdgeOf(r) : r \in promised}
  /\ \A x \in DOMAIN owns : x[1] # x[2] /\ {x[1], x[2]} \subseteq DOMAIN named
  /\ batch # <<>> \/ linkFile # <<>> =>
       met \subseteq Told(batch) /\ LinksIn(batch) = {EdgeOf(r) : r \in read}

LEMMA AnnouncementTypes ==
  /\ \A l \in Lei, full \in BOOLEAN : CompanyEvent(l, full) \in News
  /\ \A r \in GleifLink : LinkEvent(r) \in News
  /\ \A l, full : CompanyEvent(l, full).lei = l /\ ~IsLink(CompanyEvent(l, full))
  /\ \A r : LinkEvent(r).link = r /\ IsLink(LinkEvent(r))
  /\ GleifLink \subseteq LinkRecord
  /\ \A r \in GleifLink : r.child \in Lei /\ r.parent \in Lei /\ r.child # r.parent
  BY GleifAssumption DEF CompanyEvent, LinkEvent, News, Announcement, LinkNews, IsLink,
                         GleifLink, Yielded

LEMMA NewsKinds ==
  ASSUME NEW e \in News
  PROVE  /\ IsLink(e) => e.link \in GleifLink
         /\ e.kind = "UpsertCompany" <=> ~IsLink(e)
  BY DEF News, Announcement, LinkNews, IsLink

LEMMA JoinedLogs ==
  ASSUME NEW q \in Seq(News), NEW s \in Seq(News)
  PROVE  /\ q \o s \in Seq(News) /\ Len(q \o s) = Len(q) + Len(s)
         /\ Len(q) \in Nat /\ Len(s) \in Nat
         /\ \A i \in 1..Len(q) : (q \o s)[i] = q[i]
         /\ \A i \in 1..Len(s) : (q \o s)[Len(q) + i] = s[i]
  OBVIOUS

\* What one log and then another one announce, both announce.
LEMMA JoinedTell ==
  ASSUME NEW q \in Seq(News), NEW s \in Seq(News)
  PROVE  /\ Told(q \o s) = Told(q) \union Told(s)
         /\ LinksIn(q \o s) = LinksIn(q) \union LinksIn(s)
<1>. DEFINE both == q \o s
            n == Len(q)
            m == Len(s)
<1>1. /\ Len(both) = n + m /\ n \in Nat /\ m \in Nat
      /\ \A i \in 1..n : both[i] = q[i]
      /\ \A i \in 1..m : both[n + i] = s[i]
  BY JoinedLogs
<1>. HIDE DEF both
<1>2. \A i \in 1..Len(both) : \/ i \in 1..n
                              \/ i - n \in 1..m /\ i = n + (i - n)
  BY <1>1
<1>3. \A i \in 1..n : i \in 1..Len(both)
  BY <1>1
<1>4. \A i \in 1..m : n + i \in 1..Len(both)
  BY <1>1
<1>. HIDE DEF n, m
<1>5. Told(both) = Told(q) \union Told(s)
  <2>1. Told(both) \subseteq Told(q) \union Told(s)
    <3>. SUFFICES ASSUME NEW i \in 1..Len(both), ~IsLink(both[i])
                  PROVE  both[i].lei \in Told(q) \union Told(s)
      BY DEF Told
    <3>1. CASE i \in 1..n
      BY <1>1, <3>1 DEF Told, n
    <3>2. CASE i - n \in 1..m /\ i = n + (i - n)
      <4>1. both[i] = s[i - n]
        BY <1>1, <3>2
      <4>. QED  BY <3>2, <4>1 DEF Told, m
    <3>. QED  BY <1>2, <3>1, <3>2
  <2>2. Told(q) \subseteq Told(both)
    BY <1>1, <1>3 DEF Told, n
  <2>3. Told(s) \subseteq Told(both)
    BY <1>1, <1>4 DEF Told, m
  <2>. QED  BY <2>1, <2>2, <2>3
<1>6. LinksIn(both) = LinksIn(q) \union LinksIn(s)
  <2>1. LinksIn(both) \subseteq LinksIn(q) \union LinksIn(s)
    <3>. SUFFICES ASSUME NEW i \in 1..Len(both), IsLink(both[i])
                  PROVE  EdgeOf(both[i].link) \in LinksIn(q) \union LinksIn(s)
      BY DEF LinksIn
    <3>1. CASE i \in 1..n
      BY <1>1, <3>1 DEF LinksIn, n
    <3>2. CASE i - n \in 1..m /\ i = n + (i - n)
      <4>1. both[i] = s[i - n]
        BY <1>1, <3>2
      <4>. QED  BY <3>2, <4>1 DEF LinksIn, m
    <3>. QED  BY <1>2, <3>1, <3>2
  <2>2. LinksIn(q) \subseteq LinksIn(both)
    BY <1>1, <1>3 DEF LinksIn, n
  <2>3. LinksIn(s) \subseteq LinksIn(both)
    BY <1>1, <1>4 DEF LinksIn, m
  <2>. QED  BY <2>1, <2>2, <2>3
<1>. QED  BY <1>5, <1>6 DEF both

\* Links that rest on what an earlier log tells may follow it.
LEMMA JoinedAnchored ==
  ASSUME NEW q \in Seq(News), NEW s \in Seq(News), NEW base,
         Anchored(q, base), Anchored(s, base \union Told(q))
  PROVE  Anchored(q \o s, base)
<1>. DEFINE both == q \o s
            n == Len(q)
            m == Len(s)
<1>1. /\ Len(both) = n + m /\ n \in Nat /\ m \in Nat
      /\ \A i \in 1..n : both[i] = q[i]
      /\ \A i \in 1..m : both[n + i] = s[i]
  BY JoinedLogs
<1>. SUFFICES Anchored(both, base) OBVIOUS
<1>. HIDE DEF both
<1>. SUFFICES ASSUME NEW i \in 1..Len(both), IsLink(both[i]), NEW l \in Ends(both[i]),
                     l \notin base
              PROVE  \E j \in 1..(i - 1) : ~IsLink(both[j]) /\ both[j].lei = l
  BY DEF Anchored
<1>2. CASE i \in 1..n
  <2>1. PICK j \in 1..(i - 1) : ~IsLink(q[j]) /\ q[j].lei = l
    BY <1>1, <1>2 DEF Anchored
  <2>2. j \in 1..n
    BY <1>1, <1>2, <2>1
  <2>. QED  BY <1>1, <2>1, <2>2
<1>3. CASE i \notin 1..n
  <2>. DEFINE k == i - n
  <2>1. k \in 1..m /\ i = n + k
    BY <1>1, <1>3
  <2>2. both[i] = s[k]
    BY <1>1, <2>1
  <2>3. CASE l \in Told(q)
    <3>1. PICK j \in 1..n : ~IsLink(q[j]) /\ q[j].lei = l
      BY <2>3 DEF Told
    <3>2. j \in 1..(i - 1)
      BY <1>1, <2>1, <3>1
    <3>. QED  BY <1>1, <3>1, <3>2
  <2>4. CASE \E j \in 1..(k - 1) : ~IsLink(s[j]) /\ s[j].lei = l
    <3>1. PICK j \in 1..(k - 1) : ~IsLink(s[j]) /\ s[j].lei = l
      BY <2>4
    <3>2. j \in 1..m /\ n + j \in 1..(i - 1)
      BY <1>1, <2>1, <3>1
    <3>. QED  BY <1>1, <3>1, <3>2
  <2>. QED  BY <2>1, <2>2, <2>3, <2>4 DEF Anchored
<1>. QED  BY <1>2, <1>3

LEMMA Follow ==
  ASSUME NEW q \in Seq(News), NEW s \in Seq(News), NEW both, both = q \o s, NEW base,
         Anchored(q, base), Anchored(s, base \union Told(q))
  PROVE  /\ both \in Seq(News) /\ (s # <<>> => both # <<>>) /\ Anchored(both, base)
         /\ Told(both) = Told(q) \union Told(s)
         /\ LinksIn(both) = LinksIn(q) \union LinksIn(s)
<1>1. Anchored(q \o s, base)
  BY JoinedAnchored
<1>2. Told(q \o s) = Told(q) \union Told(s) /\ LinksIn(q \o s) = LinksIn(q) \union LinksIn(s)
  BY JoinedTell
<1>3. q \o s \in Seq(News) /\ (s # <<>> => q \o s # <<>>)
  OBVIOUS
<1>. QED  BY <1>1, <1>2, <1>3, Zenon

\* A log without links is anchored anywhere.
LEMMA NoLinks ==
  ASSUME NEW q, NEW base, \A i \in 1..Len(q) : ~IsLink(q[i])
  PROVE  Anchored(q, base) /\ LinksIn(q) = {}
  BY DEF Anchored, LinksIn

\* What the graph learns stays learned.
LEMMA AnchoredGrows ==
  ASSUME NEW q, NEW base, NEW more, base \subseteq more, Anchored(q, base)
  PROVE  Anchored(q, more)
  BY DEF Anchored

\* The rest of a log, once its head is applied.
LEMMA TailTells ==
  ASSUME NEW q \in Seq(News), q # <<>>, NEW base, Anchored(q, base)
  PROVE  /\ Head(q) \in News /\ Tail(q) \in Seq(News)
         /\ Anchored(Tail(q), IF IsLink(Head(q)) THEN base ELSE base \union {Head(q).lei})
         /\ IsLink(Head(q)) => Ends(Head(q)) \subseteq base
         /\ LinksIn(q) = LinksIn(Tail(q))
                         \union (IF IsLink(Head(q)) THEN {EdgeOf(Head(q).link)} ELSE {})
<1>. DEFINE rest == Tail(q)
            h == Head(q)
<1>1. /\ h \in News /\ h = q[1] /\ 1 \in 1..Len(q) /\ Len(q) \in Nat
      /\ rest \in Seq(News) /\ Len(rest) = Len(q) - 1
      /\ \A i \in 1..Len(rest) : rest[i] = q[i + 1]
  OBVIOUS
<1>. HIDE DEF rest, h
<1>2. \A i \in 1..Len(rest) : i + 1 \in 1..Len(q)
  BY <1>1
<1>3. \A i \in 1..Len(q) : i = 1 \/ (i - 1 \in 1..Len(rest) /\ rest[i - 1] = q[i])
  BY <1>1
<1>4. IsLink(h) => Ends(h) \subseteq base
  BY <1>1 DEF Anchored
<1>5. Anchored(rest, IF IsLink(h) THEN base ELSE base \union {h.lei})
  <2>. SUFFICES ASSUME NEW i \in 1..Len(rest), IsLink(rest[i]), NEW l \in Ends(rest[i]),
                       l \notin (IF IsLink(h) THEN base ELSE base \union {h.lei})
                PROVE  \E j \in 1..(i - 1) : ~IsLink(rest[j]) /\ rest[j].lei = l
    BY DEF Anchored
  <2>1. i + 1 \in 1..Len(q) /\ rest[i] = q[i + 1] /\ i \in Nat
    BY <1>1, <1>2
  <2>2. l \notin base
    OBVIOUS
  <2>3. PICK j \in 1..i : ~IsLink(q[j]) /\ q[j].lei = l
    <3>1. (i + 1) - 1 = i
      BY <2>1
    <3>. QED  BY <2>1, <2>2, <3>1 DEF Anchored
  <2>4. j # 1
    BY <1>1, <2>3
  <2>5. j - 1 \in 1..(i - 1) /\ j \in 1..Len(q)
    BY <1>1, <2>1, <2>3, <2>4
  <2>6. rest[j - 1] = q[j]
    BY <1>3, <2>4, <2>5
  <2>. QED  BY <2>3, <2>5, <2>6
<1>6. LinksIn(q) = LinksIn(rest) \union (IF IsLink(h) THEN {EdgeOf(h.link)} ELSE {})
  <2>1. LinksIn(rest) \subseteq LinksIn(q)
    BY <1>1, <1>2 DEF LinksIn
  <2>2. IsLink(h) => EdgeOf(h.link) \in LinksIn(q)
    BY <1>1 DEF LinksIn
  <2>3. ASSUME NEW i \in 1..Len(q), IsLink(q[i])
        PROVE  EdgeOf(q[i].link) \in LinksIn(rest)
                 \union (IF IsLink(h) THEN {EdgeOf(h.link)} ELSE {})
    BY <1>1, <1>3, <2>3 DEF LinksIn
  <2>. QED  BY <2>1, <2>2, <2>3 DEF LinksIn
<1>. QED  BY <1>1, <1>4, <1>5, <1>6 DEF rest, h

LEMMA EmptyLog == Told(<<>>) = {} /\ LinksIn(<<>>) = {} /\ \A base : Anchored(<<>>, base)
  BY DEF Told, LinksIn, Anchored

LEMMA GleifInitInv == GleifInit => GleifInv
<1>. SUFFICES ASSUME GleifInit PROVE GleifInv
  OBVIOUS
<1>1. GleifTypes
  BY DEF GleifInit, GleifTypes
<1>2. DOMAIN owns = {} /\ promised = {} /\ unsunk = <<>> /\ batch = <<>> /\ linkFile = <<>>
  BY DEF GleifInit
<1>. QED  BY <1>1, <1>2, EmptyLog DEF GleifInv

\* The events of the entity file.
LEMMA EntityEvents ==
  LET all == SetToSeq({CompanyEvent(l, TRUE) : l \in EntityFile})
  IN all \in Seq(News) /\ \A i \in 1..Len(all) : ~IsLink(all[i])
<1>. DEFINE S == {CompanyEvent(l, TRUE) : l \in EntityFile}
            f == [l \in EntityFile |-> CompanyEvent(l, TRUE)]
            n == Cardinality(S)
            all == SetToSeq(S)
<1>1. f \in Surjection(EntityFile, S)
  BY DEF Surjection
<1>2. IsFiniteSet(S)
  BY <1>1, GleifAssumption, FS_Surjection
<1>3. S \subseteq News /\ \A e \in S : ~IsLink(e)
  <2>. SUFFICES ASSUME NEW l \in EntityFile
                PROVE  CompanyEvent(l, TRUE) \in News /\ ~IsLink(CompanyEvent(l, TRUE))
    OBVIOUS
  <2>. QED  BY AnnouncementTypes, GleifAssumption, l \in Lei, Zenon
<1>. HIDE DEF S
<1>4. n \in Nat /\ ExistsBijection(1..n, S)
  BY <1>2, FS_CardinalityType
<1>5. \E g \in [1..n -> S] : IsInjective(g)
  BY <1>4 DEF ExistsBijection, Bijection, Injection
<1>6. all \in [1..n -> S]
  BY <1>5 DEF SetToSeq
<1>. HIDE DEF all, n
<1>7. all \in Seq(S) /\ Len(all) = n
  BY <1>4, <1>6
<1>8. all \in Seq(News) /\ \A i \in 1..Len(all) : ~IsLink(all[i])
  BY <1>3, <1>4, <1>6, <1>7
<1>. QED  BY <1>8 DEF all, S

LEMMA LoadEntitiesInv ==
  ASSUME GleifInv, LoadEntities
  PROVE  GleifInv'
<1>1. PICK all \in Seq(News) : unsunk' = unsunk \o all /\ \A i \in 1..Len(all) : ~IsLink(all[i])
  BY EntityEvents DEF LoadEntities
<1>2. UNCHANGED <<linkFile, read, met, batch, named, owns, promised>>
  BY DEF LoadEntities
<1>3. unsunk \in Seq(News) /\ Anchored(unsunk, DOMAIN named)
  BY DEF GleifInv, GleifTypes
<1>4. Anchored(all, DOMAIN named \union Told(unsunk)) /\ LinksIn(all) = {}
  BY <1>1, NoLinks
<1>5. Anchored(unsunk', DOMAIN named) /\ LinksIn(unsunk') = LinksIn(unsunk)
  <2>. DEFINE base == DOMAIN named
  <2>1. Anchored(unsunk, base) /\ Anchored(all, base \union Told(unsunk))
    BY <1>3, <1>4
  <2>. HIDE DEF base
  <2>2. Anchored(unsunk', base) /\ LinksIn(unsunk') = LinksIn(unsunk) \union LinksIn(all)
    BY <1>1, <1>3, <2>1, Follow
  <2>. QED  BY <1>4, <2>2 DEF base
<1>6. GleifTypes'
  BY <1>1, <1>2, <1>3 DEF GleifInv, GleifTypes
<1>. QED  BY <1>2, <1>5, <1>6 DEF GleifInv

LEMMA ReadLinksInv ==
  ASSUME GleifInv, ReadLinks
  PROVE  GleifInv'
<1>1. /\ batch = <<>> /\ read' = {} /\ met' = {}
      /\ UNCHANGED <<batch, unsunk, named, owns, promised>>
  BY DEF ReadLinks
<1>2. linkFile' \in Seq(LinkRecord)
  BY GleifAssumption DEF ReadLinks
<1>3. GleifTypes'
  BY <1>1, <1>2 DEF GleifInv, GleifTypes
<1>. QED  BY <1>1, <1>3, EmptyLog DEF GleifInv

\* What is announced of an end of a link.
LEMMA EnsuredTells ==
  ASSUME NEW l \in Lei
  PROVE  /\ Ensured(l) \in Seq(News) /\ \A i \in 1..Len(Ensured(l)) : ~IsLink(Ensured(l)[i])
         /\ l \in met \union Told(Ensured(l))
<1>. DEFINE c == CompanyEvent(l, FALSE)
<1>1. c \in News /\ ~IsLink(c) /\ c.lei = l
  BY AnnouncementTypes
<1>. HIDE DEF c
<1>2. CASE l \in met
  BY <1>2 DEF Ensured
<1>3. CASE l \notin met
  <2>1. Ensured(l) = <<c>>
    BY <1>3 DEF Ensured, c
  <2>2. <<c>> \in Seq(News) /\ Len(<<c>>) = 1 /\ <<c>>[1] = c
    BY <1>1
  <2>3. l \in Told(<<c>>)
    BY <1>1, <2>2 DEF Told
  <2>. QED  BY <1>1, <2>1, <2>2, <2>3
<1>. QED  BY <1>2, <1>3

LEMMA EndpointsTell ==
  ASSUME NEW r \in GleifLink
  PROVE  /\ Endpoints(r) \in Seq(News)
         /\ \A base : Anchored(Endpoints(r), base)
         /\ LinksIn(Endpoints(r)) = {}
         /\ {r.child, r.parent} \subseteq met \union Told(Endpoints(r))
<1>. DEFINE c == Ensured(r.child)
            p == Ensured(r.parent)
<1>1. r.child \in Lei /\ r.parent \in Lei
  BY AnnouncementTypes
<1>2. /\ c \in Seq(News) /\ p \in Seq(News)
      /\ \A i \in 1..Len(c) : ~IsLink(c[i])
      /\ \A i \in 1..Len(p) : ~IsLink(p[i])
      /\ r.child \in met \union Told(c) /\ r.parent \in met \union Told(p)
  BY <1>1, EnsuredTells
<1>3. Endpoints(r) = c \o p
  BY DEF Endpoints
<1>. HIDE DEF c, p
<1>4. /\ \A base : Anchored(c, base) /\ Anchored(p, base)
      /\ LinksIn(c) = {} /\ LinksIn(p) = {}
  BY <1>2, NoLinks
<1>5. PICK both : both = c \o p
  OBVIOUS
<1>6. ASSUME NEW base PROVE Anchored(both, base)
  <2>1. Anchored(c, base) /\ Anchored(p, base \union Told(c))
    BY <1>4
  <2>. QED  BY <1>2, <1>5, <2>1, Follow
<1>7. both \in Seq(News) /\ Told(both) = Told(c) \union Told(p) /\ LinksIn(both) = {}
  <2>1. \E base : Anchored(c, base) /\ Anchored(p, base \union Told(c))
    BY <1>4
  <2>2. /\ both \in Seq(News) /\ Told(both) = Told(c) \union Told(p)
        /\ LinksIn(both) = LinksIn(c) \union LinksIn(p)
    BY <1>2, <1>5, <2>1, Follow
  <2>. QED  BY <1>4, <2>2
<1>. QED  BY <1>2, <1>3, <1>5, <1>6, <1>7

\* A record that is yielded: its ends that were not met, and then the link.
LEMMA EmitYielded ==
  ASSUME GleifInv, linkFile # <<>>, NEW r \in GleifLink,
         batch' = batch \o Endpoints(r) \o <<LinkEvent(r)>>
  PROVE  /\ batch' \in Seq(News) /\ batch' # <<>> /\ Anchored(batch', {})
         /\ met \union {r.child, r.parent} \subseteq Told(batch')
         /\ LinksIn(batch') = LinksIn(batch) \union {EdgeOf(r)}
<1>1. batch \in Seq(News) /\ Anchored(batch, {}) /\ met \subseteq Told(batch)
  BY DEF GleifInv, GleifTypes
<1>2. PICK ends \in Seq(News) :
        /\ ends = Endpoints(r) /\ LinksIn(ends) = {} /\ \A base : Anchored(ends, base)
        /\ {r.child, r.parent} \subseteq met \union Told(ends)
  BY EndpointsTell
<1>3. PICK link \in Seq(News) :
        link = <<LinkEvent(r)>> /\ Len(link) = 1 /\ link[1] = LinkEvent(r)
  <2>. DEFINE e == LinkEvent(r)
  <2>1. e \in News
    BY AnnouncementTypes
  <2>. HIDE DEF e
  <2>2. <<e>> \in Seq(News) /\ Len(<<e>>) = 1 /\ <<e>>[1] = e
    BY <2>1
  <2>. QED  BY <2>2 DEF e
<1>4. PICK first : first = batch \o ends
  OBVIOUS
<1>5. /\ first \in Seq(News) /\ Anchored(first, {})
      /\ Told(first) = Told(batch) \union Told(ends)
      /\ LinksIn(first) = LinksIn(batch) \union {}
  <2>. DEFINE base == {}
  <2>1. Anchored(batch, base) /\ Anchored(ends, base \union Told(batch))
    BY <1>1, <1>2
  <2>. HIDE DEF base
  <2>2. /\ first \in Seq(News) /\ Anchored(first, base)
        /\ Told(first) = Told(batch) \union Told(ends)
        /\ LinksIn(first) = LinksIn(batch) \union LinksIn(ends)
    <3>1. batch \in Seq(News) /\ ends \in Seq(News)
      BY <1>1
    <3>2. first \in Seq(News) /\ Anchored(first, base)
      BY <1>4, <2>1, <3>1, Follow, ZenonT(40)
    <3>3. Told(first) = Told(batch) \union Told(ends)
      BY <1>4, <2>1, <3>1, Follow, ZenonT(40)
    <3>4. LinksIn(first) = LinksIn(batch) \union LinksIn(ends)
      BY <1>4, <2>1, <3>1, Follow, ZenonT(40)
    <3>. QED  BY <3>2, <3>3, <3>4
  <2>. QED  BY <1>2, <2>2 DEF base
<1>6. met \union {r.child, r.parent} \subseteq Told(first)
  BY <1>1, <1>2, <1>5
<1>7. IsLink(LinkEvent(r)) /\ LinkEvent(r).link = r
  BY AnnouncementTypes
<1>8. /\ Anchored(link, {} \union Told(first))
      /\ LinksIn(link) = {EdgeOf(r)} /\ link # <<>>
  BY <1>3, <1>6, <1>7 DEF Anchored, LinksIn, Ends
<1>9. batch' = first \o link
  BY <1>2, <1>3, <1>4
<1>10. /\ batch' \in Seq(News) /\ batch' # <<>> /\ Anchored(batch', {})
       /\ Told(batch') = Told(first) \union Told(link)
       /\ LinksIn(batch') = LinksIn(first) \union LinksIn(link)
  <2>. DEFINE base == {}
  <2>1. Anchored(first, base) /\ Anchored(link, base \union Told(first))
    BY <1>5, <1>8
  <2>. HIDE DEF base
  <2>2. PICK all : all = first \o link
    OBVIOUS
  <2>3. /\ all \in Seq(News) /\ all # <<>> /\ Anchored(all, base)
        /\ Told(all) = Told(first) \union Told(link)
        /\ LinksIn(all) = LinksIn(first) \union LinksIn(link)
    <3>1. first \in Seq(News) /\ link \in Seq(News) /\ link # <<>>
      BY <1>3, <1>5, <1>8
    <3>2. all # <<>>
      BY <2>1, <2>2, <3>1, Follow, ZenonT(40)
    <3>3. all \in Seq(News) /\ Anchored(all, base)
      BY <2>1, <2>2, <3>1, Follow, ZenonT(40)
    <3>4. Told(all) = Told(first) \union Told(link)
      BY <2>1, <2>2, <3>1, Follow, ZenonT(40)
    <3>5. LinksIn(all) = LinksIn(first) \union LinksIn(link)
      BY <2>1, <2>2, <3>1, Follow, ZenonT(40)
    <3>. QED  BY <3>2, <3>3, <3>4, <3>5
  <2>4. batch' = all
    BY <1>9, <2>2
  <2>. QED  BY <2>3, <2>4 DEF base
<1>. QED  BY <1>5, <1>6, <1>8, <1>10

LEMMA EmitLinkInv ==
  ASSUME GleifInv, EmitLink
  PROVE  GleifInv'
<1>1. /\ linkFile # <<>> /\ linkFile' = Tail(linkFile)
      /\ UNCHANGED <<unsunk, named, owns, promised>>
  BY DEF EmitLink
<1>2. Head(linkFile) \in LinkRecord /\ linkFile' \in Seq(LinkRecord)
  BY <1>1 DEF GleifInv, GleifTypes
<1>3. CASE ~Yielded(Head(linkFile))
  <2>1. UNCHANGED <<batch, met, read>>
    BY <1>3 DEF EmitLink
  <2>. QED  BY <1>1, <1>2, <2>1 DEF GleifInv, GleifTypes
<1>4. CASE Yielded(Head(linkFile))
  <2>1. PICK r \in GleifLink : /\ batch' = batch \o Endpoints(r) \o <<LinkEvent(r)>>
                               /\ met' = met \union {r.child, r.parent}
                               /\ read' = read \union {r}
    BY <1>2, <1>4 DEF EmitLink, GleifLink
  <2>2. /\ batch' \in Seq(News) /\ Anchored(batch', {})
        /\ met' \subseteq Told(batch')
        /\ LinksIn(batch') = LinksIn(batch) \union {EdgeOf(r)}
    BY <1>1, <2>1, EmitYielded
  <2>3. LinksIn(batch') = {EdgeOf(x) : x \in read'}
    BY <1>1, <2>1, <2>2 DEF GleifInv
  <2>4. GleifTypes'
    BY <1>1, <1>2, <2>1, <2>2 DEF GleifInv, GleifTypes
  <2>. QED  BY <1>1, <2>2, <2>3, <2>4 DEF GleifInv
<1>. QED  BY <1>3, <1>4

\* A batch is anchored in itself, so it may follow any log.
LEMMA CommitLinksInv ==
  ASSUME GleifInv, CommitLinks
  PROVE  GleifInv'
<1>1. /\ linkFile = <<>> /\ batch # <<>> /\ unsunk' = unsunk \o batch /\ batch' = <<>>
      /\ promised' = promised \union read /\ UNCHANGED <<linkFile, read, met, named, owns>>
  BY DEF CommitLinks
<1>2. unsunk \in Seq(News) /\ batch \in Seq(News)
  BY DEF GleifInv, GleifTypes
<1>3. Anchored(unsunk, DOMAIN named) /\ Anchored(batch, DOMAIN named \union Told(unsunk))
  BY AnchoredGrows DEF GleifInv
<1>4. /\ Anchored(unsunk', DOMAIN named) /\ unsunk' \in Seq(News)
      /\ LinksIn(unsunk') = LinksIn(unsunk) \union LinksIn(batch)
  BY <1>1, <1>2, <1>3, Follow
<1>5. LinksIn(batch) = {EdgeOf(r) : r \in read}
  BY <1>1 DEF GleifInv
<1>6. DOMAIN owns \union LinksIn(unsunk') = {EdgeOf(r) : r \in promised'}
  BY <1>1, <1>4, <1>5 DEF GleifInv
<1>7. GleifTypes'
  BY <1>1, <1>4 DEF GleifInv, GleifTypes
<1>. QED  BY <1>1, <1>4, <1>6, <1>7, EmptyLog DEF GleifInv

LEMMA LinksFailInv ==
  ASSUME GleifInv, LinksFail
  PROVE  GleifInv'
<1>1. /\ linkFile' = <<>> /\ batch' = <<>>
      /\ UNCHANGED <<read, met, unsunk, named, owns, promised>>
  BY DEF LinksFail
<1>. QED  BY <1>1, EmptyLog DEF GleifInv, GleifTypes

\* The sink has both companies of a link before the link, so it drops none.
LEMMA SinkGleifInv ==
  ASSUME GleifInv, SinkGleif
  PROVE  GleifInv'
<1>. DEFINE e == Head(unsunk)
            edge == <<e.link.child, e.link.parent>>
<1>1. /\ unsunk # <<>> /\ unsunk' = Tail(unsunk)
      /\ UNCHANGED <<linkFile, read, met, batch, promised>>
  BY DEF SinkGleif
<1>2. /\ e \in News /\ unsunk' \in Seq(News)
      /\ Anchored(unsunk', IF IsLink(e) THEN DOMAIN named ELSE DOMAIN named \union {e.lei})
      /\ IsLink(e) => Ends(e) \subseteq DOMAIN named
      /\ LinksIn(unsunk) = LinksIn(unsunk')
                           \union (IF IsLink(e) THEN {EdgeOf(e.link)} ELSE {})
  BY <1>1, TailTells DEF GleifInv, GleifTypes
<1>3. GleifTypes'
  BY <1>1, <1>2 DEF GleifInv, GleifTypes
<1>4. CASE ~IsLink(e)
  <2>1. DOMAIN named' = DOMAIN named \union {e.lei} /\ UNCHANGED owns
    BY <1>2, <1>4, NewsKinds DEF SinkGleif
  <2>. QED  BY <1>1, <1>2, <1>3, <1>4, <2>1 DEF GleifInv
<1>5. CASE IsLink(e)
  <2>1. e.link \in GleifLink /\ e.kind # "UpsertCompany"
    BY <1>2, <1>5, NewsKinds
  <2>2. UNCHANGED named /\ DOMAIN owns' = DOMAIN owns \union {edge}
    BY <1>2, <1>5, <2>1 DEF SinkGleif, Ends
  <2>3. edge[1] # edge[2] /\ {edge[1], edge[2]} \subseteq DOMAIN named
    BY <1>2, <1>5, <2>1, AnnouncementTypes DEF Ends
  <2>4. DOMAIN owns' \union LinksIn(unsunk') = DOMAIN owns \union LinksIn(unsunk)
    BY <1>2, <1>5, <2>2 DEF EdgeOf
  <2>5. \A x \in DOMAIN owns' : x[1] # x[2] /\ {x[1], x[2]} \subseteq DOMAIN named'
    BY <2>2, <2>3 DEF GleifInv
  <2>. QED  BY <1>1, <1>2, <1>3, <1>5, <2>2, <2>4, <2>5 DEF GleifInv
<1>. QED  BY <1>4, <1>5

LEMMA GleifNextInv == GleifInv /\ [GleifNext]_gleifVars => GleifInv'
<1>1. GleifInv /\ UNCHANGED gleifVars => GleifInv'
  BY DEF gleifVars, GleifInv, GleifTypes
<1>. QED
  BY <1>1, LoadEntitiesInv, ReadLinksInv, EmitLinkInv, CommitLinksInv, LinksFailInv,
     SinkGleifInv DEF GleifNext

\* load_gleif.py: once the sink has caught up, the ownership links in the graph
\* are those of the active records that committed runs read, all of them and no
\* others, each between two companies that are there, for any companies, records
\* and failures, whichever of the two feeds came first.
THEOREM LinksAreKept == GleifSpec => []LinksMaterialise
<1>1. GleifInv => LinksMaterialise
  BY EmptyLog DEF GleifInv, LinksMaterialise, EdgeOf
<1>. QED  BY <1>1, GleifInitInv, GleifNextInv, PTL DEF GleifSpec

----------------------------------------------------------------------------
(* Firds: the files that are left are the oldest of the window, so that the *)
(* newest record of a listing is read first.                               *)

FirdsType ==
  /\ today \in Nat \ {0} /\ firdsFaults \in Nat
  /\ DOMAIN listing = Isin
  /\ night \in {"due", "loading", "over"}
  /\ damaged # {} => firdsFaults # 0

\* What a listing shows, a file said, and the issuer is known since.
ListingInv ==
  \A i \in Isin : listing[i] # NoListing =>
    /\ listing[i].day \in 1..today
    /\ published[listing[i].day][i] # NoRecord
    /\ listing[i] = Extracted(listing[i].day, i)
    /\ i \in known

\* The files that are left are the oldest of the window.
FilesInv ==
  night = "loading" =>
    /\ files \in Seq(Int) /\ Len(files) <= today + 1 - Oldest(today)
    /\ \A k \in 1..Len(files) : files[k] = Oldest(today) + Len(files) - k

\* The record of i in the window is that of day d alone.
OnlyRecord(i, d) ==
  /\ d \in InWindow(today) /\ published[d][i] # NoRecord
  /\ \A e \in InWindow(today) : published[e][i] # NoRecord => e = d

\* The file of day d has been read.
Read(d) ==
  \/ night = "over"
  \/ night = "loading" /\ d >= Oldest(today) + Len(files)

ReadInv ==
  firdsFaults = 0 =>
    \A i \in Isin, d \in 1..today :
      OnlyRecord(i, d) /\ Read(d) /\ listing[i] # NoListing => listing[i] = Extracted(d, i)

FirdsInv == FirdsType /\ ListingInv /\ FilesInv /\ ReadInv

LEMMA GreatestNumber ==
  ASSUME NEW n \in Nat, NEW T, T \subseteq 0..n, T # {}
  PROVE \E x \in T : \A y \in T : x >= y
<1>. DEFINE Less == {p \in Nat \X Nat : p[1] < p[2]}
           Left == {n - x : x \in T}
<1>1. IsWellFoundedOn(Less, Nat) BY NatLessThanWellFounded DEF OpToRel
<1>2. ASSUME NEW x \in Nat, NEW y \in Nat, x < y PROVE <<x, y>> \in Less BY <1>2
<1>3. Left \subseteq Nat /\ Left # {}
  <2>1. \A x \in T : n - x \in Nat OBVIOUS
  <2>. QED BY <2>1
<1>4. ASSUME NEW x \in T PROVE n - x \in Left OBVIOUS
<1>5. ASSUME NEW m \in Left PROVE \E x \in T : m = n - x OBVIOUS
<1>. HIDE DEF Less, Left
<1>6. PICK m \in Left : \A l \in Left : ~(<<l, m>> \in Less) BY <1>1, <1>3, WFMin, Zenon
<1>7. PICK x \in T : m = n - x BY <1>5
<1>8. ASSUME NEW y \in T PROVE x >= y
  <2>1. n - y \in Nat /\ m \in Nat BY <1>3, <1>4
  <2>2. ~(n - y < m) BY <1>2, <1>4, <1>6, <2>1, Zenon
  <2>. QED BY <1>7, <2>1, <2>2
<1>. QED BY <1>8

LEMMA OldestFile ==
  ASSUME NEW t \in Nat \ {0} PROVE Oldest(t) \in 1..t
BY FirdsAssumption DEF Oldest, Since

LEMMA FirdsInitially == FirdsInit => FirdsInv
BY DEF FirdsInit, FirdsInv, FirdsType, ListingInv, FilesInv, ReadInv, Read

LEMMA MidnightKeeps == ASSUME FirdsInv, Midnight PROVE FirdsInv'
<1>. USE DEF FirdsInv
<1>1. /\ night = "over" /\ today' = today + 1 /\ night' = "due"
      /\ UNCHANGED <<known, files, damaged, listing, firdsFaults>>
  BY DEF Midnight, zipVars
<1>2. ASSUME NEW d \in 1..today PROVE published'[d] = published[d]
  <2>1. PICK records \in [Isin -> Wrapper \union {NoRecord}] :
          published' = [e \in 1..today + 1 |-> IF e <= today THEN published[e] ELSE records]
    BY DEF Midnight
  <2>2. today \in Nat /\ d \in 1..today + 1 /\ d <= today BY DEF FirdsType
  <2>. QED BY <2>1, <2>2
<1>3. FirdsType' BY <1>1 DEF FirdsType
<1>4. ListingInv'
  <2>1. ASSUME NEW i \in Isin, listing[i] # NoListing
        PROVE /\ listing[i].day \in 1..today /\ listing[i].day \in 1..today + 1
              /\ published'[listing[i].day][i] = published[listing[i].day][i]
              /\ published[listing[i].day][i] # NoRecord
              /\ listing[i] = Extracted(listing[i].day, i) /\ i \in known
    BY <1>2, <2>1 DEF ListingInv, FirdsType
  <2>. QED BY <1>1, <2>1 DEF ListingInv, Extracted
<1>. QED BY <1>1, <1>3, <1>4 DEF FilesInv, ReadInv, Read

LEMMA QueryFilesKeeps == ASSUME FirdsInv, QueryFiles PROVE FirdsInv'
<1>0. FirdsType /\ ListingInv BY DEF FirdsInv
<1>1. /\ night' = "loading"
      /\ files' = [k \in 1..today + 1 - Oldest(today) |-> today + 1 - k]
      /\ UNCHANGED <<today, published, known, damaged, listing, firdsFaults>>
  BY DEF QueryFiles, zipVars
<1>n. PICK n : n = today + 1 - Oldest(today) OBVIOUS
<1>2. today \in Nat /\ n \in Nat BY <1>0, <1>n, OldestFile DEF FirdsType
<1>3. files' = [k \in 1..n |-> today + 1 - k] BY <1>1, <1>n
<1>4. files' \in [1..n -> Int] BY <1>2, <1>3
<1>5. files' \in Seq(Int) BY <1>2, <1>4, SeqDef
<1>6. Len(files') = n BY <1>2, <1>4, <1>5, LenProperties
<1>7. today = Oldest(today) + n - 1 BY <1>0, <1>n, OldestFile DEF FirdsType
<1>8. Oldest(today) \in Int /\ Oldest(today)' = Oldest(today)
  BY <1>0, <1>1, OldestFile DEF FirdsType, Oldest, Since
<1>9. \A k \in 1..n : files'[k] = Oldest(today) + n - k BY <1>2, <1>3, <1>7, <1>8
<1>10. FilesInv'
  <2>1. Len(files') <= today' + 1 - Oldest(today)' BY <1>1, <1>n, <1>2, <1>6, <1>8
  <2>2. \A k \in 1..Len(files') : files'[k] = Oldest(today)' + Len(files') - k
    BY <1>6, <1>8, <1>9
  <2>. QED BY <1>5, <2>1, <2>2 DEF FilesInv
<1>11. ReadInv'
  <2>1. \A d \in 1..today : ~Read(d)'
    BY <1>1, <1>2, <1>6, <1>7, <1>8 DEF Read
  <2>. QED BY <1>1, <2>1 DEF ReadInv
<1>12. FirdsType' BY <1>0, <1>1 DEF FirdsType
<1>13. ListingInv' BY <1>0, <1>1 DEF ListingInv, Extracted
<1>. QED BY <1>10, <1>11, <1>12, <1>13 DEF FirdsInv

\* The file at hand, and what is left after it.
LEMMA NextFile ==
  ASSUME FirdsInv, night = "loading", files # <<>>
  PROVE /\ Head(files) = Oldest(today) + Len(files) - 1 /\ Head(files) \in InWindow(today)
        /\ Tail(files) \in Seq(Int) /\ Len(Tail(files)) = Len(files) - 1
        /\ Len(files) \in Nat \ {0}
        /\ \A k \in 1..Len(Tail(files)) : Tail(files)[k] = Oldest(today) + Len(Tail(files)) - k
<1>1. /\ files \in Seq(Int) /\ Len(files) <= today + 1 - Oldest(today)
      /\ \A k \in 1..Len(files) : files[k] = Oldest(today) + Len(files) - k
  BY DEF FirdsInv, FilesInv
<1>2. Oldest(today) \in 1..today /\ today \in Nat BY OldestFile DEF FirdsInv, FirdsType
<1>n. PICK n \in Nat \ {0} : n = Len(files) BY <1>1, EmptySeq
<1>3. Head(files) = files[1] BY <1>1
<1>4. /\ Tail(files) \in Seq(Int) /\ Len(Tail(files)) = n - 1
      /\ \A k \in 1..Len(Tail(files)) : Tail(files)[k] = files[k + 1]
  BY <1>1, <1>n, HeadTailProperties
<1>5. files[1] = Oldest(today) + n - 1 BY <1>1, <1>n
<1>6. ASSUME NEW k \in 1..Len(Tail(files))
      PROVE Tail(files)[k] = Oldest(today) + Len(Tail(files)) - k
  <2>1. k + 1 \in 1..n /\ k \in Int BY <1>4
  <2>2. files[k + 1] = Oldest(today) + n - (k + 1) BY <1>1, <1>n, <2>1
  <2>. QED BY <1>2, <1>4, <2>1, <2>2
<1>7. Oldest(today) + n - 1 \in InWindow(today) BY <1>1, <1>2, <1>n DEF InWindow
<1>. QED BY <1>n, <1>3, <1>4, <1>5, <1>6, <1>7

LEMMA ReadFileKeeps == ASSUME FirdsInv, ReadFile PROVE FirdsInv'
<1>0. FirdsType /\ ListingInv /\ FilesInv /\ ReadInv BY DEF FirdsInv
<1>d. PICK d : d = Head(files) OBVIOUS
<1>t. PICK t : t = Tail(files) OBVIOUS
<1>n. PICK n : n = Len(files) OBVIOUS
<1>1. /\ night = "loading" /\ files # <<>> /\ files' = t
      /\ listing' = [i \in Isin |-> IF i \in Emitted(d) THEN Extracted(d, i) ELSE listing[i]]
      /\ UNCHANGED <<today, published, known, night, damaged, firdsFaults>>
  BY <1>d, <1>t DEF ReadFile
<1>2. /\ d = Oldest(today) + n - 1 /\ d \in InWindow(today)
      /\ t \in Seq(Int) /\ Len(t) = n - 1 /\ n \in Nat \ {0}
      /\ \A k \in 1..Len(t) : t[k] = Oldest(today) + Len(t) - k
  BY <1>1, <1>d, <1>t, <1>n, NextFile
<1>3. Oldest(today) \in 1..today /\ today \in Nat BY <1>0, OldestFile DEF FirdsType
<1>4. d \in 1..today BY <1>2, <1>3 DEF InWindow
<1>5. Oldest(today)' = Oldest(today) BY <1>1 DEF Oldest, Since
<1>6. FilesInv'
  <2>1. Len(t) <= today + 1 - Oldest(today)
    BY <1>0, <1>1, <1>2, <1>3, <1>n DEF FilesInv
  <2>. QED BY <1>1, <1>2, <1>5, <2>1 DEF FilesInv
<1>7. ListingInv'
  <2>. SUFFICES ASSUME NEW i \in Isin, listing'[i] # NoListing
               PROVE /\ listing'[i].day \in 1..today
                     /\ published[listing'[i].day][i] # NoRecord
                     /\ listing'[i] = Extracted(listing'[i].day, i)
                     /\ i \in known
    BY <1>1 DEF ListingInv, Extracted
  <2>1. CASE i \in Emitted(d)
    <3>1. listing'[i] = Extracted(d, i) /\ Extracted(d, i).day = d BY <1>1, <2>1 DEF Extracted
    <3>. QED BY <1>4, <2>1, <3>1 DEF Emitted
  <2>2. CASE i \notin Emitted(d)
    <3>1. listing'[i] = listing[i] BY <1>1, <2>2
    <3>. QED BY <1>0, <3>1 DEF ListingInv
  <2>. QED BY <2>1, <2>2
<1>8. ReadInv'
  <2>. SUFFICES ASSUME firdsFaults = 0, NEW i \in Isin, NEW e \in 1..today,
                      OnlyRecord(i, e), Read(e)', listing'[i] # NoListing
               PROVE listing'[i] = Extracted(e, i)
    BY <1>1 DEF ReadInv, OnlyRecord, InWindow, Oldest, Since, Extracted
  <2>1. e >= Oldest(today) + n - 1 BY <1>1, <1>2, <1>5 DEF Read
  <2>2. CASE i \in Emitted(d)
    <3>1. d = e BY <1>2, <2>2 DEF Emitted, OnlyRecord
    <3>. QED BY <1>1, <2>2, <3>1
  <2>3. CASE i \notin Emitted(d)
    <3>1. listing'[i] = listing[i] BY <1>1, <2>3
    <3>2. i \in known BY <1>0, <3>1 DEF ListingInv
    <3>3. d # e BY <2>3, <3>2 DEF Emitted, OnlyRecord
    <3>4. e >= Oldest(today) + n BY <1>2, <1>3, <2>1, <3>3
    <3>5. Read(e) BY <1>1, <1>n, <3>4 DEF Read
    <3>. QED BY <1>0, <3>1, <3>5 DEF ReadInv
  <2>. QED BY <2>2, <2>3
<1>9. FirdsType' BY <1>0, <1>1 DEF FirdsType
<1>. QED BY <1>6, <1>7, <1>8, <1>9 DEF FirdsInv

LEMMA FirdsStep == FirdsInv /\ [FirdsNext]_firdsVars => FirdsInv'
<1>. SUFFICES ASSUME FirdsInv, [FirdsNext]_firdsVars PROVE FirdsInv' OBVIOUS
<1>0. FirdsType /\ ListingInv /\ FilesInv /\ ReadInv BY DEF FirdsInv
<1>1. CASE Midnight BY <1>1, MidnightKeeps
<1>2. CASE QueryFiles BY <1>2, QueryFilesKeeps
<1>3. CASE ReadFile BY <1>3, ReadFileKeeps
<1>4. CASE LandIssuer
  <2>1. /\ known \subseteq known'
        /\ UNCHANGED <<today, published, night, files, damaged, listing, firdsFaults>>
    BY <1>4 DEF LandIssuer, zipVars
  <2>2. ListingInv' BY <1>0, <2>1 DEF ListingInv, Extracted
  <2>3. FirdsType' /\ FilesInv' BY <1>0, <2>1 DEF FirdsType, FilesInv, Oldest, Since
  <2>4. ReadInv'
    BY <1>0, <2>1 DEF ReadInv, OnlyRecord, Read, InWindow, Oldest, Since, Extracted
  <2>. QED BY <2>2, <2>3, <2>4 DEF FirdsInv
<1>5. CASE NightLost
  <2>1. /\ firdsFaults' = firdsFaults + 1 /\ night' \in {"due", "over"}
        /\ UNCHANGED <<today, published, known, listing>>
    BY <1>5 DEF NightLost
  <2>2. firdsFaults' # 0 /\ firdsFaults' \in Nat BY <1>0, <2>1 DEF FirdsType
  <2>3. ListingInv' BY <1>0, <2>1 DEF ListingInv, Extracted
  <2>4. FirdsType' /\ FilesInv' /\ ReadInv'
    BY <1>0, <2>1, <2>2 DEF FirdsType, FilesInv, ReadInv
  <2>. QED BY <2>3, <2>4 DEF FirdsInv
<1>6. CASE DownloadFails \/ SkipDamaged
  <2>1. /\ firdsFaults' # 0 /\ firdsFaults' \in Nat /\ files' = Tail(files) /\ files # <<>>
        /\ night = "loading"
        /\ UNCHANGED <<today, published, known, night, listing>>
    BY <1>0, <1>6 DEF DownloadFails, SkipDamaged, FirdsType
  <2>3. ListingInv' BY <1>0, <2>1 DEF ListingInv, Extracted
  <2>t. PICK t : t = Tail(files) OBVIOUS
  <2>n. PICK n : n = Len(files) OBVIOUS
  <2>4. /\ t \in Seq(Int) /\ Len(t) = n - 1 /\ n \in Nat \ {0}
        /\ \A k \in 1..Len(t) : t[k] = Oldest(today) + Len(t) - k
    BY <2>1, <2>t, <2>n, NextFile
  <2>5. n <= today + 1 - Oldest(today) /\ today \in Nat /\ Oldest(today) \in Int
    BY <1>0, <2>1, <2>n, OldestFile DEF FilesInv, FirdsType
  <2>6. FilesInv' BY <2>1, <2>t, <2>4, <2>5 DEF FilesInv, Oldest, Since
  <2>7. FirdsType' /\ ReadInv' BY <1>0, <2>1 DEF FirdsType, ReadInv
  <2>. QED BY <2>3, <2>6, <2>7 DEF FirdsInv
<1>7. CASE RunEnds
  <2>1. /\ night = "loading" /\ files = <<>> /\ night' = "over"
        /\ UNCHANGED <<today, published, known, files, damaged, listing, firdsFaults>>
    BY <1>7 DEF RunEnds, zipVars
  <2>2. ListingInv' BY <1>0, <2>1 DEF ListingInv, Extracted
  <2>3. FirdsType' /\ FilesInv' BY <1>0, <2>1 DEF FirdsType, FilesInv
  <2>4. Len(files) = 0 BY <2>1
  <2>5. ASSUME NEW i \in Isin, NEW d \in 1..today, OnlyRecord(i, d) PROVE Read(d)
    BY <1>0, <2>1, <2>4, <2>5, OldestFile DEF OnlyRecord, Read, InWindow, FirdsType
  <2>6. ReadInv'
    <3>. SUFFICES ASSUME firdsFaults = 0, NEW i \in Isin, NEW d \in 1..today,
                        OnlyRecord(i, d), listing[i] # NoListing
                 PROVE listing[i] = Extracted(d, i)
      BY <2>1 DEF ReadInv, OnlyRecord, InWindow, Oldest, Since, Extracted
    <3>. QED BY <1>0, <2>5 DEF ReadInv
  <2>. QED BY <2>2, <2>3, <2>6 DEF FirdsInv
<1>8. CASE UNCHANGED firdsVars
  <2>1. UNCHANGED <<today, published, known, night, files, damaged, listing, firdsFaults>>
    BY <1>8 DEF firdsVars
  <2>2. ListingInv' BY <1>0, <2>1 DEF ListingInv, Extracted
  <2>3. FirdsType' /\ FilesInv' BY <1>0, <2>1 DEF FirdsType, FilesInv, Oldest, Since
  <2>4. ReadInv'
    BY <1>0, <2>1 DEF ReadInv, OnlyRecord, Read, InWindow, Oldest, Since, Extracted
  <2>. QED BY <2>2, <2>3, <2>4 DEF FirdsInv
<1>. QED BY <1>1, <1>2, <1>3, <1>4, <1>5, <1>6, <1>7, <1>8 DEF FirdsNext

LEMMA ListingsSettle == FirdsInv => SettlesAtLast
<1>. SUFFICES ASSUME FirdsInv, NEW i \in Isin
             PROVE /\ listing[i] # NoListing =>
                        /\ published[listing[i].day][i] # NoRecord
                        /\ listing[i].active = (published[listing[i].day][i] # "TermntdRcrd")
                   /\ (/\ night = "over" /\ firdsFaults = 0 /\ listing[i] # NoListing
                       /\ \A d \in InWindow(today) :
                            published[d][i] # NoRecord => d = Latest(i).day
                       /\ Latest(i).day \in InWindow(today))
                      => listing[i] = Latest(i)
  BY DEF SettlesAtLast
<1>0. FirdsType /\ ListingInv /\ ReadInv BY DEF FirdsInv
<1>1. ASSUME listing[i] # NoListing
      PROVE /\ published[listing[i].day][i] # NoRecord
            /\ listing[i].active = (published[listing[i].day][i] # "TermntdRcrd")
  <2>d. PICK d : d = listing[i].day OBVIOUS
  <2>1. listing[i] = Extracted(d, i) /\ published[d][i] # NoRecord
    BY <1>0, <1>1, <2>d DEF ListingInv
  <2>2. listing[i].active = (published[d][i] # "TermntdRcrd") BY <2>1 DEF Extracted
  <2>. QED BY <2>1, <2>2, <2>d
<1>2. ASSUME night = "over", firdsFaults = 0, listing[i] # NoListing,
             \A d \in InWindow(today) : published[d][i] # NoRecord => d = Latest(i).day,
             Latest(i).day \in InWindow(today)
      PROVE listing[i] = Latest(i)
  <2>1. today \in Nat \ {0} /\ Oldest(today) \in 1..today BY <1>0, OldestFile DEF FirdsType
  <2>2. Latest(i).day # 0 /\ InWindow(today) \subseteq 1..today BY <1>2, <2>1 DEF InWindow
  <2>. DEFINE days == {d \in 1..today : published[d][i] # NoRecord}
  <2>3. days # {} BY <2>2 DEF Latest, NoListing
  <2>d. PICK d : d = CHOOSE x \in days : \A e \in days : e <= x OBVIOUS
  <2>4. Latest(i) = [day |-> d, active |-> published[d][i] # "TermntdRcrd"]
    BY <2>3, <2>d DEF Latest
  <2>5. Latest(i) = Extracted(d, i) /\ Latest(i).day = d BY <2>4 DEF Extracted
  <2>6. d \in 1..today BY <1>2, <2>2, <2>5
  <2>7. published[d][i] # NoRecord
    <3>1. days \subseteq 0..today BY <2>1
    <3>2. \E x \in days : \A e \in days : x >= e BY <2>1, <2>3, <3>1, GreatestNumber
    <3>3. \A x \in days, e \in days : x >= e => e <= x BY <2>1
    <3>4. d \in days BY <2>d, <3>2, <3>3
    <3>. QED BY <3>4
  <2>8. OnlyRecord(i, d) BY <1>2, <2>5, <2>7 DEF OnlyRecord
  <2>. QED BY <1>0, <1>2, <2>5, <2>6, <2>8 DEF ReadInv, Read
<1>. QED BY <1>1, <1>2

\* load_firds.py: a listing shows the last record of its instrument once that
\* record is alone in the window and no night and no download was lost, and never
\* shows what no file said, for any window, instruments, files and days.
THEOREM ListingsSettleAtLast == FirdsSpec => []SettlesAtLast
BY FirdsInitially, FirdsStep, ListingsSettle, PTL DEF FirdsSpec

----------------------------------------------------------------------------
(* Sanctions: the log is a sequence of brackets, each followed by its      *)
(* candidates; Structure says so by numbering the brackets, and Sink relates *)
(* what the sink holds to the bracket it is in.                            *)

Kind == {"begin", "subject", "end", "candidate"}

\* of[i]: the run, or bracket, that event i of the log is of.
Structure(of) ==
  /\ \A i \in DOMAIN sanctionLog :
       /\ sanctionLog[i].kind \in Kind /\ of[i] \in DOMAIN publishedLists
       /\ sanctionLog[i].kind \in {"subject", "candidate"} =>
            sanctionLog[i].subject \in Parsed(publishedLists[of[i]])
  /\ \A i, k \in DOMAIN sanctionLog : i < k =>
       /\ of[i] <= of[k]
       /\ of[i] = of[k] /\ sanctionLog[i].kind \in {"end", "candidate"} =>
            sanctionLog[k].kind = "candidate"
  /\ \A i \in DOMAIN sanctionLog : i + 1 \in DOMAIN sanctionLog =>
       IF sanctionLog[i + 1].kind = "begin"
         THEN of[i + 1] = of[i] + 1 /\ sanctionLog[i].kind \in {"end", "candidate"}
         ELSE /\ of[i + 1] = of[i]
              /\ sanctionLog[i + 1].kind = "candidate" <=>
                   sanctionLog[i].kind \in {"end", "candidate"}
  /\ sanctionLog # <<>> =>
       /\ sanctionLog[1].kind = "begin" /\ of[1] = 1
       /\ sanctionLog[Len(sanctionLog)].kind \in {"end", "candidate"}
       /\ of[Len(sanctionLog)] = Len(publishedLists)
  /\ sanctionLog = <<>> => publishedLists = <<>>
  /\ \A m \in DOMAIN publishedLists : \A s \in Parsed(publishedLists[m]) :
       \E i \in DOMAIN sanctionLog :
         of[i] = m /\ sanctionLog[i].kind = "subject" /\ sanctionLog[i].subject = s

\* The sink is within a bracket of the log.
Within == projected > 0 /\ sanctionLog[projected].kind \in {"begin", "subject"}

\* What it has applied of that bracket.
Held(of) ==
  {sanctionLog[i].subject :
     i \in {k \in 1..projected : of[k] = of[projected] /\ sanctionLog[k].kind = "subject"}}

Proposed ==
  {sanctionLog[i].subject :
     i \in {j \in SinkApplied("candidate") : \A k \in SinkApplied("end") : k < j}}

Sink(of) ==
  /\ Cardinality(SinkApplied("end")) =
       IF projected = 0 THEN 0 ELSE IF Within THEN of[projected] - 1 ELSE of[projected]
  /\ bracket.open => Within /\ bracket.holds = Held(of)
  /\ ~torn /\ Within => bracket.open
  /\ ~torn /\ ~bracket.open =>
       /\ sanctioned = IF projected = 0 THEN {} ELSE Parsed(publishedLists[of[projected]])
       /\ attributed = Proposed

SanctionsType ==
  /\ \E S : sanctionLog \in Seq(S)
  /\ publishedLists \in Seq(SUBSET Sanctionable)
  /\ projected \in 0..Len(sanctionLog)
  /\ DOMAIN bracket = {"open", "holds"}
  /\ fsf \subseteq Sanctionable

RunInv ==
  /\ DOMAIN sanctionRun = {"pc", "list", "entities"}
  /\ sanctionRun.pc # "idle" =>
       /\ sanctionRun.list \subseteq Sanctionable
       /\ sanctionRun.entities = Parsed(sanctionRun.list)
  /\ sanctionRun.pc = "resolve" =>
       /\ publishedLists # <<>>
       /\ sanctionRun.entities = Parsed(publishedLists[Len(publishedLists)])

SanctionsInv ==
  /\ SanctionsType /\ RunInv
  /\ \E of : Structure(of) /\ Sink(of)

LEMMA LogLen ==
  ASSUME SanctionsType
  PROVE /\ DOMAIN sanctionLog = 1..Len(sanctionLog) /\ Len(sanctionLog) \in Nat
        /\ DOMAIN publishedLists = 1..Len(publishedLists) /\ Len(publishedLists) \in Nat
        /\ projected \in Nat /\ projected <= Len(sanctionLog)
        /\ sanctionLog # <<>> <=> Len(sanctionLog) > 0
        /\ publishedLists # <<>> <=> Len(publishedLists) > 0
<1>1. PICK S : sanctionLog \in Seq(S) BY DEF SanctionsType
<1>2. /\ DOMAIN sanctionLog = 1..Len(sanctionLog) /\ Len(sanctionLog) \in Nat
      /\ sanctionLog # <<>> <=> Len(sanctionLog) > 0
  BY <1>1, LenProperties, EmptySeq
<1>3. publishedLists \in Seq(SUBSET Sanctionable) BY DEF SanctionsType
<1>4. /\ DOMAIN publishedLists = 1..Len(publishedLists) /\ Len(publishedLists) \in Nat
      /\ publishedLists # <<>> <=> Len(publishedLists) > 0
  BY <1>3, LenProperties, EmptySeq
<1>. QED BY <1>2, <1>4 DEF SanctionsType

LEMMA SanctionsInitially == SanctionsInit => SanctionsInv
<1>. SUFFICES ASSUME SanctionsInit PROVE SanctionsInv OBVIOUS
<1>1. /\ sanctionLog = <<>> /\ publishedLists = <<>> /\ projected = 0 /\ fsf = {}
      /\ bracket = NoBracket /\ sanctionRun = SanctionsIdle /\ sanctioned = {} /\ attributed = {}
  BY DEF SanctionsInit
<1>2. DOMAIN sanctionLog = {} /\ Len(sanctionLog) = 0 /\ DOMAIN publishedLists = {} BY <1>1
<1>3. sanctionLog \in Seq({}) /\ publishedLists \in Seq(SUBSET Sanctionable) BY <1>1, EmptySeq
<1>4. DOMAIN bracket = {"open", "holds"} /\ ~bracket.open BY <1>1 DEF NoBracket
<1>5. SanctionsType BY <1>1, <1>2, <1>3, <1>4 DEF SanctionsType
<1>6. RunInv BY <1>1 DEF RunInv, SanctionsIdle
<1>7. Structure(<<>>) BY <1>1, <1>2 DEF Structure
<1>8. SinkApplied("end") = {} /\ Proposed = {} BY <1>1 DEF SinkApplied, Proposed
<1>9. Sink(<<>>) BY <1>1, <1>4, <1>8, FS_EmptySet DEF Sink, Within
<1>. QED BY <1>5, <1>6, <1>7, <1>9 DEF SanctionsInv

\* The log and the lists only grow, and the sink does nothing.
Grown ==
  /\ SanctionsType /\ SanctionsType'
  /\ \A i \in DOMAIN sanctionLog : i \in DOMAIN sanctionLog' /\ sanctionLog'[i] = sanctionLog[i]
  /\ \A m \in DOMAIN publishedLists :
       m \in DOMAIN publishedLists' /\ publishedLists'[m] = publishedLists[m]
  /\ UNCHANGED <<projected, bracket, sanctioned, attributed, torn>>

LEMMA SinkUntouched ==
  ASSUME Grown, NEW of, NEW of2, Structure(of), Sink(of),
         \A i \in DOMAIN sanctionLog : of2[i] = of[i]
  PROVE Sink(of2)'
<1>1. /\ DOMAIN sanctionLog = 1..Len(sanctionLog) /\ Len(sanctionLog) \in Nat
      /\ projected \in Nat /\ projected <= Len(sanctionLog)
  BY LogLen DEF Grown
<1>p. PICK p : p = projected OBVIOUS
<1>2. p' = p /\ projected' = p /\ p \in Nat BY <1>1, <1>p DEF Grown
<1>3. \A i \in 1..p : i \in DOMAIN sanctionLog /\ sanctionLog'[i] = sanctionLog[i] /\ of2[i] = of[i]
  BY <1>1, <1>p DEF Grown
<1>4. \A kind : SinkApplied(kind)' = SinkApplied(kind)
  BY <1>2, <1>3, <1>p DEF SinkApplied
<1>5. Proposed' = Proposed
  <2>1. \A i \in SinkApplied("candidate") : sanctionLog'[i] = sanctionLog[i]
    BY <1>3, <1>p DEF SinkApplied
  <2>. QED BY <1>4, <2>1 DEF Proposed
<1>6. Within' <=> Within BY <1>2, <1>3, <1>p DEF Within
<1>7. p # 0 => of2[p] = of[p] /\ publishedLists'[of[p]] = publishedLists[of[p]]
  BY <1>2, <1>3 DEF Structure, Grown
<1>8. p # 0 => Held(of2)' = Held(of)
  <2>. SUFFICES ASSUME p # 0 PROVE Held(of2)' = Held(of) OBVIOUS
  <2>1. {k \in 1..p : of2[k] = of2[p] /\ sanctionLog'[k].kind = "subject"}
          = {k \in 1..p : of[k] = of[p] /\ sanctionLog[k].kind = "subject"}
    BY <1>3, <1>7
  <2>2. \A k \in {k \in 1..p : of[k] = of[p] /\ sanctionLog[k].kind = "subject"} :
          sanctionLog'[k].subject = sanctionLog[k].subject
    BY <1>3
  <2>. QED BY <1>2, <1>p, <2>1, <2>2 DEF Held
<1>9. UNCHANGED <<bracket, sanctioned, attributed, torn>> BY DEF Grown
<1>10. Within => p # 0 BY <1>p, <1>2 DEF Within
<1>. QED BY <1>2, <1>4, <1>5, <1>6, <1>7, <1>8, <1>9, <1>10, <1>p DEF Sink

LEMMA AppliedFinite == ASSUME projected \in Nat, NEW kind PROVE IsFiniteSet(SinkApplied(kind))
<1>1. IsFiniteSet(1..projected) BY FS_Interval
<1>2. SinkApplied(kind) \in SUBSET (1..projected) BY DEF SinkApplied
<1>. QED BY <1>1, <1>2, FS_Subset

\* What the sink does with the next event, by its kind.
LEMMA SinkProjectsKeeps == ASSUME SanctionsInv, SinkProjects PROVE SanctionsInv'
<1>0. SanctionsType /\ RunInv BY DEF SanctionsInv
<1>of. PICK of : Structure(of) /\ Sink(of) BY DEF SanctionsInv
<1>p. PICK p : p = projected OBVIOUS
<1>q. PICK q : q = p + 1 OBVIOUS
<1>1. /\ DOMAIN sanctionLog = 1..Len(sanctionLog) /\ Len(sanctionLog) \in Nat
      /\ DOMAIN publishedLists = 1..Len(publishedLists) /\ Len(publishedLists) \in Nat
      /\ p \in Nat
  BY <1>0, <1>p, LogLen
<1>e. PICK e : e = sanctionLog[q] OBVIOUS
<1>2. /\ p < Len(sanctionLog) /\ projected' = q
      /\ UNCHANGED <<fsf, sanctionLog, sanctionRun, publishedLists>>
  BY <1>p, <1>q DEF SinkProjects
<1>3. q \in DOMAIN sanctionLog /\ e.kind \in Kind /\ q \in Nat \ {0}
  BY <1>1, <1>2, <1>q, <1>e, <1>of DEF Structure
<1>4. of[q] \in 1..Len(publishedLists) BY <1>1, <1>3, <1>of DEF Structure
<1>5. \A i \in 1..p : i \in DOMAIN sanctionLog /\ i < q /\ of[i] <= of[q] /\ of[i] \in Nat
  <2>. SUFFICES ASSUME NEW i \in 1..p
                PROVE  i \in DOMAIN sanctionLog /\ i < q /\ of[i] <= of[q] /\ of[i] \in Nat
    OBVIOUS
  <2>1. i \in DOMAIN sanctionLog /\ i < q BY <1>1, <1>2, <1>q
  <2>2. of[i] \in DOMAIN publishedLists BY <1>of, <2>1 DEF Structure
  <2>3. of[i] <= of[q] BY <1>3, <1>of, <2>1 DEF Structure
  <2>. QED BY <1>1, <2>1, <2>2, <2>3
<1>6. ASSUME NEW kind
      PROVE SinkApplied(kind)' = SinkApplied(kind) \union (IF e.kind = kind THEN {q} ELSE {})
  <2>1. 1..q = (1..p) \union {q} /\ q \notin 1..p BY <1>1, <1>q
  <2>. QED BY <1>2, <1>e, <1>p, <2>1 DEF SinkApplied
<1>7. SinkApplied("end") \subseteq 1..p /\ SinkApplied("candidate") \subseteq 1..p
  BY <1>p DEF SinkApplied
<1>8. Cardinality(SinkApplied("end")') =
        IF e.kind = "end" THEN Cardinality(SinkApplied("end")) + 1
        ELSE Cardinality(SinkApplied("end"))
  <2>1. IsFiniteSet(SinkApplied("end")) BY <1>1, <1>p, AppliedFinite
  <2>2. q \notin SinkApplied("end") BY <1>1, <1>7, <1>q
  <2>. QED BY <1>6, <2>1, <2>2, FS_AddElement
<1>9. /\ p = 0 => e.kind = "begin" /\ of[q] = 1
      /\ p # 0 =>
           /\ sanctionLog[p].kind \in Kind /\ of[p] \in Nat
           /\ e.kind = "begin" => of[q] = of[p] + 1 /\ sanctionLog[p].kind \in {"end", "candidate"}
           /\ e.kind # "begin" =>
                /\ of[q] = of[p]
                /\ e.kind = "candidate" <=> sanctionLog[p].kind \in {"end", "candidate"}
  <2>1. CASE p = 0 BY <1>1, <1>2, <1>q, <1>e, <1>of, <2>1 DEF Structure
  <2>2. CASE p # 0
    <3>1. p \in DOMAIN sanctionLog /\ p + 1 \in DOMAIN sanctionLog BY <1>1, <1>2, <2>2
    <3>. QED BY <1>5, <1>q, <1>e, <1>of, <2>2, <3>1 DEF Structure
  <2>. QED BY <2>1, <2>2
<1>10. /\ Within <=> p # 0 /\ sanctionLog[p].kind \in {"begin", "subject"}
       /\ Within' <=> e.kind \in {"begin", "subject"}
  BY <1>1, <1>2, <1>3, <1>p, <1>e DEF Within
<1>11. /\ Cardinality(SinkApplied("end")) =
            IF p = 0 THEN 0 ELSE IF Within THEN of[p] - 1 ELSE of[p]
       /\ bracket.open => Within /\ bracket.holds = Held(of)
       /\ ~torn /\ Within => bracket.open
       /\ ~torn /\ ~bracket.open =>
            /\ sanctioned = IF p = 0 THEN {} ELSE Parsed(publishedLists[of[p]])
            /\ attributed = Proposed
  BY <1>p, <1>of DEF Sink
<1>12. Cardinality(SinkApplied("end")') = IF Within' THEN of[q] - 1 ELSE of[q]
  BY <1>3, <1>4, <1>8, <1>9, <1>10, <1>11 DEF Kind
<1>13. Held(of)' = {sanctionLog[i].subject :
                      i \in {k \in 1..q : of[k] = of[q] /\ sanctionLog[k].kind = "subject"}}
  BY <1>2 DEF Held
<1>14. Held(of) = {sanctionLog[i].subject :
                      i \in {k \in 1..p : of[k] = of[p] /\ sanctionLog[k].kind = "subject"}}
  BY <1>p DEF Held
<1>15. DOMAIN bracket = {"open", "holds"} BY <1>0 DEF SanctionsType
<1>16. /\ DOMAIN bracket' = {"open", "holds"}
       /\ bracket'.open => Within' /\ bracket'.holds = Held(of)'
       /\ ~torn' /\ Within' => bracket'.open
       /\ ~torn' /\ ~bracket'.open =>
            sanctioned' = Parsed(publishedLists[of[q]]) /\ attributed' = Proposed'
  <2>1. CASE e.kind = "begin"
    <3>1. bracket' = [open |-> TRUE, holds |-> {}]
      BY <1>2, <1>e, <2>1 DEF SinkProjects
    <3>2. DOMAIN bracket' = {"open", "holds"} /\ bracket'.open /\ bracket'.holds = {} BY <3>1
    <3>3. ASSUME NEW k \in 1..q, k # q PROVE of[k] # of[q]
      <4>1. k \in 1..p /\ p # 0 /\ p \in 1..p BY <1>1, <1>q, <3>3
      <4>2. of[q] = of[p] + 1 /\ of[p] \in Nat /\ of[k] \in Nat BY <1>5, <1>9, <2>1, <4>1
      <4>3. of[k] <= of[p]
        <5>1. CASE k = p BY <4>2, <5>1
        <5>2. CASE k # p
          <6>1. k < p BY <1>1, <4>1, <5>2
          <6>. QED BY <1>5, <1>of, <4>1, <6>1 DEF Structure
        <5>. QED BY <5>1, <5>2
      <4>. QED BY <4>2, <4>3
    <3>4. Held(of)' = {} BY <1>13, <1>e, <2>1, <3>3
    <3>. QED BY <1>10, <2>1, <3>2, <3>4
  <2>2. CASE e.kind = "subject"
    <3>1. /\ bracket' = IF bracket.open THEN [bracket EXCEPT !.holds = @ \union {e.subject}]
                                       ELSE bracket
          /\ torn' = torn
      BY <1>2, <1>e, <2>2 DEF SinkProjects
    <3>2. p # 0 /\ of[q] = of[p] /\ Within BY <1>9, <1>10, <2>2 DEF Kind
    <3>3. Within' BY <1>10, <2>2
    <3>4. Held(of)' = Held(of) \union {e.subject}
      <4>1. {k \in 1..q : of[k] = of[q] /\ sanctionLog[k].kind = "subject"}
              = {k \in 1..p : of[k] = of[p] /\ sanctionLog[k].kind = "subject"} \union {q}
        BY <1>1, <1>q, <1>e, <2>2, <3>2
      <4>. QED BY <1>13, <1>14, <1>e, <4>1
    <3>5. CASE bracket.open
      <4>1. /\ DOMAIN bracket' = {"open", "holds"} /\ bracket'.open
            /\ bracket'.holds = bracket.holds \union {e.subject}
        BY <1>15, <3>1, <3>5
      <4>. QED BY <1>11, <3>3, <3>4, <3>5, <4>1
    <3>6. CASE ~bracket.open
      <4>1. torn /\ bracket' = bracket BY <1>11, <3>1, <3>2, <3>6
      <4>. QED BY <1>15, <3>1, <3>6, <4>1
    <3>. QED BY <3>5, <3>6
  <2>3. CASE e.kind = "end"
    <3>1. /\ sanctioned' = IF bracket.open THEN bracket.holds ELSE sanctioned
          /\ attributed' = IF bracket.open THEN {} ELSE attributed
          /\ torn' = (torn /\ ~bracket.open) /\ bracket' = NoBracket
      BY <1>2, <1>e, <2>3 DEF SinkProjects
    <3>2. DOMAIN bracket' = {"open", "holds"} /\ ~bracket'.open BY <3>1 DEF NoBracket
    <3>3. p # 0 /\ of[q] = of[p] /\ Within /\ ~Within' BY <1>9, <1>10, <2>3 DEF Kind
    <3>4. torn' <=> torn /\ ~bracket.open BY <3>1
    <3>5. CASE ~bracket.open
      <4>1. torn' BY <1>11, <3>3, <3>4, <3>5
      <4>. QED BY <3>2, <3>3, <4>1
    <3>6. CASE bracket.open
      <4>1. sanctioned' = Held(of) /\ attributed' = {} BY <1>11, <3>1, <3>6
      <4>2. Held(of) \subseteq Parsed(publishedLists[of[q]])
        BY <1>5, <1>14, <1>of, <3>3 DEF Structure
      <4>3. ASSUME NEW s \in Parsed(publishedLists[of[q]]) PROVE s \in Held(of)
        <5>1. PICK i \in DOMAIN sanctionLog :
                of[i] = of[q] /\ sanctionLog[i].kind = "subject" /\ sanctionLog[i].subject = s
          BY <1>1, <1>4, <1>of DEF Structure
        <5>2. ~(q < i)
          <6>. SUFFICES ASSUME q < i PROVE FALSE OBVIOUS
          <6>1. sanctionLog[i].kind = "candidate"
            BY <1>3, <1>e, <1>of, <2>3, <5>1 DEF Structure
          <6>. QED BY <5>1, <6>1
        <5>3. i # q BY <1>e, <2>3, <5>1
        <5>4. i \in 1..p BY <1>1, <1>q, <5>2, <5>3
        <5>. QED BY <1>14, <3>3, <5>1, <5>4
      <4>4. Proposed' = {}
        <5>1. \A j \in SinkApplied("candidate")' : j \in 1..p
          BY <1>6, <1>7, <2>3
        <5>2. q \in SinkApplied("end")' BY <1>6, <2>3
        <5>3. \A j \in 1..p : ~(q < j) BY <1>1, <1>q
        <5>4. {j \in SinkApplied("candidate") : \A k \in SinkApplied("end") : k < j}' = {}
          BY <5>1, <5>2, <5>3
        <5>. QED BY <5>4 DEF Proposed
      <4>. QED BY <3>2, <3>3, <4>1, <4>2, <4>3, <4>4
    <3>. QED BY <3>5, <3>6
  <2>4. CASE e.kind = "candidate"
    <3>1. /\ attributed' = attributed \union (sanctioned \intersect {e.subject})
          /\ UNCHANGED <<bracket, sanctioned, torn>>
      BY <1>2, <1>e, <2>4 DEF SinkProjects
    <3>2. p # 0 /\ of[q] = of[p] /\ ~Within /\ ~Within' BY <1>9, <1>10, <2>4 DEF Kind
    <3>3. ~bracket.open BY <1>11, <3>2
    <3>4. e.subject \in Parsed(publishedLists[of[q]]) BY <1>3, <1>e, <1>of, <2>4 DEF Structure
    <3>5. Proposed' = Proposed \union {e.subject}
      <4>1. /\ SinkApplied("candidate")' = SinkApplied("candidate") \union {q}
            /\ SinkApplied("end")' = SinkApplied("end")
        BY <1>6, <2>4
      <4>2. \A k \in SinkApplied("end") : k < q BY <1>1, <1>7, <1>q
      <4>3. {j \in SinkApplied("candidate") : \A k \in SinkApplied("end") : k < j}'
              = {j \in SinkApplied("candidate") : \A k \in SinkApplied("end") : k < j} \union {q}
        BY <4>1, <4>2
      <4>. QED BY <1>2, <1>e, <4>3 DEF Proposed
    <3>. QED BY <1>11, <1>15, <3>1, <3>2, <3>3, <3>4, <3>5
  <2>. QED BY <1>3, <2>1, <2>2, <2>3, <2>4 DEF Kind
<1>17. Sink(of)'
  BY <1>2, <1>3, <1>12, <1>16 DEF Sink
<1>18. Structure(of)' BY <1>2, <1>of DEF Structure
<1>19. SanctionsType'
  <2>1. projected' \in 0..Len(sanctionLog) BY <1>1, <1>2, <1>3, <1>q
  <2>. QED BY <1>0, <1>2, <1>16, <2>1 DEF SanctionsType
<1>20. RunInv' BY <1>0, <1>2 DEF RunInv
<1>. QED BY <1>17, <1>18, <1>19, <1>20 DEF SanctionsInv

\* What changes neither the log nor the sink.
LEMMA RunMoves ==
  ASSUME SanctionsInv, fsf' \subseteq Sanctionable, RunInv',
         UNCHANGED <<sanctionLog, projected, bracket, sanctioned, attributed, publishedLists, torn>>
  PROVE SanctionsInv'
<1>0. SanctionsType BY DEF SanctionsInv
<1>of. PICK of : Structure(of) /\ Sink(of) BY DEF SanctionsInv
<1>1. SanctionsType' BY <1>0 DEF SanctionsType
<1>2. Structure(of)' BY <1>of DEF Structure
<1>3. Grown BY <1>0, <1>1 DEF Grown
<1>4. Sink(of)' BY <1>of, <1>3, SinkUntouched
<1>. QED BY <1>1, <1>2, <1>4 DEF SanctionsInv

LEMMA RunsMoveOnly ==
  ASSUME SanctionsInv, ListChanges \/ DownloadList \/ SanctionsRunDies
  PROVE SanctionsInv'
<1>0. SanctionsType /\ RunInv BY DEF SanctionsInv
<1>1. CASE ListChanges
  <2>1. fsf' \subseteq Sanctionable
    <3>1. PICK s \in Sanctionable : fsf' = IF s \in fsf THEN fsf \ {s} ELSE fsf \union {s}
      BY <1>1 DEF ListChanges
    <3>. QED BY <1>0, <3>1 DEF SanctionsType
  <2>2. RunInv' BY <1>0, <1>1 DEF ListChanges, RunInv
  <2>. QED BY <1>1, <2>1, <2>2, RunMoves DEF ListChanges
<1>2. CASE DownloadList
  <2>1. fsf' \subseteq Sanctionable BY <1>0, <1>2 DEF SanctionsType, DownloadList
  <2>2. RunInv' BY <1>0, <1>2 DEF DownloadList, RunInv, SanctionsType
  <2>. QED BY <1>2, <2>1, <2>2, RunMoves DEF DownloadList
<1>3. CASE SanctionsRunDies
  <2>1. fsf' \subseteq Sanctionable BY <1>0, <1>3 DEF SanctionsType, SanctionsRunDies
  <2>2. RunInv' BY <1>0, <1>3 DEF SanctionsRunDies, RunInv, SanctionsIdle
  <2>. QED BY <1>3, <2>1, <2>2, RunMoves DEF SanctionsRunDies
<1>. QED BY <1>1, <1>2, <1>3

\* A restart tears the bracket it hits, and only that.
LEMMA SinkRestartsKeeps == ASSUME SanctionsInv, SinkRestarts PROVE SanctionsInv'
<1>0. SanctionsType /\ RunInv BY DEF SanctionsInv
<1>of. PICK of : Structure(of) /\ Sink(of) BY DEF SanctionsInv
<1>1. /\ torn' <=> torn \/ bracket.open
      /\ bracket' = NoBracket
      /\ UNCHANGED <<fsf, sanctionLog, projected, sanctioned, attributed, sanctionRun,
                     publishedLists>>
  BY DEF SinkRestarts
<1>2. DOMAIN bracket' = {"open", "holds"} /\ ~bracket'.open BY <1>1 DEF NoBracket
<1>3. SanctionsType' BY <1>0, <1>1, <1>2 DEF SanctionsType
<1>4. RunInv' BY <1>0, <1>1 DEF RunInv
<1>5. Structure(of)' BY <1>1, <1>of DEF Structure
<1>6. SinkApplied("end")' = SinkApplied("end") BY <1>1 DEF SinkApplied
<1>7. Proposed' = Proposed BY <1>1 DEF SinkApplied, Proposed
<1>8. Within' <=> Within BY <1>1 DEF Within
<1>9. Sink(of)' BY <1>1, <1>2, <1>of, <1>6, <1>7, <1>8 DEF Sink
<1>. QED BY <1>3, <1>4, <1>5, <1>9 DEF SanctionsInv

LEMMA SanctionsStutter == ASSUME SanctionsInv, UNCHANGED sanctionVars PROVE SanctionsInv'
<1>0. SanctionsType /\ RunInv BY DEF SanctionsInv
<1>1. fsf' \subseteq Sanctionable BY <1>0 DEF SanctionsType, sanctionVars
<1>2. RunInv' BY <1>0 DEF RunInv, sanctionVars
<1>. QED BY <1>1, <1>2, RunMoves DEF sanctionVars

\* A finite set as a sequence: each element, once.
LEMMA SetInSequence ==
  ASSUME NEW P, IsFiniteSet(P)
  PROVE /\ Cardinality(P) \in Nat
        /\ SetToSeq(P) \in [1..Cardinality(P) -> P]
        /\ \A s \in P : \E i \in 1..Cardinality(P) : SetToSeq(P)[i] = s
<1>1. PICK c : c = Cardinality(P) OBVIOUS
<1>2. c \in Nat /\ ExistsBijection(1..c, P) BY <1>1, FS_CardinalityType
<1>3. \E g \in [1..c -> P] : IsInjective(g)
  BY <1>2 DEF ExistsBijection, Bijection, Injection
<1>4. PICK f : f = SetToSeq(P) OBVIOUS
<1>5. f \in [1..c -> P] /\ IsInjective(f) BY <1>1, <1>3, <1>4 DEF SetToSeq
<1>6. f \in Injection(1..c, P) BY <1>5 DEF Injection
<1>7. IsFiniteSet(1..c) /\ Cardinality(1..c) = c BY <1>2, FS_Interval
<1>8. f \in Surjection(1..c, P) BY <1>1, <1>6, <1>7, FS_Injection
<1>9. \A s \in P : \E i \in 1..c : f[i] = s BY <1>8 DEF Surjection
<1>. QED BY <1>1, <1>2, <1>4, <1>5, <1>9

\* The batch of a run is a bracket of its own, of the list that it read.
LEMMA EmitSanctionsKeeps == ASSUME SanctionsInv, EmitSanctions PROVE SanctionsInv'
<1>0. SanctionsType /\ RunInv BY DEF SanctionsInv
<1>of. PICK of : Structure(of) /\ Sink(of) BY DEF SanctionsInv
<1>n. PICK n : n = Len(sanctionLog) OBVIOUS
<1>m. PICK M : M = Len(publishedLists) OBVIOUS
<1>l. PICK list : list = sanctionRun.list OBVIOUS
<1>P. PICK P : P = Parsed(list) OBVIOUS
<1>c. PICK c : c = Cardinality(P) OBVIOUS
<1>f. PICK f : f = SetToSeq(P) OBVIOUS
<1>1. /\ DOMAIN sanctionLog = 1..n /\ n \in Nat /\ DOMAIN publishedLists = 1..M /\ M \in Nat
      /\ sanctionLog # <<>> <=> n > 0
  BY <1>0, <1>n, <1>m, LogLen
<1>2. list \subseteq Sanctionable /\ sanctionRun.entities = P
  BY <1>0, <1>l, <1>P DEF RunInv, EmitSanctions
<1>3. IsFiniteSet(P)
  <2>1. P \in SUBSET Sanctionable BY <1>2, <1>P DEF Parsed
  <2>. QED BY <2>1, SanctionsAssumption, FS_Subset
<1>4. c \in Nat /\ f \in [1..c -> P] /\ \A s \in P : \E i \in 1..c : f[i] = s
  BY <1>3, <1>c, <1>f, SetInSequence
<1>g. PICK g : g = [i \in 1..c |-> SanctionEvent("subject", f[i], "none")] OBVIOUS
<1>b. PICK b : b = Control("begin") OBVIOUS
<1>e. PICK e : e = Control("end") OBVIOUS
<1>L. PICK L : L = sanctionLog' OBVIOUS
<1>5. /\ L = sanctionLog \o <<b>> \o g \o <<e>>
      /\ publishedLists' = Append(publishedLists, list)
      /\ sanctionRun' = [sanctionRun EXCEPT !.pc = "resolve"]
      /\ UNCHANGED <<fsf, projected, bracket, sanctioned, attributed, torn>>
  BY <1>2, <1>l, <1>c, <1>f, <1>g, <1>b, <1>e, <1>L DEF EmitSanctions
<1>6. /\ b.kind = "begin" /\ e.kind = "end"
      /\ \A i \in 1..c : g[i].kind = "subject" /\ g[i].subject = f[i]
  BY <1>g, <1>b, <1>e DEF Control, SanctionEvent
<1>7. \E S : L \in Seq(S) /\ sanctionLog \in Seq(S) /\ g \in Seq(S) /\ b \in S /\ e \in S
  <2>1. PICK S : sanctionLog \in Seq(S) BY <1>0 DEF SanctionsType
  <2>2. PICK T : T = S \union {b, e} \union {g[i] : i \in 1..c} OBVIOUS
  <2>3. b \in T /\ e \in T /\ \A i \in 1..c : g[i] \in T BY <2>2
  <2>4. g \in [1..c -> T] BY <1>g, <2>3
  <2>5. g \in Seq(T) BY <1>4, <2>4
  <2>6. \A i \in 1..n : sanctionLog[i] \in T BY <1>1, <2>1, <2>2
  <2>7. sanctionLog \in [1..n -> T] BY <1>1, <1>n, <2>1, <2>6
  <2>8. sanctionLog \in Seq(T) BY <1>1, <2>7
  <2>9. L \in Seq(T) BY <1>5, <2>3, <2>5, <2>8
  <2>. QED BY <2>3, <2>5, <2>8, <2>9
<1>8. /\ DOMAIN L = 1..(n + c + 2) /\ Len(L) = n + c + 2
      /\ \A i \in 1..n : L[i] = sanctionLog[i]
      /\ L[n + 1] = b /\ L[n + c + 2] = e
      /\ \A i \in 1..c : L[n + 1 + i] = g[i]
  <2>1. PICK S : L \in Seq(S) /\ sanctionLog \in Seq(S) /\ g \in Seq(S) /\ b \in S /\ e \in S
    BY <1>7
  <2>2. Len(g) = c /\ DOMAIN g = 1..c BY <1>4, <1>g
  <2>3. PICK L1 : L1 = sanctionLog \o <<b>> OBVIOUS
  <2>4. /\ L1 \in Seq(S) /\ Len(L1) = n + 1 /\ L1[n + 1] = b
        /\ \A i \in 1..n : L1[i] = sanctionLog[i]
    BY <1>1, <1>n, <2>1, <2>3
  <2>5. PICK L2 : L2 = L1 \o g OBVIOUS
  <2>6. /\ L2 \in Seq(S) /\ Len(L2) = n + 1 + c
        /\ \A i \in 1..(n + 1) : L2[i] = L1[i]
        /\ \A i \in 1..c : L2[n + 1 + i] = g[i]
    <3>1. /\ L2 \in Seq(S) /\ Len(L2) = Len(L1) + Len(g)
          /\ \A i \in 1..(Len(L1) + Len(g)) :
               L2[i] = IF i <= Len(L1) THEN L1[i] ELSE g[i - Len(L1)]
      <4>1. L1 \in Seq(S) /\ g \in Seq(S) BY <2>1, <2>4
      <4>2. /\ L1 \o g \in Seq(S) /\ Len(L1 \o g) = Len(L1) + Len(g)
            /\ \A i \in 1..(Len(L1) + Len(g)) :
                 (L1 \o g)[i] = IF i <= Len(L1) THEN L1[i] ELSE g[i - Len(L1)]
        BY <4>1, ConcatProperties
      <4>. QED BY <2>5, <4>2
    <3>2. /\ Len(L2) = n + 1 + c
          /\ \A i \in 1..(n + 1 + c) : L2[i] = IF i <= n + 1 THEN L1[i] ELSE g[i - (n + 1)]
      BY <2>2, <2>4, <3>1
    <3>3. \A i \in 1..(n + 1) : L2[i] = L1[i] BY <1>1, <1>4, <3>2
    <3>4. ASSUME NEW i \in 1..c PROVE L2[n + 1 + i] = g[i]
      <4>1. n + 1 + i \in 1..(n + 1 + c) /\ ~(n + 1 + i <= n + 1) /\ (n + 1 + i) - (n + 1) = i
        BY <1>1, <1>4
      <4>. QED BY <3>2, <4>1
    <3>. QED BY <3>1, <3>2, <3>3, <3>4
  <2>7. L = L2 \o <<e>> BY <1>5, <2>3, <2>5
  <2>8. /\ Len(L) = n + c + 2 /\ L[n + c + 2] = e /\ DOMAIN L = 1..(n + c + 2)
        /\ \A i \in 1..(n + 1 + c) : L[i] = L2[i]
    <3>1. L = Append(L2, e) BY <2>1, <2>6, <2>7
    <3>2. /\ Len(L) = Len(L2) + 1 /\ L[Len(L2) + 1] = e
          /\ \A i \in 1..Len(L2) : L[i] = L2[i]
      BY <2>1, <2>6, <3>1, AppendProperties
    <3>3. Len(L2) + 1 = n + c + 2 BY <1>1, <1>4, <2>6
    <3>4. DOMAIN L = 1..Len(L) BY <2>1, LenProperties
    <3>. QED BY <2>6, <3>2, <3>3, <3>4
  <2>9. \A i \in 1..n : L[i] = sanctionLog[i] BY <1>1, <1>4, <2>4, <2>6, <2>8
  <2>10. L[n + 1] = b BY <1>1, <1>4, <2>4, <2>6, <2>8
  <2>11. ASSUME NEW i \in 1..c PROVE L[n + 1 + i] = g[i]
    <3>1. n + 1 + i \in 1..(n + 1 + c) BY <1>1, <1>4
    <3>2. L[n + 1 + i] = L2[n + 1 + i] BY <2>8, <3>1
    <3>. QED BY <2>6, <3>2
  <2>. QED BY <2>8, <2>9, <2>10, <2>11
<1>k. /\ \A i \in 1..n : L[i] = sanctionLog[i]
      /\ L[n + 1].kind = "begin" /\ L[n + c + 2].kind = "end"
      /\ \A i \in (n + 2)..(n + c + 1) : L[i].kind = "subject" /\ L[i].subject \in P
      /\ \A s \in P : \E i \in (n + 2)..(n + c + 1) : L[i].subject = s
  <2>1. ASSUME NEW i \in (n + 2)..(n + c + 1)
        PROVE  L[i].kind = "subject" /\ L[i].subject \in P
    <3>1. PICK j : j = i - (n + 1) OBVIOUS
    <3>2. j \in 1..c /\ i = n + 1 + j BY <1>1, <1>4, <3>1
    <3>. QED BY <1>4, <1>6, <1>8, <3>2
  <2>2. ASSUME NEW s \in P PROVE \E i \in (n + 2)..(n + c + 1) : L[i].subject = s
    <3>1. PICK j \in 1..c : f[j] = s BY <1>4
    <3>2. PICK i : i = n + 1 + j OBVIOUS
    <3>3. i \in (n + 2)..(n + c + 1) BY <1>1, <1>4, <3>2
    <3>4. L[i].subject = s BY <1>6, <1>8, <3>1, <3>2
    <3>. QED BY <3>3, <3>4
  <2>. QED BY <1>6, <1>8, <2>1, <2>2
<1>9. /\ publishedLists' \in Seq(SUBSET Sanctionable)
      /\ DOMAIN publishedLists' = 1..(M + 1) /\ Len(publishedLists') = M + 1
      /\ publishedLists'[M + 1] = list
      /\ \A i \in 1..M : publishedLists'[i] = publishedLists[i]
  <2>1. publishedLists \in Seq(SUBSET Sanctionable) BY <1>0 DEF SanctionsType
  <2>. QED BY <1>1, <1>2, <1>5, <1>m, <2>1
<1>of2. PICK of2 : of2 = [i \in 1..(n + c + 2) |-> IF i <= n THEN of[i] ELSE M + 1] OBVIOUS
<1>10. /\ \A i \in 1..n : of2[i] = of[i]
       /\ \A i \in (n + 1)..(n + c + 2) : of2[i] = M + 1
  BY <1>1, <1>4, <1>of2
<1>11. \A i \in 1..(n + c + 2) : i \in 1..n \/ i = n + 1 \/ i \in (n + 2)..(n + c + 1) \/ i = n + c + 2
  BY <1>1, <1>4
<1>12. n + 1 \in (n + 1)..(n + c + 2) /\ n + c + 2 \in (n + 1)..(n + c + 2)
       /\ \A i \in (n + 2)..(n + c + 1) : i \in (n + 1)..(n + c + 2)
  BY <1>1, <1>4
<1>13. publishedLists'[M + 1] = list /\ Parsed(publishedLists'[M + 1]) = P BY <1>9, <1>P
<1>s1. ASSUME NEW i \in DOMAIN L
       PROVE  /\ L[i].kind \in Kind /\ of2[i] \in DOMAIN publishedLists'
              /\ L[i].kind \in {"subject", "candidate"} =>
                   L[i].subject \in Parsed(publishedLists'[of2[i]])
  <2>1. CASE i \in 1..n
    <3>1. /\ sanctionLog[i].kind \in Kind /\ of[i] \in 1..M
          /\ sanctionLog[i].kind \in {"subject", "candidate"} =>
               sanctionLog[i].subject \in Parsed(publishedLists[of[i]])
      BY <1>1, <1>of, <2>1 DEF Structure
    <3>. QED BY <1>1, <1>8, <1>9, <1>10, <2>1, <3>1
  <2>2. CASE i \notin 1..n
    <3>1. of2[i] = M + 1 BY <1>8, <1>10, <1>11, <1>12, <2>2
    <3>2. L[i].kind \in {"begin", "subject", "end"} /\ (L[i].kind = "subject" => L[i].subject \in P)
      BY <1>8, <1>k, <1>11, <2>2
    <3>. QED BY <1>1, <1>9, <1>13, <3>1, <3>2 DEF Kind
  <2>. QED BY <2>1, <2>2
<1>s2. ASSUME NEW i \in DOMAIN L, NEW k \in DOMAIN L, i < k
       PROVE  /\ of2[i] <= of2[k]
              /\ of2[i] = of2[k] /\ L[i].kind \in {"end", "candidate"} => L[k].kind = "candidate"
  <2>1. CASE k \in 1..n
    <3>1. i \in 1..n BY <1>1, <1>8, <1>s2, <2>1
    <3>2. /\ of[i] <= of[k]
          /\ of[i] = of[k] /\ sanctionLog[i].kind \in {"end", "candidate"} =>
               sanctionLog[k].kind = "candidate"
      BY <1>1, <1>of, <1>s2, <2>1, <3>1 DEF Structure
    <3>. QED BY <1>8, <1>10, <2>1, <3>1, <3>2
  <2>2. CASE k \notin 1..n
    <3>1. of2[k] = M + 1 BY <1>8, <1>10, <1>11, <1>12, <2>2
    <3>2. CASE i \in 1..n
      <4>1. of[i] \in 1..M BY <1>1, <1>of, <3>2 DEF Structure
      <4>. QED BY <1>1, <1>10, <3>1, <3>2, <4>1
    <3>3. CASE i \notin 1..n
      <4>1. of2[i] = M + 1 BY <1>8, <1>10, <1>11, <1>12, <3>3
      <4>2. i # n + c + 2 BY <1>1, <1>4, <1>8, <1>s2
      <4>3. L[i].kind \in {"begin", "subject"} BY <1>8, <1>k, <1>11, <3>3, <4>2
      <4>. QED BY <1>1, <3>1, <4>1, <4>3
    <3>. QED BY <3>2, <3>3
  <2>. QED BY <2>1, <2>2
<1>14. n > 0 => /\ sanctionLog[1].kind = "begin" /\ of[1] = 1 /\ of[n] = M
                /\ sanctionLog[n].kind \in {"end", "candidate"}
  BY <1>1, <1>n, <1>m, <1>of DEF Structure
<1>s3. ASSUME NEW i \in DOMAIN L, i + 1 \in DOMAIN L
       PROVE  IF L[i + 1].kind = "begin"
                THEN of2[i + 1] = of2[i] + 1 /\ L[i].kind \in {"end", "candidate"}
                ELSE /\ of2[i + 1] = of2[i]
                     /\ L[i + 1].kind = "candidate" <=> L[i].kind \in {"end", "candidate"}
  <2>1. CASE i + 1 \in 1..n
    <3>1. i \in 1..n BY <1>1, <1>8, <2>1
    <3>2. IF sanctionLog[i + 1].kind = "begin"
            THEN of[i + 1] = of[i] + 1 /\ sanctionLog[i].kind \in {"end", "candidate"}
            ELSE /\ of[i + 1] = of[i]
                 /\ sanctionLog[i + 1].kind = "candidate" <=>
                      sanctionLog[i].kind \in {"end", "candidate"}
      BY <1>1, <1>of, <2>1, <3>1 DEF Structure
    <3>. QED BY <1>8, <1>10, <2>1, <3>1, <3>2
  <2>2. CASE i + 1 = n + 1
    <3>1. i = n /\ n > 0 /\ n \in 1..n BY <1>1, <1>8, <2>2
    <3>. QED BY <1>8, <1>k, <1>10, <1>12, <1>14, <2>2, <3>1
  <2>3. CASE i \notin 1..n
    <3>1. of2[i] = M + 1 /\ i # n + c + 2
      BY <1>1, <1>4, <1>8, <1>10, <1>11, <1>12, <1>s3, <2>3
    <3>2. i + 1 \notin 1..n /\ i + 1 # n + 1 BY <1>1, <1>8, <2>3
    <3>3. of2[i + 1] = M + 1 /\ L[i + 1].kind \in {"subject", "end"}
      BY <1>8, <1>k, <1>10, <1>11, <1>12, <1>s3, <3>2
    <3>4. L[i].kind \in {"begin", "subject"} BY <1>8, <1>k, <1>11, <2>3, <3>1
    <3>. QED BY <3>1, <3>3, <3>4
  <2>4. i + 1 \in 1..n \/ i + 1 = n + 1 \/ i \notin 1..n BY <1>1, <1>8
  <2>. QED BY <2>1, <2>2, <2>3, <2>4
<1>s4. L[1].kind = "begin" /\ of2[1] = 1
  <2>1. CASE n > 0
    <3>1. 1 \in 1..n BY <1>1, <2>1
    <3>. QED BY <1>8, <1>10, <1>14, <2>1, <3>1
  <2>2. CASE ~(n > 0)
    <3>1. publishedLists = <<>> /\ n = 0 BY <1>1, <1>of, <2>2 DEF Structure
    <3>2. M = 0 BY <1>m, <3>1
    <3>. QED BY <1>k, <1>10, <1>12, <3>1, <3>2
  <2>. QED BY <2>1, <2>2
<1>s5. L[n + c + 2].kind = "end" /\ of2[n + c + 2] = M + 1 BY <1>k, <1>10, <1>12
<1>s6. ASSUME NEW m \in DOMAIN publishedLists', NEW s \in Parsed(publishedLists'[m])
       PROVE  \E i \in DOMAIN L : of2[i] = m /\ L[i].kind = "subject" /\ L[i].subject = s
  <2>1. CASE m \in 1..M
    <3>1. s \in Parsed(publishedLists[m]) BY <1>9, <2>1
    <3>2. PICK i \in 1..n :
            of[i] = m /\ sanctionLog[i].kind = "subject" /\ sanctionLog[i].subject = s
      BY <1>1, <1>of, <2>1, <3>1 DEF Structure
    <3>3. i \in DOMAIN L BY <1>1, <1>4, <1>8
    <3>. QED BY <1>8, <1>10, <3>2, <3>3
  <2>2. CASE m = M + 1
    <3>1. s \in P BY <1>13, <2>2
    <3>2. PICK i \in (n + 2)..(n + c + 1) : L[i].subject = s BY <1>k, <3>1
    <3>3. i \in DOMAIN L BY <1>1, <1>4, <1>8
    <3>. QED BY <1>k, <1>10, <1>12, <2>2, <3>2, <3>3
  <2>3. m \in 1..M \/ m = M + 1 BY <1>1, <1>9
  <2>. QED BY <2>1, <2>2, <2>3
<1>15. L # <<>>
  <2>1. 1 \in DOMAIN L BY <1>1, <1>4, <1>8
  <2>. QED BY <2>1
<1>16. Structure(of2)'
  BY <1>L, <1>8, <1>9, <1>15, <1>s1, <1>s2, <1>s3, <1>s4, <1>s5, <1>s6 DEF Structure
<1>17. SanctionsType'
  <2>1. projected' \in 0..Len(sanctionLog')
    <3>1. projected \in 0..n BY <1>0, <1>n DEF SanctionsType
    <3>. QED BY <1>1, <1>4, <1>5, <1>8, <1>L, <3>1
  <2>2. \E S : sanctionLog' \in Seq(S) BY <1>7, <1>L
  <2>3. DOMAIN bracket' = {"open", "holds"} /\ fsf' \subseteq Sanctionable
    BY <1>0, <1>5 DEF SanctionsType
  <2>. QED BY <1>9, <2>1, <2>2, <2>3 DEF SanctionsType
<1>18. RunInv'
  <2>1. DOMAIN sanctionRun = {"pc", "list", "entities"} BY <1>0 DEF RunInv
  <2>2. /\ DOMAIN sanctionRun' = {"pc", "list", "entities"}
        /\ sanctionRun'.list = list /\ sanctionRun'.entities = P
    BY <1>2, <1>5, <1>l, <2>1
  <2>3. publishedLists' # <<>>
    <3>1. M + 1 \in DOMAIN publishedLists' BY <1>1, <1>9
    <3>. QED BY <3>1
  <2>. QED BY <1>2, <1>9, <1>P, <2>2, <2>3 DEF RunInv
<1>19. Grown
  <2>1. \A i \in 1..n : i \in DOMAIN L BY <1>1, <1>4, <1>8
  <2>2. \A i \in 1..M : i \in 1..(M + 1) BY <1>1
  <2>. QED BY <1>0, <1>1, <1>5, <1>8, <1>9, <1>17, <1>L, <2>1, <2>2 DEF Grown
<1>20. Sink(of2)' BY <1>1, <1>10, <1>19, <1>of, SinkUntouched
<1>. QED BY <1>16, <1>17, <1>18, <1>20 DEF SanctionsInv

LEMMA CandidatesFinite ==
  ASSUME NEW E \in SUBSET Sanctionable, NEW matched
  PROVE /\ IsFiniteSet(Candidates(E, matched))
        /\ \A x \in Candidates(E, matched) : x.kind = "candidate" /\ x.subject \in E
<1>C. PICK C : C = Candidates(E, matched) OBVIOUS
<1>D. PICK D : D = {x \in E \ Person : Nationality(x) # NoCountry /\ Recognised(x, matched) # {}}
  OBVIOUS
<1>f. PICK f : f = [s \in D |-> SanctionEvent("candidate", s, Names(s)[Min(Recognised(s, matched))])]
  OBVIOUS
<1>1. D \in SUBSET Sanctionable /\ D \subseteq E BY <1>D
<1>2. IsFiniteSet(D) BY <1>1, SanctionsAssumption, FS_Subset
<1>3. C = {f[s] : s \in D} BY <1>C, <1>D, <1>f DEF Candidates
<1>4. f \in Surjection(D, C) BY <1>f, <1>3 DEF Surjection
<1>5. IsFiniteSet(C) BY <1>2, <1>4, FS_Surjection
<1>6. \A s \in D : f[s].kind = "candidate" /\ f[s].subject = s BY <1>f DEF SanctionEvent
<1>7. \A x \in C : x.kind = "candidate" /\ x.subject \in E BY <1>1, <1>3, <1>6
<1>. QED BY <1>C, <1>5, <1>7

\* The candidates of a run come after its bracket, before the next one.
LEMMA EmitReviewCandidatesKeeps == ASSUME SanctionsInv, EmitReviewCandidates PROVE SanctionsInv'
<1>0. SanctionsType /\ RunInv BY DEF SanctionsInv
<1>of. PICK of : Structure(of) /\ Sink(of) BY DEF SanctionsInv
<1>n. PICK n : n = Len(sanctionLog) OBVIOUS
<1>m. PICK M : M = Len(publishedLists) OBVIOUS
<1>E. PICK E : E = sanctionRun.entities OBVIOUS
<1>1. /\ DOMAIN sanctionLog = 1..n /\ n \in Nat /\ DOMAIN publishedLists = 1..M /\ M \in Nat
      /\ sanctionLog # <<>> <=> n > 0
      /\ publishedLists # <<>> <=> M > 0
  BY <1>0, <1>n, <1>m, LogLen
<1>2. E \in SUBSET Sanctionable /\ E = Parsed(publishedLists[M]) /\ M > 0
  BY <1>0, <1>1, <1>m, <1>E DEF RunInv, EmitReviewCandidates, Parsed
<1>3. /\ n > 0 /\ sanctionLog[1].kind = "begin" /\ of[1] = 1 /\ of[n] = M
      /\ sanctionLog[n].kind \in {"end", "candidate"}
  BY <1>1, <1>2, <1>n, <1>m, <1>of DEF Structure
<1>L. PICK L : L = sanctionLog' OBVIOUS
<1>4. PICK matched : L = sanctionLog \o SetToSeq(Candidates(E, matched))
  BY <1>E, <1>L DEF EmitReviewCandidates
<1>5. /\ sanctionRun' = SanctionsIdle
      /\ UNCHANGED <<fsf, projected, bracket, sanctioned, attributed, publishedLists, torn>>
  BY DEF EmitReviewCandidates
<1>C. PICK C : C = Candidates(E, matched) OBVIOUS
<1>c. PICK c : c = Cardinality(C) OBVIOUS
<1>g. PICK g : g = SetToSeq(C) OBVIOUS
<1>6. IsFiniteSet(C) /\ \A x \in C : x.kind = "candidate" /\ x.subject \in E
  BY <1>2, <1>C, CandidatesFinite
<1>7. c \in Nat /\ g \in [1..c -> C] BY <1>6, <1>c, <1>g, SetInSequence
<1>8. \A i \in 1..c : g[i].kind = "candidate" /\ g[i].subject \in E BY <1>6, <1>7
<1>9. \E S : sanctionLog \in Seq(S) /\ g \in Seq(S)
  <2>1. PICK S : sanctionLog \in Seq(S) BY <1>0 DEF SanctionsType
  <2>2. PICK T : T = S \union C OBVIOUS
  <2>3. \A i \in 1..c : g[i] \in T BY <1>7, <2>2
  <2>4. g \in [1..c -> T] BY <1>7, <2>3
  <2>5. g \in Seq(T) BY <1>7, <2>4
  <2>6. \A i \in 1..n : sanctionLog[i] \in T BY <1>1, <2>1, <2>2
  <2>7. sanctionLog \in [1..n -> T] BY <1>1, <1>n, <2>1, <2>6
  <2>8. sanctionLog \in Seq(T) BY <1>1, <2>7
  <2>. QED BY <2>5, <2>8
<1>10. /\ \E S : L \in Seq(S)
       /\ DOMAIN L = 1..(n + c) /\ Len(L) = n + c
       /\ \A i \in 1..n : L[i] = sanctionLog[i]
       /\ \A i \in (n + 1)..(n + c) : L[i].kind = "candidate" /\ L[i].subject \in E
  <2>1. PICK S : sanctionLog \in Seq(S) /\ g \in Seq(S) BY <1>9
  <2>2. Len(g) = c BY <1>7
  <2>3. /\ L \in Seq(S) /\ Len(L) = Len(sanctionLog) + Len(g)
        /\ \A i \in 1..(Len(sanctionLog) + Len(g)) :
             L[i] = IF i <= Len(sanctionLog) THEN sanctionLog[i] ELSE g[i - Len(sanctionLog)]
    BY <1>4, <1>C, <1>g, <2>1, ConcatProperties
  <2>4. /\ Len(L) = n + c
        /\ \A i \in 1..(n + c) : L[i] = IF i <= n THEN sanctionLog[i] ELSE g[i - n]
    BY <1>n, <2>2, <2>3
  <2>5. DOMAIN L = 1..(n + c) BY <2>3, <2>4, LenProperties
  <2>6. \A i \in 1..n : L[i] = sanctionLog[i] BY <1>1, <1>7, <2>4
  <2>7. ASSUME NEW i \in (n + 1)..(n + c) PROVE L[i].kind = "candidate" /\ L[i].subject \in E
    <3>1. i \in 1..(n + c) /\ ~(i <= n) /\ i - n \in 1..c BY <1>1, <1>7
    <3>. QED BY <1>8, <2>4, <3>1
  <2>. QED BY <2>3, <2>4, <2>5, <2>6, <2>7
<1>of2. PICK of2 : of2 = [i \in 1..(n + c) |-> IF i <= n THEN of[i] ELSE M] OBVIOUS
<1>11. /\ \A i \in 1..n : of2[i] = of[i]
       /\ \A i \in (n + 1)..(n + c) : of2[i] = M
  BY <1>1, <1>7, <1>of2
<1>12. \A i \in 1..(n + c) : i \in 1..n \/ i \in (n + 1)..(n + c) BY <1>1, <1>7
<1>13. publishedLists' = publishedLists BY <1>5
<1>s1. ASSUME NEW i \in DOMAIN L
       PROVE  /\ L[i].kind \in Kind /\ of2[i] \in DOMAIN publishedLists
              /\ L[i].kind \in {"subject", "candidate"} =>
                   L[i].subject \in Parsed(publishedLists[of2[i]])
  <2>1. CASE i \in 1..n
    <3>1. /\ sanctionLog[i].kind \in Kind /\ of[i] \in 1..M
          /\ sanctionLog[i].kind \in {"subject", "candidate"} =>
               sanctionLog[i].subject \in Parsed(publishedLists[of[i]])
      BY <1>1, <1>of, <2>1 DEF Structure
    <3>. QED BY <1>1, <1>10, <1>11, <2>1, <3>1
  <2>2. CASE i \in (n + 1)..(n + c) BY <1>1, <1>2, <1>10, <1>11, <2>2 DEF Kind
  <2>. QED BY <1>10, <1>12, <2>1, <2>2
<1>s2. ASSUME NEW i \in DOMAIN L, NEW k \in DOMAIN L, i < k
       PROVE  /\ of2[i] <= of2[k]
              /\ of2[i] = of2[k] /\ L[i].kind \in {"end", "candidate"} => L[k].kind = "candidate"
  <2>1. CASE k \in 1..n
    <3>1. i \in 1..n BY <1>1, <1>10, <1>s2, <2>1
    <3>2. /\ of[i] <= of[k]
          /\ of[i] = of[k] /\ sanctionLog[i].kind \in {"end", "candidate"} =>
               sanctionLog[k].kind = "candidate"
      BY <1>1, <1>of, <1>s2, <2>1, <3>1 DEF Structure
    <3>. QED BY <1>10, <1>11, <2>1, <3>1, <3>2
  <2>2. CASE k \in (n + 1)..(n + c)
    <3>1. of2[k] = M /\ L[k].kind = "candidate" BY <1>10, <1>11, <2>2
    <3>2. of2[i] \in 1..M BY <1>1, <1>s1
    <3>. QED BY <1>1, <3>1, <3>2
  <2>. QED BY <1>10, <1>12, <2>1, <2>2
<1>s3. ASSUME NEW i \in DOMAIN L, i + 1 \in DOMAIN L
       PROVE  IF L[i + 1].kind = "begin"
                THEN of2[i + 1] = of2[i] + 1 /\ L[i].kind \in {"end", "candidate"}
                ELSE /\ of2[i + 1] = of2[i]
                     /\ L[i + 1].kind = "candidate" <=> L[i].kind \in {"end", "candidate"}
  <2>1. CASE i + 1 \in 1..n
    <3>1. i \in 1..n BY <1>1, <1>10, <2>1
    <3>2. IF sanctionLog[i + 1].kind = "begin"
            THEN of[i + 1] = of[i] + 1 /\ sanctionLog[i].kind \in {"end", "candidate"}
            ELSE /\ of[i + 1] = of[i]
                 /\ sanctionLog[i + 1].kind = "candidate" <=>
                      sanctionLog[i].kind \in {"end", "candidate"}
      BY <1>1, <1>of, <2>1, <3>1 DEF Structure
    <3>. QED BY <1>10, <1>11, <2>1, <3>1, <3>2
  <2>2. CASE i + 1 \in (n + 1)..(n + c)
    <3>1. of2[i + 1] = M /\ L[i + 1].kind = "candidate" BY <1>10, <1>11, <2>2
    <3>2. of2[i] = M /\ L[i].kind \in {"end", "candidate"}
      <4>1. CASE i = n BY <1>1, <1>3, <1>10, <1>11, <4>1
      <4>2. CASE i # n
        <5>1. i \in (n + 1)..(n + c) BY <1>1, <1>7, <1>10, <2>2, <4>2
        <5>. QED BY <1>10, <1>11, <5>1
      <4>. QED BY <4>1, <4>2
    <3>. QED BY <3>1, <3>2
  <2>. QED BY <1>10, <1>12, <1>s3, <2>1, <2>2
<1>s4. L # <<>> /\ L[1].kind = "begin" /\ of2[1] = 1
  <2>1. 1 \in 1..n /\ 1 \in 1..(n + c) BY <1>1, <1>3, <1>7
  <2>. QED BY <1>3, <1>10, <1>11, <2>1
<1>s5. L[n + c].kind \in {"end", "candidate"} /\ of2[n + c] = M
  <2>1. CASE c = 0
    <3>1. n + c = n /\ n \in 1..n BY <1>1, <1>3, <2>1
    <3>. QED BY <1>3, <1>10, <1>11, <3>1
  <2>2. CASE c # 0
    <3>1. n + c \in (n + 1)..(n + c) BY <1>1, <1>7, <2>2
    <3>. QED BY <1>10, <1>11, <3>1
  <2>. QED BY <2>1, <2>2
<1>s6. ASSUME NEW m \in DOMAIN publishedLists, NEW s \in Parsed(publishedLists[m])
       PROVE  \E i \in DOMAIN L : of2[i] = m /\ L[i].kind = "subject" /\ L[i].subject = s
  <2>1. PICK i \in 1..n :
          of[i] = m /\ sanctionLog[i].kind = "subject" /\ sanctionLog[i].subject = s
    BY <1>1, <1>of DEF Structure
  <2>2. i \in DOMAIN L BY <1>1, <1>7, <1>10
  <2>. QED BY <1>10, <1>11, <2>1, <2>2
<1>14. Structure(of2)'
  BY <1>L, <1>m, <1>10, <1>13, <1>s1, <1>s2, <1>s3, <1>s4, <1>s5, <1>s6 DEF Structure
<1>15. SanctionsType'
  <2>1. projected' \in 0..Len(sanctionLog')
    <3>1. projected \in 0..n BY <1>0, <1>n DEF SanctionsType
    <3>. QED BY <1>1, <1>5, <1>7, <1>10, <1>L, <3>1
  <2>. QED BY <1>0, <1>5, <1>10, <1>L, <2>1 DEF SanctionsType
<1>16. RunInv' BY <1>5 DEF RunInv, SanctionsIdle
<1>17. Grown
  <2>1. \A i \in 1..n : i \in DOMAIN L BY <1>1, <1>7, <1>10
  <2>. QED BY <1>0, <1>1, <1>5, <1>10, <1>15, <1>L, <2>1 DEF Grown
<1>18. Sink(of2)' BY <1>1, <1>11, <1>17, <1>of, SinkUntouched
<1>. QED BY <1>14, <1>15, <1>16, <1>18 DEF SanctionsInv

LEMMA SanctionsStep ==
  ASSUME SanctionsInv, [SanctionsNext]_sanctionVars
  PROVE  SanctionsInv'
<1>1. CASE ListChanges \/ DownloadList \/ SanctionsRunDies BY <1>1, RunsMoveOnly
<1>2. CASE EmitSanctions BY <1>2, EmitSanctionsKeeps
<1>3. CASE EmitReviewCandidates BY <1>3, EmitReviewCandidatesKeeps
<1>4. CASE SinkProjects BY <1>4, SinkProjectsKeeps
<1>5. CASE SinkRestarts BY <1>5, SinkRestartsKeeps
<1>6. CASE UNCHANGED sanctionVars BY <1>6, SanctionsStutter
<1>. QED BY <1>1, <1>2, <1>3, <1>4, <1>5, <1>6 DEF SanctionsNext

LEMMA SanctionsInvSuffices == ASSUME SanctionsInv PROVE SanctionsFollowTheList
<1>0. SanctionsType BY DEF SanctionsInv
<1>of. PICK of : Structure(of) /\ Sink(of) BY DEF SanctionsInv
<1>p. PICK p : p = projected OBVIOUS
<1>1. /\ DOMAIN sanctionLog = 1..Len(sanctionLog) /\ Len(sanctionLog) \in Nat
      /\ DOMAIN publishedLists = 1..Len(publishedLists) /\ Len(publishedLists) \in Nat
      /\ p \in Nat /\ p <= Len(sanctionLog)
  BY <1>0, <1>p, LogLen
<1>. SUFFICES ASSUME ~torn, ~bracket.open
             PROVE /\ sanctioned =
                        IF Cardinality(SinkApplied("end")) = 0 THEN {}
                        ELSE {s \in publishedLists[Cardinality(SinkApplied("end"))] :
                                ListedAs[s].reference}
                   /\ attributed = Proposed
  BY DEF SanctionsFollowTheList, Proposed
<1>2. ~Within BY <1>of DEF Sink
<1>3. Cardinality(SinkApplied("end")) = IF p = 0 THEN 0 ELSE of[p] BY <1>p, <1>2, <1>of DEF Sink
<1>4. /\ sanctioned = IF p = 0 THEN {} ELSE Parsed(publishedLists[of[p]])
      /\ attributed = Proposed
  BY <1>p, <1>of DEF Sink
<1>5. p # 0 => of[p] # 0
  <2>. SUFFICES ASSUME p # 0 PROVE of[p] # 0 OBVIOUS
  <2>1. p \in DOMAIN sanctionLog BY <1>1
  <2>2. of[p] \in 1..Len(publishedLists) BY <1>1, <1>of, <2>1 DEF Structure
  <2>. QED BY <1>1, <2>2
<1>. QED BY <1>3, <1>4, <1>5 DEF Parsed

\* load_eu_sanctions.py: between brackets the graph shows the list of the last
\* bracket the sink applied, for any lists, runs that die between their two
\* batches, and restarts of the sink, but after one within a bracket until the
\* next is applied whole.
THEOREM SanctionsAreFollowed == SanctionsSpec => []SanctionsFollowTheList
<1>1. SanctionsInit => SanctionsInv BY SanctionsInitially
<1>2. SanctionsInv /\ [SanctionsNext]_sanctionVars => SanctionsInv' BY SanctionsStep
<1>3. SanctionsInv => SanctionsFollowTheList BY SanctionsInvSuffices
<1>. QED BY <1>1, <1>2, <1>3, PTL DEF SanctionsSpec

----------------------------------------------------------------------------
(* EciRegister: an initiative that was listed when the run began is found, or is *)
(* on a page that is still to come, however the register grows meanwhile.  *)

Initiative == 1..MaxInitiatives
EciEntry == [id : Initiative, support : Nat]

OncePerId(entries) == \A d, e \in entries : d.id = e.id => d = e

\* The newest initiative comes first, and they are numbered as they came.
NewestFirst(s) ==
  /\ s \in Seq(Initiative) /\ Len(s) <= MaxInitiatives
  /\ \A k \in DOMAIN s : s[k] = Len(s) + 1 - k

EciRunSet ==
  [pc : {"idle", "search", "details", "parsed", "emitted", "over"},
   offset : Nat, entries : SUBSET EciEntry, had : UNION {[S -> Nat] : S \in SUBSET Initiative}]

EciTypes ==
  /\ NewestFirst(search) /\ support \in [Initiative -> Nat]
  /\ \A file \in keptFiles : file \in SUBSET EciEntry /\ OncePerId(file)
  /\ eciRun \in EciRunSet
  /\ OncePerId(eciRun.entries)

\* What a run has seen, it saw no earlier than it began.
HadIsOld ==
  \A i \in DOMAIN eciRun.had :
    /\ i \in ToSet(search) /\ eciRun.had[i] <= support[i]
    /\ \A e \in eciRun.entries : e.id = i => eciRun.had[i] <= e.support

\* An initiative that was listed is found, or on a page that is still to come.
NoneIsPassed ==
  /\ eciRun.pc \in {"search", "details"} => FoundIds \subseteq ToSet(search)
  /\ eciRun.pc = "search" =>
       \A i \in DOMAIN eciRun.had \ FoundIds :
         \E k \in DOMAIN search : search[k] = i /\ k > eciRun.offset
  /\ eciRun.pc \notin {"idle", "search"} => DOMAIN eciRun.had \subseteq FoundIds

\* What was emitted is what was found.
Tells(counts) ==
  \A e \in eciRun.entries : e.id \in DOMAIN counts /\ counts[e.id] = e.support
EciWritten ==
  /\ eciRun.pc \in {"emitted", "over"} => Tells(petitions)
  /\ eciRun.pc = "over" => Tells(series)

EciInv == EciTypes /\ HadIsOld /\ NoneIsPassed /\ EciWritten

LEMMA LesserOfTwo ==
  ASSUME NEW a \in Int, NEW b \in Int
  PROVE  Min({a, b}) = IF a <= b THEN a ELSE b
  BY DEF Min

\* The page holds what is at the next positions.
LEMMA SearchPageIs ==
  ASSUME EciTypes
  PROVE  LET o == eciRun.offset IN
         /\ \A k \in DOMAIN search : o < k /\ k <= o + EciPage => search[k] \in ToSet(SearchPage)
         /\ ToSet(SearchPage) \subseteq ToSet(search)
         /\ SearchPage = <<>> => Len(search) <= o
<1>. DEFINE o == eciRun.offset
           m == IF Len(search) <= o + EciPage THEN Len(search) ELSE o + EciPage
<1>1. o \in Nat /\ search \in Seq(Initiative) /\ Len(search) \in Nat /\ EciPage \in Nat \ {0}
  BY EciAssumption DEF EciTypes, EciRunSet, NewestFirst
<1>2. SearchPage = SubSeq(search, o + 1, m)
  <2>1. Min({Len(search), o + EciPage}) = m BY <1>1, LesserOfTwo
  <2>. QED BY <2>1 DEF SearchPage
<1>3. m \in Nat /\ m <= Len(search) BY <1>1
<1>. HIDE DEF o, m
<1>4. CASE o + 1 <= m
  <2>1. /\ Len(SearchPage) = m - o
        /\ \A k \in 1..(m - o) : SearchPage[k] = search[o + k]
        /\ SearchPage \in Seq(Initiative)
    BY <1>1, <1>2, <1>3, <1>4, SubSeqProperties
  <2>2. ToSet(SearchPage) = {search[o + k] : k \in 1..(m - o)}
    BY <2>1 DEF ToSet
  <2>3. \A k \in 1..(m - o) : o + k \in DOMAIN search
    BY <1>1, <1>3
  <2>4. ASSUME NEW k \in DOMAIN search, o < k, k <= o + EciPage
        PROVE  search[k] \in ToSet(SearchPage)
    <3>1. k - o \in 1..(m - o) /\ o + (k - o) = k BY <1>1, <2>4 DEF m
    <3>. QED BY <2>2, <3>1
  <2>5. SearchPage # <<>> BY <1>1, <1>3, <1>4, <2>1
  <2>. QED BY <2>2, <2>3, <2>4, <2>5 DEF ToSet, o
<1>5. CASE ~(o + 1 <= m)
  <2>1. SearchPage = <<>> BY <1>1, <1>2, <1>3, <1>5, SubSeqProperties
  <2>2. Len(search) <= o BY <1>1, <1>3, <1>5 DEF m
  <2>. QED BY <1>1, <2>1, <2>2 DEF ToSet, o
<1>. QED BY <1>4, <1>5

LEMMA SearchSet ==
  ASSUME NEW s, NewestFirst(s)
  PROVE  ToSet(s) = 1..Len(s) /\ Len(s) \in Nat
<1>1. Len(s) \in Nat /\ DOMAIN s = 1..Len(s)
  BY DEF NewestFirst
<1>2. ASSUME NEW i \in 1..Len(s) PROVE i \in ToSet(s)
  <2>1. Len(s) + 1 - i \in DOMAIN s /\ s[Len(s) + 1 - i] = i
    BY <1>1 DEF NewestFirst
  <2>. QED BY <2>1 DEF ToSet
<1>3. \A k \in DOMAIN s : s[k] \in 1..Len(s)
  BY <1>1 DEF NewestFirst
<1>. QED BY <1>1, <1>2, <1>3 DEF ToSet

\* A run has gone through the register when it has as many as there are, or
\* when there is no more to read.
LEMMA LastIsEnough ==
  ASSUME EciTypes, NEW entries \in SUBSET EciEntry, OncePerId(entries),
         NEW found, found = {e.id : e \in entries}, found \subseteq ToSet(search),
         Cardinality(entries) >= Len(search)
  PROVE  found = ToSet(search)
<1>1. NewestFirst(search) BY DEF EciTypes
<1>2. IsFiniteSet(ToSet(search)) /\ Cardinality(ToSet(search)) = Len(search)
  <2>1. ToSet(search) = 1..Len(search) /\ Len(search) \in Nat
    BY <1>1, SearchSet
  <2>2. IsFiniteSet(1..Len(search)) /\ Cardinality(1..Len(search)) = Len(search)
    BY <2>1, FS_Interval
  <2>. QED BY <2>1, <2>2
<1>3. IsFiniteSet(found) BY <1>2, FS_Subset
<1>. DEFINE ids == [e \in entries |-> e.id]
<1>4. ids \in Injection(entries, found)
  BY DEF Injection, IsInjective, OncePerId
<1>5. Cardinality(entries) <= Cardinality(found) /\ IsFiniteSet(entries)
  BY <1>3, <1>4, FS_Injection
<1>6. Cardinality(found) <= Cardinality(ToSet(search))
  BY <1>2, FS_Subset
<1>7. Cardinality(found) = Cardinality(ToSet(search))
  BY <1>1, <1>2, <1>3, <1>5, <1>6, FS_CardinalityType, SearchSet
<1>. QED BY <1>2, <1>7, FS_Subset

LEMMA CountsTell ==
  ASSUME NEW entries, OncePerId(entries), NEW old
  PROVE  LET counts == ToldAnew(old, Counts(entries)) IN
         \A e \in entries : e.id \in DOMAIN counts /\ counts[e.id] = e.support
<1>1. ASSUME NEW e \in entries PROVE (CHOOSE d \in entries : d.id = e.id) = e
  BY <1>1 DEF OncePerId
<1>2. DOMAIN Counts(entries) = {e.id : e \in entries}
      /\ \A e \in entries : Counts(entries)[e.id] = e.support
  BY <1>1 DEF Counts
<1>. QED BY <1>2 DEF ToldAnew

LEMMA EciTypesInit == EciInit => EciInv
<1>. SUFFICES ASSUME EciInit PROVE EciInv OBVIOUS
<1>1. PICK n \in 0..MaxInitiatives : search = Reverse([i \in 1..n |-> i])
  BY DEF EciInit
<1>2. n \in Nat /\ n <= MaxInitiatives /\ MaxInitiatives \in Nat
  BY EciAssumption
<1>3. [i \in 1..n |-> i] \in Seq(Initiative) /\ Len([i \in 1..n |-> i]) = n
  BY <1>2, LenProperties, IsASeq DEF Initiative
<1>4. search = [i \in 1..n |-> n + 1 - i]
  BY <1>1, <1>2, <1>3 DEF Reverse
<1>5. NewestFirst(search)
  BY <1>2, <1>4, LenProperties, IsASeq DEF NewestFirst, Initiative
<1>6. <<>> \in [{} -> Nat]
  OBVIOUS
<1>7. eciRun \in EciRunSet
  BY <1>6 DEF EciInit, EciIdle, EciRunSet
<1>8. EciTypes
  BY <1>5, <1>7 DEF EciTypes, EciInit, EciIdle, OncePerId, Initiative
<1>. QED BY <1>8 DEF EciInit, EciInv, EciIdle, HadIsOld, NoneIsPassed, EciWritten

\* The run is a record of four fields, whichever of them a step changes.
LEMMA EciRunIs ==
  ASSUME EciTypes
  PROVE  /\ eciRun = [pc |-> eciRun.pc, offset |-> eciRun.offset, entries |-> eciRun.entries,
                      had |-> eciRun.had]
         /\ eciRun.offset \in Nat /\ eciRun.entries \in SUBSET EciEntry
         /\ eciRun.had \in UNION {[S -> Nat] : S \in SUBSET Initiative}
  BY DEF EciTypes, EciRunSet

LEMMA RegisterGrowsKeeps ==
  ASSUME EciInv, RegisterGrows
  PROVE  EciInv'
<1>1. /\ EciTypes /\ NewestFirst(search) /\ support \in [Initiative -> Nat]
      /\ ToSet(search) = 1..Len(search) /\ Len(search) \in Nat /\ Len(search) <= MaxInitiatives
      /\ MaxInitiatives \in Nat
  BY SearchSet, EciAssumption DEF EciInv, EciTypes, NewestFirst
<1>2. UNCHANGED <<keptFiles, petitions, series, eciRun>>
  BY DEF RegisterGrows
<1>3. CASE Len(search) < MaxInitiatives /\ search' = <<Len(search) + 1>> \o search
           /\ UNCHANGED support
  <2>1. /\ Len(search') = Len(search) + 1
        /\ \A k \in 1..Len(search) : search'[k + 1] = search[k]
        /\ search'[1] = Len(search) + 1
    BY <1>1, <1>3 DEF NewestFirst
  <2>2. search' \in Seq(Initiative)
    BY <1>1, <1>3 DEF NewestFirst, Initiative
  <2>3. NewestFirst(search')
    <3>. SUFFICES ASSUME NEW k \in DOMAIN search' PROVE search'[k] = Len(search') + 1 - k
      BY <1>1, <1>3, <2>1, <2>2 DEF NewestFirst
    <3>1. k \in 1..Len(search') BY <2>2
    <3>2. CASE k = 1 BY <2>1, <1>1, <3>2
    <3>3. CASE k # 1
      <4>1. k - 1 \in 1..Len(search) /\ (k - 1) + 1 = k BY <1>1, <2>1, <3>1, <3>3
      <4>2. k - 1 \in DOMAIN search BY <1>1, <4>1 DEF NewestFirst
      <4>3. search'[k] = search[k - 1] /\ search[k - 1] = Len(search) + 1 - (k - 1)
        BY <1>1, <2>1, <4>1, <4>2 DEF NewestFirst
      <4>. QED BY <1>1, <2>1, <3>1, <4>3
    <3>. QED BY <3>2, <3>3
  <2>4. ToSet(search') = 1..Len(search') BY <2>3, SearchSet
  <2>5. EciTypes' BY <1>1, <1>2, <1>3, <2>3 DEF EciTypes
  <2>6. ToSet(search) \subseteq ToSet(search') BY <1>1, <2>1, <2>4
  <2>7. HadIsOld' BY <1>2, <1>3, <2>6 DEF EciInv, HadIsOld
  <2>8. ASSUME NEW k \in DOMAIN search
        PROVE  k + 1 \in DOMAIN search' /\ search'[k + 1] = search[k] /\ k \in Nat
    <3>1. k \in 1..Len(search) BY <1>1 DEF NewestFirst
    <3>2. DOMAIN search' = 1..Len(search') BY <2>2
    <3>. QED BY <1>1, <2>1, <3>1, <3>2
  <2>9. NoneIsPassed'
    <3>1. ASSUME eciRun.pc = "search", NEW i \in DOMAIN eciRun.had \ FoundIds
          PROVE  \E k \in DOMAIN search' : search'[k] = i /\ k > eciRun.offset
      <4>1. PICK k \in DOMAIN search : search[k] = i /\ k > eciRun.offset
        BY <3>1 DEF EciInv, NoneIsPassed
      <4>. QED BY <1>1, <2>8, <4>1, EciRunIs
    <3>2. FoundIds' = FoundIds BY <1>2 DEF FoundIds
    <3>. QED BY <1>2, <2>6, <3>1, <3>2 DEF EciInv, NoneIsPassed
  <2>10. EciWritten' BY <1>2 DEF EciInv, EciWritten, Tells
  <2>. QED BY <2>5, <2>7, <2>9, <2>10 DEF EciInv
<1>4. ASSUME NEW i \in ToSet(search), support' = [support EXCEPT ![i] = @ + 1],
             UNCHANGED search
      PROVE  EciInv'
  <2>1. i \in Initiative BY <1>1 DEF Initiative
  <2>2. support' \in [Initiative -> Nat] /\ \A n \in Initiative : support[n] <= support'[n]
    BY <1>1, <1>4, <2>1
  <2>3. EciTypes' BY <1>1, <1>2, <1>4, <2>2 DEF EciTypes
  <2>4. HadIsOld'
    <3>. SUFFICES ASSUME NEW n \in DOMAIN eciRun.had
                 PROVE  n \in ToSet(search) /\ eciRun.had[n] <= support'[n]
      BY <1>2, <1>4 DEF EciInv, HadIsOld
    <3>1. n \in ToSet(search) /\ eciRun.had[n] <= support[n] /\ n \in Initiative
      BY <1>1 DEF EciInv, HadIsOld, Initiative
    <3>2. eciRun.had[n] \in Nat BY EciRunIs, <1>1
    <3>. QED BY <1>1, <2>2, <3>1, <3>2
  <2>5. NoneIsPassed' BY <1>2, <1>4 DEF EciInv, NoneIsPassed, FoundIds
  <2>6. EciWritten' BY <1>2 DEF EciInv, EciWritten, Tells
  <2>. QED BY <2>3, <2>4, <2>5, <2>6 DEF EciInv
<1>. QED BY <1>3, <1>4 DEF RegisterGrows

LEMMA FetchSearchPageKeeps ==
  ASSUME EciInv, FetchSearchPage
  PROVE  EciInv'
<1>. DEFINE new == {[id |-> i, support |-> support[i]] : i \in Fresh}
           entries == eciRun.entries \union new
           found == {e.id : e \in entries}
           o == eciRun.offset
<1>1. /\ EciTypes /\ NewestFirst(search) /\ support \in [Initiative -> Nat]
      /\ ToSet(search) = 1..Len(search) /\ Len(search) \in Nat /\ Len(search) <= MaxInitiatives
      /\ MaxInitiatives \in Nat /\ o \in Nat /\ EciPage \in Nat \ {0}
  BY SearchSet, EciAssumption, EciRunIs DEF EciInv, EciTypes, NewestFirst
<1>2. /\ eciRun.pc = "search"
      /\ eciRun' = [eciRun EXCEPT !.entries = entries, !.offset = @ + EciPage,
                      !.pc = IF LastSearch(entries) THEN "details" ELSE @]
      /\ UNCHANGED <<search, support, keptFiles, petitions, series>>
  BY DEF FetchSearchPage
<1>3. Fresh \subseteq ToSet(search) /\ Fresh \subseteq Initiative
  BY <1>1, SearchPageIs DEF Fresh, Initiative
<1>4. new \subseteq EciEntry
  BY <1>1, <1>3 DEF EciEntry
<1>5. entries \in SUBSET EciEntry /\ OncePerId(entries)
  <2>1. \A d \in eciRun.entries, e \in new : d.id # e.id
    BY DEF Fresh, FoundIds
  <2>2. \A d, e \in new : d.id = e.id => d = e
    OBVIOUS
  <2>3. OncePerId(eciRun.entries) /\ eciRun.entries \in SUBSET EciEntry
    BY <1>1 DEF EciTypes, EciRunSet
  <2>. QED BY <1>4, <2>1, <2>2, <2>3 DEF OncePerId
<1>6. found = FoundIds \union Fresh
  <2>1. {e.id : e \in new} = Fresh
    <3>1. \A i \in Fresh : [id |-> i, support |-> support[i]] \in new OBVIOUS
    <3>2. \A e \in new : e.id \in Fresh OBVIOUS
    <3>. QED BY <3>1, <3>2
  <2>. QED BY <2>1 DEF FoundIds
<1>7. /\ eciRun'.entries = entries /\ eciRun'.offset = o + EciPage /\ eciRun'.had = eciRun.had
      /\ eciRun'.pc = (IF LastSearch(entries) THEN "details" ELSE "search")
      /\ FoundIds' = found
  BY <1>1, <1>2, EciRunIs DEF FoundIds
<1>8. EciTypes'
  <2>1. eciRun' = [pc |-> IF LastSearch(entries) THEN "details" ELSE "search",
                   offset |-> o + EciPage, entries |-> entries, had |-> eciRun.had]
    BY <1>1, <1>2, EciRunIs
  <2>. HIDE DEF entries
  <2>2. eciRun' \in EciRunSet
    BY <1>1, <1>5, <2>1, EciRunIs DEF EciRunSet
  <2>. QED BY <1>1, <1>2, <1>5, <1>7, <2>2 DEF EciTypes
<1>. HIDE DEF entries, found
<1>9. HadIsOld'
  <2>. SUFFICES ASSUME NEW i \in DOMAIN eciRun.had, NEW e \in entries, e.id = i
               PROVE  eciRun.had[i] <= e.support
    BY <1>2, <1>7 DEF EciInv, HadIsOld
  <2>1. CASE e \in eciRun.entries BY <2>1 DEF EciInv, HadIsOld
  <2>2. CASE e \in new BY <2>2 DEF EciInv, HadIsOld
  <2>. QED BY <2>1, <2>2 DEF entries
<1>10. found \subseteq ToSet(search)
  BY <1>2, <1>3, <1>6 DEF EciInv, NoneIsPassed
<1>11. ASSUME NEW i \in DOMAIN eciRun.had \ found
       PROVE  \E k \in DOMAIN search : search[k] = i /\ k > o + EciPage
  <2>1. PICK k \in DOMAIN search : search[k] = i /\ k > o
    BY <1>2, <1>6, <1>11 DEF EciInv, NoneIsPassed
  <2>2. ~(k <= o + EciPage)
    <3>. SUFFICES ASSUME k <= o + EciPage PROVE FALSE OBVIOUS
    <3>1. i \in ToSet(SearchPage) BY <1>1, <2>1, SearchPageIs
    <3>. QED BY <1>6, <1>11, <3>1 DEF Fresh
  <2>3. k \in Nat BY <1>1, <2>1 DEF NewestFirst
  <2>. QED BY <1>1, <2>1, <2>2, <2>3
<1>12. ASSUME LastSearch(entries) PROVE DOMAIN eciRun.had \subseteq found
  <2>1. CASE Cardinality(entries) >= Len(search)
    <3>1. found = ToSet(search)
      BY <1>1, <1>5, <1>10, <2>1, LastIsEnough DEF found
    <3>. QED BY <3>1 DEF EciInv, HadIsOld
  <2>2. CASE SearchPage = <<>>
    <3>1. Len(search) <= o BY <1>1, <2>2, SearchPageIs
    <3>. SUFFICES ASSUME NEW i \in DOMAIN eciRun.had \ found PROVE FALSE OBVIOUS
    <3>2. PICK k \in DOMAIN search : k > o + EciPage BY <1>11
    <3>3. k \in 1..Len(search) BY <1>1, <3>2 DEF NewestFirst
    <3>. QED BY <1>1, <3>1, <3>2, <3>3
  <2>. QED BY <1>12, <2>1, <2>2 DEF LastSearch
<1>13. NoneIsPassed'
  BY <1>2, <1>7, <1>10, <1>11, <1>12 DEF NoneIsPassed
<1>14. EciWritten'
  BY <1>7 DEF EciWritten
<1>. QED BY <1>8, <1>9, <1>13, <1>14 DEF EciInv

LEMMA EciRunStarts ==
  ASSUME EciInv, StartEciRun \/ ReplayFile \/ EndEciRun
  PROVE  EciInv'
<1>1. /\ EciTypes /\ UNCHANGED <<search, support, keptFiles, petitions, series>>
      /\ ToSet(search) = 1..Len(search) /\ Len(search) \in Nat /\ Len(search) <= MaxInitiatives
      /\ MaxInitiatives \in Nat /\ NewestFirst(search) /\ support \in [Initiative -> Nat]
  BY SearchSet, EciAssumption
     DEF EciInv, EciTypes, NewestFirst, StartEciRun, ReplayFile, EndEciRun
<1>2. ToSet(search) \subseteq Initiative /\ <<>> \in [{} -> Nat]
  BY <1>1 DEF Initiative
<1>3. CASE StartEciRun
  <2>. DEFINE had == [i \in ToSet(search) |-> support[i]]
  <2>1. eciRun' = [pc |-> "search", offset |-> 0, entries |-> {}, had |-> had]
    BY <1>3 DEF StartEciRun, EciIdle
  <2>2. had \in [ToSet(search) -> Nat] BY <1>1, <1>2
  <2>3. EciTypes'
    <3>1. eciRun' \in EciRunSet BY <1>2, <2>1, <2>2 DEF EciRunSet
    <3>. QED BY <1>1, <2>1, <3>1 DEF EciTypes, OncePerId
  <2>4. HadIsOld'
    <3>1. \A i \in ToSet(search) : had[i] <= support[i] BY <1>1, <1>2
    <3>. QED BY <1>1, <2>1, <3>1 DEF HadIsOld
  <2>5. NoneIsPassed'
    <3>1. ASSUME NEW i \in ToSet(search) PROVE \E k \in DOMAIN search : search[k] = i /\ k > 0
      <4>1. PICK k \in DOMAIN search : search[k] = i BY <3>1 DEF ToSet
      <4>2. k > 0 BY <1>1 DEF NewestFirst
      <4>. QED BY <4>1, <4>2
    <3>. QED BY <1>1, <2>1, <3>1 DEF NoneIsPassed, FoundIds
  <2>6. EciWritten' BY <2>1 DEF EciWritten
  <2>. QED BY <2>3, <2>4, <2>5, <2>6 DEF EciInv
<1>4. CASE ReplayFile
  <2>1. PICK file \in keptFiles : eciRun' = [EciIdle EXCEPT !.pc = "parsed", !.entries = file]
    BY <1>4 DEF ReplayFile
  <2>2. eciRun' = [pc |-> "parsed", offset |-> 0, entries |-> file, had |-> <<>>]
    BY <2>1 DEF EciIdle
  <2>3. file \in SUBSET EciEntry /\ OncePerId(file) BY <1>1 DEF EciTypes
  <2>4. EciTypes'
    <3>1. eciRun' \in EciRunSet BY <1>2, <2>2, <2>3 DEF EciRunSet
    <3>. QED BY <1>1, <2>2, <2>3, <3>1 DEF EciTypes
  <2>. QED BY <2>2, <2>4 DEF EciInv, HadIsOld, NoneIsPassed, EciWritten
<1>5. CASE EndEciRun
  <2>1. eciRun' = [pc |-> "idle", offset |-> 0, entries |-> {}, had |-> <<>>]
    BY <1>5 DEF EndEciRun, EciIdle
  <2>2. EciTypes'
    <3>1. eciRun' \in EciRunSet BY <1>2, <2>1 DEF EciRunSet
    <3>. QED BY <1>1, <2>1, <3>1 DEF EciTypes, OncePerId
  <2>. QED BY <2>1, <2>2 DEF EciInv, HadIsOld, NoneIsPassed, EciWritten
<1>. QED BY <1>3, <1>4, <1>5

LEMMA EciRunGoesOn ==
  ASSUME EciInv, KeepSnapshot \/ EmitPetitions \/ WriteSeries
  PROVE  EciInv'
<1>1. /\ EciTypes /\ UNCHANGED <<search, support>> /\ eciRun.pc \in {"details", "parsed", "emitted"}
      /\ eciRun'.pc \in {"parsed", "emitted", "over"} /\ eciRun' = [eciRun EXCEPT !.pc = eciRun'.pc]
      /\ keptFiles' \subseteq keptFiles \union {eciRun.entries}
  BY EciRunIs DEF EciInv, KeepSnapshot, EmitPetitions, WriteSeries
<1>2. /\ eciRun' = [pc |-> eciRun'.pc, offset |-> eciRun.offset, entries |-> eciRun.entries,
                     had |-> eciRun.had]
      /\ eciRun.entries \in SUBSET EciEntry /\ OncePerId(eciRun.entries)
  BY <1>1, EciRunIs DEF EciTypes
<1>3. EciTypes'
  <2>1. eciRun' \in EciRunSet BY <1>1, <1>2, EciRunIs DEF EciRunSet
  <2>. QED BY <1>1, <1>2, <2>1 DEF EciTypes
<1>4. HadIsOld' BY <1>1, <1>2 DEF EciInv, HadIsOld
<1>5. NoneIsPassed' BY <1>1, <1>2 DEF EciInv, NoneIsPassed, FoundIds
<1>6. EciWritten'
  <2>. DEFINE counts == Counts(eciRun.entries)
  <2>1. \A old : \A e \in eciRun.entries :
          /\ e.id \in DOMAIN ToldAnew(old, counts)
          /\ ToldAnew(old, counts)[e.id] = e.support
    BY <1>2, CountsTell
  <2>2. CASE KeepSnapshot
    BY <1>2, <2>2 DEF KeepSnapshot, EciWritten
  <2>3. CASE EmitPetitions
    BY <1>2, <2>1, <2>3 DEF EmitPetitions, EciWritten, Tells
  <2>4. CASE WriteSeries
    BY <1>2, <2>1, <2>4 DEF WriteSeries, EciInv, EciWritten, Tells
  <2>. QED BY <2>2, <2>3, <2>4
<1>. QED BY <1>3, <1>4, <1>5, <1>6 DEF EciInv

LEMMA EciKeeps == EciInv /\ [EciNext]_eciVars => EciInv'
<1>. SUFFICES ASSUME EciInv, [EciNext]_eciVars PROVE EciInv' OBVIOUS
<1>1. CASE UNCHANGED eciVars
  BY <1>1 DEF eciVars, EciInv, EciTypes, HadIsOld, NoneIsPassed, FoundIds, EciWritten, Tells
<1>2. CASE EciNext
  BY <1>2, RegisterGrowsKeeps, FetchSearchPageKeeps, EciRunStarts, EciRunGoesOn DEF EciNext
<1>. QED BY <1>1, <1>2

LEMMA RunIsWhole == EciInv => SnapshotIsWhole
<1>. SUFFICES ASSUME EciInv, eciRun.pc = "over" PROVE SnapshotIsWhole
  BY DEF SnapshotIsWhole
<1>1. OncePerId(eciRun.entries) BY DEF EciInv, EciTypes
<1>2. ASSUME NEW i \in DOMAIN eciRun.had
      PROVE  /\ i \in DOMAIN petitions /\ petitions[i] >= eciRun.had[i]
             /\ i \in DOMAIN series /\ series[i] = petitions[i]
  <2>1. PICK e \in eciRun.entries : e.id = i
    BY DEF EciInv, NoneIsPassed, FoundIds
  <2>2. eciRun.had[i] <= e.support BY <2>1 DEF EciInv, HadIsOld
  <2>3. e.support \in Nat /\ eciRun.had[i] \in Nat BY EciRunIs DEF EciInv, EciEntry
  <2>4. /\ e.id \in DOMAIN petitions /\ petitions[e.id] = e.support
        /\ e.id \in DOMAIN series /\ series[e.id] = e.support
    BY DEF EciInv, EciWritten, Tells
  <2>. QED BY <2>1, <2>2, <2>3, <2>4
<1>. QED BY <1>1, <1>2 DEF SnapshotIsWhole, OncePerId

\* load_eu_petitions.py: the run that saves a file, and the replay of it, tell of every
\* initiative that was in the register when the run began, each once and with no
\* fewer supporters than it had then, for any initiatives, page size and growth of
\* the register between two pages.
THEOREM SnapshotsAreWhole == EciSpec => []SnapshotIsWhole
  BY EciTypesInit, EciKeeps, RunIsWhole, PTL DEF EciSpec

----------------------------------------------------------------------------
(* Cohesion: what a run will not announce again is in the graph, and of a  *)
(* country that was read it has every row that counts.                     *)

LEMMA LeastNumber ==
  ASSUME NEW T, T \subseteq Nat, T # {}
  PROVE  \E x \in T : \A y \in T : x <= y
<1>. DEFINE Less == {p \in Nat \X Nat : p[1] < p[2]}
<1>1. IsWellFoundedOn(Less, Nat)
  BY NatLessThanWellFounded DEF OpToRel
<1>2. ASSUME NEW x \in Nat, NEW y \in Nat, x < y
      PROVE  <<x, y>> \in Less
  BY <1>2
<1>. HIDE DEF Less
<1>3. PICK x \in T : \A y \in T : ~(<<y, x>> \in Less)
  BY <1>1, WFMin, Zenon
<1>4. ASSUME NEW y \in T
      PROVE  x <= y
  <2>1. ~(y < x)
    BY <1>2, <1>3, Zenon
  <2>. QED  BY <2>1
<1>. QED  BY <1>4

CsvRows == Seq(ProjectRow)
\* What the loader knows of a row of l's file.
ParsedRow == {ProjectOf(l, r) : l \in Land, r \in ProjectRow}

(* A CSV is parsed row by row.                                               *)

ReadUpTo(parsed, n, l, rows) ==
  parsed = [i \in 0..n |->
            IF i = 0 THEN <<>>
            ELSE IF rows[i].dated THEN Append(parsed[i - 1], ProjectOf(l, rows[i])) ELSE parsed[i - 1]]

\* Every CSV can be parsed: the first place where it could not be would be a place
\* after one up to which it was.
LEMMA CsvIsRead ==
  ASSUME NEW l, NEW rows, NEW size \in Nat
  PROVE  \E parsed : ReadUpTo(parsed, size, l, rows)
<1>. DEFINE T == {n \in Nat : ~ \E parsed : ReadUpTo(parsed, n, l, rows)}
<1>. SUFFICES ASSUME T # {} PROVE FALSE OBVIOUS
<1>1. PICK n \in T : \A k \in T : n <= k
  <2>. HIDE DEF T
  <2>1. T \subseteq Nat BY DEF T
  <2>. QED BY <2>1, LeastNumber
<1>2. n \in Nat /\ ~ \E parsed : ReadUpTo(parsed, n, l, rows) BY <1>1
<1>3. CASE n = 0
  <2>1. ReadUpTo([i \in 0..0 |-> <<>>], 0, l, rows) BY DEF ReadUpTo
  <2>. QED BY <1>2, <1>3, <2>1
<1>4. CASE n # 0
  <2>1. n - 1 \in Nat /\ n - 1 < n BY <1>2, <1>4
  <2>2. PICK before : ReadUpTo(before, n - 1, l, rows) BY <1>1, <2>1
  <2>. DEFINE step(f, i) == IF rows[i].dated THEN Append(f[i - 1], ProjectOf(l, rows[i])) ELSE f[i - 1]
             parsed == [i \in 0..n |-> IF i = n THEN step(before, n) ELSE before[i]]
  <2>3. \A i \in 0..(n - 1) : before[i] = IF i = 0 THEN <<>> ELSE step(before, i)
    BY <2>2 DEF ReadUpTo
  <2>4. \A i \in 0..(n - 1) : parsed[i] = before[i] BY <2>1
  <2>5. parsed[n] = step(parsed, n)
    <3>1. parsed[n] = step(before, n) BY <1>2
    <3>2. n - 1 \in 0..(n - 1) BY <2>1
    <3>. QED BY <3>1, <3>2, <2>4
  <2>6. \A i \in 0..n : parsed[i] = IF i = 0 THEN <<>> ELSE step(parsed, i)
    <3>. SUFFICES ASSUME NEW i \in 0..n PROVE parsed[i] = IF i = 0 THEN <<>> ELSE step(parsed, i) OBVIOUS
    <3>1. CASE i = n BY <1>4, <2>5, <3>1
    <3>2. CASE i # n
      <4>1. i \in 0..(n - 1) /\ (i # 0 => i - 1 \in 0..(n - 1)) BY <1>2, <3>2
      <4>2. i # 0 => parsed[i - 1] = before[i - 1] BY <4>1, <2>4
      <4>. HIDE DEF parsed
      <4>. QED BY <4>1, <4>2, <2>3, <2>4
    <3>. QED BY <3>1, <3>2
  <2>7. parsed = [i \in 0..n |-> IF i = 0 THEN <<>> ELSE step(parsed, i)]
    <3>1. parsed = [i \in 0..n |-> parsed[i]] OBVIOUS
    <3>. HIDE DEF parsed, step
    <3>. QED BY <3>1, <2>6
  <2>8. ReadUpTo(parsed, n, l, rows)
    <3>. HIDE DEF parsed
    <3>. QED BY <2>7 DEF ReadUpTo
  <2>. QED BY <1>2, <2>8
<1>. QED BY <1>3, <1>4

\* What was parsed is of the file, and every row that counts was parsed.
LEMMA ParsedRowsAre ==
  ASSUME NEW l \in Land, NEW rows \in CsvRows
  PROVE  /\ ParsedRows(l, rows) \in Seq(ParsedRow)
         /\ \A s \in ToSet(ParsedRows(l, rows)) : \E r \in ProjectRow : s = ProjectOf(l, r)
         /\ \A r \in ToSet(rows) : r.dated => ProjectOf(l, r) \in ToSet(ParsedRows(l, rows))
<1>. DEFINE size == Len(rows)
           Rows == {ProjectOf(l, r) : r \in ProjectRow}
<1>1. size \in Nat /\ \A i \in 1..size : rows[i] \in ProjectRow BY DEF CsvRows
<1>2. PICK parsed : ReadUpTo(parsed, size, l, rows) /\ ParsedRows(l, rows) = parsed[size]
  <2>. DEFINE chosen == CHOOSE parsed : ReadUpTo(parsed, size, l, rows)
  <2>1. ReadUpTo(chosen, size, l, rows) BY <1>1, CsvIsRead
  <2>2. ParsedRows(l, rows) = chosen[size] BY DEF ParsedRows, ReadUpTo
  <2>. QED BY <2>1, <2>2
<1>3. \A i \in 0..size :
        parsed[i] = IF i = 0 THEN <<>>
                  ELSE IF rows[i].dated THEN Append(parsed[i - 1], ProjectOf(l, rows[i])) ELSE parsed[i - 1]
  BY <1>2 DEF ReadUpTo
<1>. DEFINE Good(i) == /\ parsed[i] \in Seq(Rows)
                      /\ \A j \in 1..i : rows[j].dated =>
                           \E k \in 1..Len(parsed[i]) : parsed[i][k] = ProjectOf(l, rows[j])
           T == {i \in 0..size : ~ Good(i)}
<1>4. T = {}
  <2>. SUFFICES ASSUME T # {} PROVE FALSE OBVIOUS
  <2>1. PICK n \in T : \A k \in T : n <= k
    <3>1. T \subseteq Nat BY <1>1
    <3>. HIDE DEF T
    <3>. QED BY <3>1, LeastNumber
  <2>2. n \in 0..size /\ ~ Good(n) BY <2>1
  <2>3. CASE n = 0
    <3>1. parsed[0] = <<>> BY <1>1, <1>3
    <3>. QED BY <2>2, <2>3, <3>1
  <2>4. CASE n # 0
    <3>1. n - 1 \in 0..size /\ n - 1 < n /\ n \in 1..size BY <1>1, <2>2, <2>4
    <3>2. Good(n - 1) BY <2>1, <3>1
    <3>3. parsed[n] = IF rows[n].dated THEN Append(parsed[n - 1], ProjectOf(l, rows[n])) ELSE parsed[n - 1]
      BY <1>3, <2>2, <2>4
    <3>4. ProjectOf(l, rows[n]) \in Rows BY <1>1, <3>1
    <3>. HIDE DEF Rows
    <3>5. CASE ~ rows[n].dated
      <4>1. parsed[n] = parsed[n - 1] BY <3>3, <3>5
      <4>2. \A j \in 1..n : rows[j].dated => j \in 1..(n - 1) BY <3>1, <3>5
      <4>. QED BY <2>2, <3>2, <4>1, <4>2
    <3>6. CASE rows[n].dated
      <4>. DEFINE old == parsed[n - 1]
      <4>1. parsed[n] = Append(old, ProjectOf(l, rows[n])) /\ old \in Seq(Rows) BY <3>2, <3>3, <3>6
      <4>. HIDE DEF old
      <4>2. /\ parsed[n] \in Seq(Rows) /\ Len(parsed[n]) = Len(old) + 1 /\ Len(old) \in Nat
            /\ parsed[n][Len(old) + 1] = ProjectOf(l, rows[n])
            /\ \A k \in 1..Len(old) : parsed[n][k] = old[k]
        BY <3>4, <4>1
      <4>3. ASSUME NEW j \in 1..n, rows[j].dated
            PROVE  \E k \in 1..Len(parsed[n]) : parsed[n][k] = ProjectOf(l, rows[j])
        <5>1. CASE j = n BY <4>2, <5>1
        <5>2. CASE j # n
          <6>1. j \in 1..(n - 1) BY <3>1, <5>2
          <6>2. PICK k \in 1..Len(old) : old[k] = ProjectOf(l, rows[j])
            BY <3>2, <4>3, <6>1 DEF old
          <6>. QED BY <4>2, <6>2
        <5>. QED BY <5>1, <5>2
      <4>. QED BY <2>2, <4>2, <4>3
    <3>. QED BY <3>5, <3>6
  <2>. QED BY <2>3, <2>4
<1>5. Good(size)
  <2>1. \A i \in 0..size : Good(i)
    <3>. HIDE DEF Good
    <3>. QED BY <1>4
  <2>. HIDE DEF Good
  <2>. QED BY <1>1, <2>1
<1>6. Rows \subseteq ParsedRow BY DEF ParsedRow
<1>7. ParsedRows(l, rows) \in Seq(Rows) /\ ParsedRows(l, rows) \in Seq(ParsedRow)
  BY <1>2, <1>5, <1>6
<1>8. ToSet(ParsedRows(l, rows)) = {ParsedRows(l, rows)[k] : k \in 1..Len(ParsedRows(l, rows))}
  BY <1>7 DEF ToSet
<1>9. ASSUME NEW r \in ToSet(rows), r.dated
      PROVE  ProjectOf(l, r) \in ToSet(ParsedRows(l, rows))
  <2>1. PICK j \in 1..size : r = rows[j] BY <1>1 DEF ToSet, CsvRows
  <2>. QED BY <1>2, <1>5, <1>8, <1>9, <2>1
<1>10. \A s \in ToSet(ParsedRows(l, rows)) : s \in Rows BY <1>7, <1>8
<1>. QED BY <1>7, <1>9, <1>10
(* The inductive invariant.                                                *)

Stage == {"idle", "download", "emit", "complete", "failed"}

CohesionTypes ==
  /\ csv = [l \in Land |-> csv[l]] /\ \A l \in Land : csv[l] \in CsvRows
  /\ cohesionRun = [pc |-> cohesionRun.pc, todo |-> cohesionRun.todo, got |-> cohesionRun.got,
                    failed |-> cohesionRun.failed, seen |-> cohesionRun.seen,
                    emitted |-> cohesionRun.emitted]
  /\ cohesionRun.pc \in Stage /\ cohesionRun.todo \subseteq Land
  /\ cohesionRun.got \in Seq(ParsedRow)
  /\ cohesionRun.emitted \in Nat /\ cohesionRun.emitted <= Len(cohesionRun.got)

\* A disclosure has its ends: the first conjunct of CohesionLinksHold.
DisclosedIsLinked ==
  \A p \in DOMAIN disclosed :
    /\ disclosed[p].company # NoOne => <<p, disclosed[p].company>> \in filedBy
    /\ disclosed[p].programme # NoText => <<p, disclosed[p].programme>> \in underProgramme

\* What the run will not announce again is there.
EndsAreThere ==
  /\ cohesionRun.seen \subseteq beneficiaries
  /\ cohesionRun.pc = "emit" =>
       \A r \in ToSet(cohesionRun.got) : r.programme \in programmes \union {NoText}

\* Of a country that was parsed, each row that counts.
ReadIsWhole ==
  cohesionRun.pc # "idle" =>
    \A l \in Land \ (cohesionRun.todo \union cohesionRun.failed) : \A r \in ToSet(csv[l]) :
      r.dated => \E s \in ToSet(cohesionRun.got) : s.project = r.project

EmittedIsDisclosed ==
  /\ \A i \in 1..cohesionRun.emitted : cohesionRun.got[i].project \in DOMAIN disclosed
  /\ cohesionRun.pc \in {"emit", "complete"} => cohesionRun.todo = {}
  /\ cohesionRun.pc = "complete" =>
       cohesionRun.failed = {} /\ cohesionRun.emitted = Len(cohesionRun.got)

CohesionInv ==
  CohesionTypes /\ DisclosedIsLinked /\ EndsAreThere /\ ReadIsWhole /\ EmittedIsDisclosed

\* The next chunk goes on where the last one ended, and is empty only at the end.
LEMMA NextChunkIs ==
  ASSUME CohesionTypes
  PROVE  LET o == cohesionRun.emitted
             n == Len(NextChunk) IN
         /\ NextChunk \in Seq(ParsedRow) /\ n \in Nat /\ o + n <= Len(cohesionRun.got)
         /\ \A k \in 1..n : NextChunk[k] = cohesionRun.got[o + k]
         /\ ToSet(NextChunk) \subseteq ToSet(cohesionRun.got)
         /\ NextChunk = <<>> => o = Len(cohesionRun.got)
<1>. DEFINE o == cohesionRun.emitted
           got == cohesionRun.got
           m == IF o + CohesionChunk <= Len(got) THEN o + CohesionChunk ELSE Len(got)
<1>1. o \in Nat /\ got \in Seq(ParsedRow) /\ Len(got) \in Nat /\ o <= Len(got)
      /\ CohesionChunk \in Nat \ {0}
  BY CohesionAssumption DEF CohesionTypes
<1>2. NextChunk = SubSeq(got, o + 1, m)
  <2>1. Min({o + CohesionChunk, Len(got)}) = m BY <1>1 DEF Min
  <2>. QED BY <2>1 DEF NextChunk
<1>3. m \in Nat /\ o <= m /\ m <= Len(got) /\ (m = o => o = Len(got)) BY <1>1
<1>. HIDE DEF o, got, m
<1>4. /\ NextChunk \in Seq(ParsedRow) /\ Len(NextChunk) = m - o
      /\ \A k \in 1..(m - o) : NextChunk[k] = got[o + k]
  <2>1. CASE o + 1 <= m BY <1>1, <1>2, <1>3, <2>1, SubSeqProperties
  <2>2. CASE ~(o + 1 <= m)
    <3>1. m = o BY <1>1, <1>3, <2>2
    <3>2. NextChunk = <<>> BY <1>1, <1>2, <3>1, SubSeqProperties
    <3>. QED BY <1>1, <3>1, <3>2
  <2>. QED BY <2>1, <2>2
<1>5. m - o \in Nat BY <1>1, <1>3
<1>6. ToSet(NextChunk) \subseteq ToSet(got)
  <2>1. ToSet(NextChunk) = {NextChunk[k] : k \in 1..(m - o)} BY <1>4, <1>5 DEF ToSet
  <2>2. ToSet(got) = {got[k] : k \in 1..Len(got)} BY <1>1 DEF ToSet
  <2>3. \A k \in 1..(m - o) : o + k \in 1..Len(got) BY <1>1, <1>3
  <2>. QED BY <1>4, <2>1, <2>2, <2>3
<1>. QED BY <1>1, <1>3, <1>4, <1>5, <1>6 DEF o, got

\* The last row of a project in a chunk.
LEMMA LastRowIs ==
  ASSUME NEW s, s \in Seq(ParsedRow), NEW p \in {r.project : r \in ToSet(s)}
  PROVE  LastRowOf(p, s) \in ToSet(s) /\ LastRowOf(p, s).project = p
<1>. DEFINE at == {i \in DOMAIN s : s[i].project = p}
<1>1. Len(s) \in Nat /\ DOMAIN s = 1..Len(s) OBVIOUS
<1>2. at # {} /\ at \subseteq Nat BY <1>1 DEF ToSet
<1>3. \E x \in at : \A y \in at : x >= y
  <2>. DEFINE below == {Len(s) - i : i \in at}
  <2>1. below \subseteq Nat /\ below # {} BY <1>1, <1>2
  <2>2. PICK d \in below : \A e \in below : d <= e
    <3>. HIDE DEF below
    <3>. QED BY <2>1, LeastNumber
  <2>3. PICK x \in at : d = Len(s) - x OBVIOUS
  <2>4. \A y \in at : Len(s) - y \in below OBVIOUS
  <2>5. \A y \in at : x >= y
    <3>. HIDE DEF below, at
    <3>. QED BY <1>1, <1>2, <2>2, <2>3, <2>4
  <2>. QED BY <2>5
<1>4. Max(at) \in at
  <2>. HIDE DEF at
  <2>. QED BY <1>3 DEF Max
<1>. QED BY <1>4 DEF LastRowOf, ToSet

\* What is in two sequences is in the one after the other.
LEMMA ConcatenationIs ==
  ASSUME NEW S, NEW s \in Seq(S), NEW t \in Seq(S)
  PROVE  /\ s \o t \in Seq(S) /\ Len(s \o t) = Len(s) + Len(t) /\ Len(s) \in Nat /\ Len(t) \in Nat
         /\ \A i \in 1..Len(s) : (s \o t)[i] = s[i]
         /\ ToSet(s \o t) = ToSet(s) \union ToSet(t)
<1>1. /\ s \o t \in Seq(S) /\ Len(s \o t) = Len(s) + Len(t) /\ Len(s) \in Nat /\ Len(t) \in Nat
      /\ \A i \in 1..Len(s) : (s \o t)[i] = s[i]
      /\ \A i \in 1..Len(t) : (s \o t)[Len(s) + i] = t[i]
  OBVIOUS
<1>2. PICK u \in Seq(S) : u = s \o t BY <1>1
<1>3. /\ ToSet(u) = {u[i] : i \in 1..Len(u)} /\ ToSet(s) = {s[i] : i \in 1..Len(s)}
      /\ ToSet(t) = {t[i] : i \in 1..Len(t)}
  BY DEF ToSet
<1>4. ASSUME NEW i \in 1..Len(u) PROVE u[i] \in ToSet(s) \union ToSet(t)
  <2>1. CASE i <= Len(s) BY <1>1, <1>2, <1>3, <2>1
  <2>2. CASE ~(i <= Len(s))
    <3>1. i - Len(s) \in 1..Len(t) /\ Len(s) + (i - Len(s)) = i BY <1>1, <1>2, <2>2
    <3>2. u[i] = t[i - Len(s)] BY <1>1, <1>2, <3>1
    <3>. QED BY <1>3, <3>1, <3>2
  <2>. QED BY <2>1, <2>2
<1>5. ASSUME NEW i \in 1..Len(s) PROVE s[i] \in ToSet(u)
  <2>1. i \in 1..Len(u) /\ u[i] = s[i] BY <1>1, <1>2
  <2>. QED BY <1>3, <2>1
<1>6. ASSUME NEW i \in 1..Len(t) PROVE t[i] \in ToSet(u)
  <2>1. Len(s) + i \in 1..Len(u) /\ u[Len(s) + i] = t[i] BY <1>1, <1>2
  <2>. QED BY <1>3, <2>1
<1>7. ToSet(u) = ToSet(s) \union ToSet(t) BY <1>3, <1>4, <1>5, <1>6
<1>. QED BY <1>1, <1>2, <1>7

LEMMA CohesionBegins == CohesionInit => CohesionInv
<1>. SUFFICES ASSUME CohesionInit PROVE CohesionInv OBVIOUS
<1>1. csv = [l \in Land |-> csv[l]] /\ \A l \in Land : csv[l] \in CsvRows
  <2>1. SeqOf(ProjectRow, MaxCsvRows) \subseteq CsvRows
    BY CohesionAssumption DEF SeqOf, CsvRows, Seq
  <2>. QED BY <2>1 DEF CohesionInit
<1>2. CohesionTypes BY <1>1 DEF CohesionInit, CohesionIdle, CohesionTypes, Stage
<1>. QED BY <1>2 DEF CohesionInit, CohesionIdle, CohesionInv, DisclosedIsLinked, EndsAreThere,
                    ReadIsWhole, EmittedIsDisclosed

LEMMA DownloadCountryKeeps ==
  ASSUME CohesionInv, DownloadCountry
  PROVE  CohesionInv'
<1>. DEFINE run == cohesionRun
<1>1. /\ run.pc = "download" /\ CohesionTypes /\ run.todo \subseteq Land
      /\ UNCHANGED <<csv, programmes, beneficiaries, disclosed, filedBy, underProgramme>>
      /\ run = [pc |-> run.pc, todo |-> run.todo, got |-> run.got, failed |-> run.failed,
                seen |-> run.seen, emitted |-> run.emitted]
      /\ run.got \in Seq(ParsedRow) /\ run.emitted \in Nat /\ run.emitted <= Len(run.got)
  BY DEF DownloadCountry, CohesionInv, CohesionTypes, cohesionGraph
<1>2. PICK l \in run.todo :
        \/ run' = [run EXCEPT !.todo = @ \ {l}, !.got = @ \o ParsedRows(l, csv[l])]
        \/ run' = [run EXCEPT !.todo = @ \ {l}, !.failed = @ \union {l}]
  BY DEF DownloadCountry
<1>3. CASE run' = [run EXCEPT !.todo = @ \ {l}, !.got = @ \o ParsedRows(l, csv[l])]
  <2>. DEFINE new == ParsedRows(l, csv[l])
  <2>1. /\ new \in Seq(ParsedRow)
        /\ \A r \in ToSet(csv[l]) : r.dated => ProjectOf(l, r) \in ToSet(new)
    <3>1. l \in Land /\ csv[l] \in CsvRows BY <1>1, <1>2 DEF CohesionTypes
    <3>. QED BY <3>1, ParsedRowsAre
  <2>. HIDE DEF new
  <2>2. run' = [pc |-> "download", todo |-> run.todo \ {l}, got |-> run.got \o new,
                failed |-> run.failed, seen |-> run.seen, emitted |-> run.emitted]
    <3>1. run' = [run EXCEPT !.todo = run.todo \ {l}, !.got = run.got \o new] BY <1>3 DEF new
    <3>. QED BY <1>1, <3>1
  <2>3. /\ run.got \o new \in Seq(ParsedRow) /\ Len(run.got \o new) = Len(run.got) + Len(new)
        /\ Len(run.got) \in Nat /\ Len(new) \in Nat
        /\ \A i \in 1..Len(run.got) : (run.got \o new)[i] = run.got[i]
        /\ ToSet(run.got \o new) = ToSet(run.got) \union ToSet(new)
    BY <1>1, <2>1, ConcatenationIs
  <2>4. CohesionTypes'
    BY <1>1, <2>2, <2>3 DEF CohesionTypes, Stage
  <2>5. ReadIsWhole'
    <3>. SUFFICES ASSUME NEW k \in Land \ ((run.todo \ {l}) \union run.failed),
                        NEW r \in ToSet(csv[k]), r.dated
                 PROVE  \E s \in ToSet(run.got \o new) : s.project = r.project
      BY <1>1, <2>2 DEF ReadIsWhole
    <3>1. CASE k = l
      <4>1. ProjectOf(l, r) \in ToSet(run.got \o new) BY <2>1, <2>3, <3>1
      <4>. QED BY <4>1 DEF ProjectOf
    <3>2. CASE k # l
      <4>1. \E s \in ToSet(run.got) : s.project = r.project
        BY <1>1, <3>2 DEF CohesionInv, ReadIsWhole
      <4>. QED BY <2>3, <4>1
    <3>. QED BY <3>1, <3>2
  <2>6. EmittedIsDisclosed'
    <3>1. \A i \in 1..run.emitted : (run.got \o new)[i] = run.got[i] BY <1>1, <2>3
    <3>. QED BY <1>1, <2>2, <3>1 DEF CohesionInv, EmittedIsDisclosed
  <2>7. EndsAreThere' BY <1>1, <2>2 DEF CohesionInv, EndsAreThere
  <2>8. DisclosedIsLinked' BY <1>1 DEF CohesionInv, DisclosedIsLinked
  <2>. QED BY <2>4, <2>5, <2>6, <2>7, <2>8 DEF CohesionInv
<1>4. CASE run' = [run EXCEPT !.todo = @ \ {l}, !.failed = @ \union {l}]
  <2>1. run' = [pc |-> "download", todo |-> run.todo \ {l}, got |-> run.got,
                failed |-> run.failed \union {l}, seen |-> run.seen, emitted |-> run.emitted]
    <3>1. run' = [run EXCEPT !.todo = run.todo \ {l}, !.failed = run.failed \union {l}] BY <1>4
    <3>. QED BY <1>1, <3>1
  <2>2. CohesionTypes' BY <1>1, <2>1 DEF CohesionTypes, Stage
  <2>3. ReadIsWhole' BY <1>1, <2>1 DEF CohesionInv, ReadIsWhole
  <2>. QED BY <1>1, <2>1, <2>2, <2>3
          DEF CohesionInv, EmittedIsDisclosed, EndsAreThere, DisclosedIsLinked
<1>. QED BY <1>2, <1>3, <1>4

LEMMA EmitProgrammesKeeps ==
  ASSUME CohesionInv, EmitProgrammes
  PROVE  CohesionInv'
<1>. DEFINE run == cohesionRun
<1>1. /\ run.pc = "download" /\ run.todo = {} /\ CohesionTypes
      /\ UNCHANGED <<csv, beneficiaries, disclosed, filedBy, underProgramme>>
      /\ run' = [pc |-> "emit", todo |-> run.todo, got |-> run.got, failed |-> run.failed,
                 seen |-> run.seen, emitted |-> run.emitted]
      /\ programmes' = programmes \union ({r.programme : r \in ToSet(run.got)} \ {NoText})
  BY DEF EmitProgrammes, CohesionInv, CohesionTypes
<1>2. CohesionTypes' BY <1>1 DEF CohesionTypes, Stage
<1>3. EndsAreThere' BY <1>1 DEF CohesionInv, EndsAreThere
<1>4. ReadIsWhole' BY <1>1 DEF CohesionInv, ReadIsWhole
<1>5. EmittedIsDisclosed' BY <1>1 DEF CohesionInv, EmittedIsDisclosed
<1>. QED BY <1>1, <1>2, <1>3, <1>4, <1>5 DEF CohesionInv, DisclosedIsLinked

LEMMA EmitProjectsKeeps ==
  ASSUME CohesionInv, EmitProjects
  PROVE  CohesionInv'
<1>. DEFINE run == cohesionRun
           chunk == NextChunk
           told == {r.project : r \in ToSet(chunk)}
<1>1. /\ run.pc = "emit" /\ CohesionTypes
      /\ UNCHANGED <<csv, programmes>>
      /\ beneficiaries' = beneficiaries \union NewOnes
      /\ disclosed' = Redisclosed(disclosed, chunk)
      /\ filedBy' = filedBy \union
           Linked({<<r.project, r.company>> : r \in ToSet(chunk)}, beneficiaries')
      /\ underProgramme' = underProgramme \union
           Linked({<<r.project, r.programme>> : r \in ToSet(chunk)}, programmes)
      /\ run' = [run EXCEPT !.seen = @ \union NewOnes, !.emitted = @ + Len(chunk)]
  BY DEF EmitProjects, CohesionInv
<1>2. /\ chunk \in Seq(ParsedRow) /\ Len(chunk) \in Nat
      /\ run.emitted + Len(chunk) <= Len(run.got) /\ run.emitted \in Nat
      /\ \A k \in 1..Len(chunk) : chunk[k] = run.got[run.emitted + k]
      /\ ToSet(chunk) \subseteq ToSet(run.got)
  BY <1>1, NextChunkIs DEF CohesionTypes
<1>3. NewOnes = {r.company : r \in ToSet(chunk)} \ (run.seen \union {NoOne})
  BY DEF NewOnes
<1>. HIDE DEF chunk
<1>4. run' = [pc |-> "emit", todo |-> run.todo, got |-> run.got, failed |-> run.failed,
              seen |-> run.seen \union NewOnes, emitted |-> run.emitted + Len(chunk)]
  BY <1>1 DEF CohesionTypes
<1>5. CohesionTypes'
  <2>1. /\ run'.pc = "emit" /\ run'.todo = run.todo /\ run'.got = run.got
        /\ run'.emitted = run.emitted + Len(chunk)
        /\ run' = [pc |-> run'.pc, todo |-> run'.todo, got |-> run'.got, failed |-> run'.failed,
                   seen |-> run'.seen, emitted |-> run'.emitted]
    BY <1>4
  <2>. QED BY <1>1, <1>2, <2>1 DEF CohesionTypes, Stage
<1>6. EndsAreThere' BY <1>1, <1>4 DEF CohesionInv, EndsAreThere
<1>7. /\ DOMAIN disclosed' = DOMAIN disclosed \union told
      /\ \A p \in told : /\ disclosed'[p].company = LastRowOf(p, chunk).company
                         /\ disclosed'[p].programme = LastRowOf(p, chunk).programme
      /\ \A p \in DOMAIN disclosed \ told : disclosed'[p] = disclosed[p]
  BY <1>1 DEF Redisclosed
<1>8. DisclosedIsLinked'
  <2>. SUFFICES ASSUME NEW p \in DOMAIN disclosed'
               PROVE  /\ disclosed'[p].company # NoOne => <<p, disclosed'[p].company>> \in filedBy'
                      /\ disclosed'[p].programme # NoText =>
                           <<p, disclosed'[p].programme>> \in underProgramme'
    BY DEF DisclosedIsLinked
  <2>1. CASE p \in told
    <3>1. PICK r \in ToSet(chunk) : r = LastRowOf(p, chunk) /\ r.project = p
      BY <1>2, <2>1, LastRowIs
    <3>2. disclosed'[p].company = r.company /\ disclosed'[p].programme = r.programme
      BY <1>7, <2>1, <3>1
    <3>3. r.company # NoOne => r.company \in beneficiaries'
      BY <1>1, <1>3 DEF CohesionInv, EndsAreThere
    <3>4. r.programme # NoText => r.programme \in programmes
      BY <1>1, <1>2 DEF CohesionInv, EndsAreThere
    <3>5. \A e, nodes : e \in nodes => \A ends : <<p, e>> \in ends => <<p, e>> \in Linked(ends, nodes)
      BY DEF Linked
    <3>. QED BY <1>1, <3>1, <3>2, <3>3, <3>4, <3>5
  <2>2. CASE p \notin told
    <3>1. p \in DOMAIN disclosed /\ disclosed'[p] = disclosed[p] BY <1>7, <2>2
    <3>. QED BY <1>1, <3>1 DEF CohesionInv, DisclosedIsLinked
  <2>. QED BY <2>1, <2>2
<1>9. EmittedIsDisclosed'
  <2>1. ASSUME NEW i \in 1..(run.emitted + Len(chunk))
        PROVE  run.got[i].project \in DOMAIN disclosed'
    <3>1. CASE i <= run.emitted
      <4>1. i \in 1..run.emitted BY <1>2, <3>1
      <4>. QED BY <1>7, <4>1 DEF CohesionInv, EmittedIsDisclosed
    <3>2. CASE ~(i <= run.emitted)
      <4>1. i - run.emitted \in 1..Len(chunk) /\ run.emitted + (i - run.emitted) = i
        BY <1>2, <3>2
      <4>2. run.got[i] = chunk[i - run.emitted] BY <1>2, <4>1
      <4>3. chunk[i - run.emitted] \in ToSet(chunk) BY <1>2, <4>1 DEF ToSet
      <4>. QED BY <1>7, <4>2, <4>3
    <3>. QED BY <3>1, <3>2
  <2>. HIDE DEF told
  <2>. QED BY <1>1, <1>4, <2>1 DEF CohesionInv, EmittedIsDisclosed
<1>10. ReadIsWhole' BY <1>1, <1>4 DEF CohesionInv, ReadIsWhole
<1>. QED BY <1>5, <1>6, <1>8, <1>9, <1>10 DEF CohesionInv

LEMMA EndCohesionKeeps ==
  ASSUME CohesionInv, EndCohesion
  PROVE  CohesionInv'
<1>. DEFINE run == cohesionRun
<1>1. /\ CohesionTypes
      /\ UNCHANGED <<csv, programmes, beneficiaries, disclosed, filedBy, underProgramme>>
      /\ run' = [pc |-> IF run.failed = {} THEN "complete" ELSE "failed", todo |-> run.todo,
                 got |-> run.got, failed |-> run.failed, seen |-> run.seen,
                 emitted |-> run.emitted]
      /\ run.pc # "idle" /\ run.todo = {}
  BY DEF EndCohesion, CohesionInv, CohesionTypes, cohesionGraph, EmittedIsDisclosed
<1>2. run.emitted = Len(run.got)
  <2>1. CASE run.got = <<>> BY <1>1, <2>1 DEF CohesionTypes
  <2>2. CASE NextChunk = <<>> BY <1>1, <2>2, NextChunkIs
  <2>. QED BY <2>1, <2>2 DEF EndCohesion
<1>3. CohesionTypes' BY <1>1 DEF CohesionTypes, Stage
<1>4. EndsAreThere' BY <1>1 DEF CohesionInv, EndsAreThere
<1>5. ReadIsWhole' BY <1>1 DEF CohesionInv, ReadIsWhole
<1>6. EmittedIsDisclosed' BY <1>1, <1>2 DEF CohesionInv, EmittedIsDisclosed
<1>. QED BY <1>1, <1>3, <1>4, <1>5, <1>6 DEF CohesionInv, DisclosedIsLinked

\* A run that begins, dies, or is followed by the files of the next month.
LEMMA CohesionRestarts ==
  ASSUME CohesionInv, StartCohesion \/ CohesionDies \/ KohesioPublishes
  PROVE  CohesionInv'
<1>1. /\ CohesionTypes
      /\ UNCHANGED <<programmes, beneficiaries, disclosed, filedBy, underProgramme>>
      /\ \/ cohesionRun' = CohesionIdle
         \/ cohesionRun' = [CohesionIdle EXCEPT !.pc = "download", !.todo = Land]
  BY DEF CohesionInv, StartCohesion, CohesionDies, KohesioPublishes, cohesionGraph
<1>2. csv' = [l \in Land |-> csv'[l]] /\ \A l \in Land : csv'[l] \in CsvRows
  <2>1. CASE UNCHANGED csv BY <1>1, <2>1 DEF CohesionTypes
  <2>2. CASE \E l \in Land, rows \in SeqOf(ProjectRow, MaxCsvRows) : csv' = [csv EXCEPT ![l] = rows]
    <3>1. SeqOf(ProjectRow, MaxCsvRows) \subseteq CsvRows
      BY CohesionAssumption DEF SeqOf, CsvRows, Seq
    <3>. QED BY <1>1, <2>2, <3>1 DEF CohesionTypes
  <2>. QED BY <2>1, <2>2 DEF StartCohesion, CohesionDies, KohesioPublishes
<1>3. /\ cohesionRun'.pc \in {"idle", "download"} /\ cohesionRun'.todo \in {{}, Land}
      /\ cohesionRun'.got = <<>> /\ cohesionRun'.seen = {} /\ cohesionRun'.emitted = 0
      /\ cohesionRun'.failed = {} /\ (cohesionRun'.pc = "download" => cohesionRun'.todo = Land)
      /\ cohesionRun' = [pc |-> cohesionRun'.pc, todo |-> cohesionRun'.todo, got |-> <<>>,
                         failed |-> {}, seen |-> {}, emitted |-> 0]
  <2>1. CohesionIdle = [pc |-> "idle", todo |-> {}, got |-> <<>>, failed |-> {}, seen |-> {},
                        emitted |-> 0]
    BY DEF CohesionIdle
  <2>2. CASE cohesionRun' = CohesionIdle BY <2>1, <2>2
  <2>3. CASE cohesionRun' = [CohesionIdle EXCEPT !.pc = "download", !.todo = Land]
    <3>1. cohesionRun' = [pc |-> "download", todo |-> Land, got |-> <<>>, failed |-> {},
                          seen |-> {}, emitted |-> 0]
      BY <2>1, <2>3
    <3>. QED BY <3>1
  <2>. QED BY <1>1, <2>2, <2>3
<1>4. CohesionTypes' BY <1>2, <1>3 DEF CohesionTypes, Stage
<1>5. DisclosedIsLinked' BY <1>1 DEF CohesionInv, DisclosedIsLinked
<1>6. EndsAreThere' /\ ReadIsWhole' /\ EmittedIsDisclosed'
  BY <1>3 DEF EndsAreThere, ReadIsWhole, EmittedIsDisclosed
<1>. QED BY <1>4, <1>5, <1>6 DEF CohesionInv

LEMMA CohesionKeeps == CohesionInv /\ [CohesionNext]_cohesionVars => CohesionInv'
<1>. SUFFICES ASSUME CohesionInv, [CohesionNext]_cohesionVars PROVE CohesionInv' OBVIOUS
<1>1. CASE UNCHANGED cohesionVars
  BY <1>1 DEF cohesionVars, CohesionInv, CohesionTypes, DisclosedIsLinked, EndsAreThere,
              ReadIsWhole, EmittedIsDisclosed
<1>2. CASE CohesionNext
  BY <1>2, DownloadCountryKeeps, EmitProgrammesKeeps, EmitProjectsKeeps, EndCohesionKeeps,
     CohesionRestarts DEF CohesionNext
<1>. QED BY <1>1, <1>2

\* Two beneficiaries with one id have one name, or one QID.
LEMMA NamelessStayApart ==
  ASSUME CohesionTypes
  PROVE  \A q, r \in ToSet(cohesionRun.got) :
           q.company = r.company /\ q.company # NoOne /\ q.who # r.who =>
             q.name \notin NotAName \union {NoText}
<1>. SUFFICES ASSUME NEW q \in ToSet(cohesionRun.got), NEW r \in ToSet(cohesionRun.got),
                    q.company = r.company, q.company # NoOne, q.who # r.who,
                    q.name \in NotAName \union {NoText}
             PROVE  FALSE
  OBVIOUS
<1>1. q \in ParsedRow /\ r \in ParsedRow BY DEF CohesionTypes, ToSet
<1>2. PICK k \in Land, row \in ProjectRow : q = ProjectOf(k, row) BY <1>1 DEF ParsedRow
<1>3. PICK l \in Land, other \in ProjectRow : r = ProjectOf(l, other) BY <1>1 DEF ParsedRow
<1>4. /\ q.company = Beneficiary(k, row) /\ q.who = row.beneficiary /\ q.name = row.name
      /\ r.company = Beneficiary(l, other) /\ r.who = other.beneficiary
  BY <1>2, <1>3 DEF ProjectOf
<1>5. q.company = <<k, "qid", q.who>> BY <1>4 DEF Beneficiary, Nameless
<1>6. r.company \in {<<l, other.name>>, <<l, "qid", r.who>>, NoOne}
  BY <1>4 DEF Beneficiary
<1>7. \A a, b, c, d, e : <<a, b, c>> # <<d, e>> OBVIOUS
<1>. QED BY <1>5, <1>6, <1>7

\* load_eu_knowledge_graph.py: a disclosed project is linked to its beneficiary and
\* its programme, beneficiaries without a name are not merged into one, and a run
\* that reports success has stored the project of every row that counts, of every
\* country; for any files and chunk sizes, and runs that die between two chunks.
THEOREM DisclosuresAreWhole == CohesionSpec => []CohesionLinksHold
<1>1. CohesionInv => CohesionLinksHold
  <2>. SUFFICES ASSUME CohesionInv PROVE CohesionLinksHold OBVIOUS
  <2>1. \A q, r \in ToSet(cohesionRun.got) :
          q.company = r.company /\ q.company # NoOne /\ q.who # r.who =>
            q.name \notin NotAName \union {NoText}
    BY NamelessStayApart DEF CohesionInv
  <2>2. ASSUME cohesionRun.pc = "complete", NEW l \in Land, NEW r \in ToSet(csv[l]), r.dated
        PROVE  /\ \E s \in ToSet(cohesionRun.got) : s.project = r.project
               /\ r.project \in DOMAIN disclosed
    <3>1. PICK s \in ToSet(cohesionRun.got) : s.project = r.project
      BY <2>2 DEF CohesionInv, EmittedIsDisclosed, ReadIsWhole
    <3>2. PICK i \in 1..Len(cohesionRun.got) : s = cohesionRun.got[i]
      BY <3>1 DEF CohesionInv, CohesionTypes, ToSet
    <3>3. cohesionRun.got[i].project \in DOMAIN disclosed
      BY <2>2, <3>2 DEF CohesionInv, EmittedIsDisclosed
    <3>. QED BY <3>1, <3>2, <3>3
  <2>. QED BY <2>1, <2>2 DEF CohesionInv, DisclosedIsLinked, CohesionLinksHold
<1>. QED BY <1>1, CohesionBegins, CohesionKeeps, PTL DEF CohesionSpec

----------------------------------------------------------------------------
(* CompanyFilings: what the loader drew from the file it read last is in the *)
(* graph, and a series holds the last fact of the best concept.            *)

(* The loops of the two readers, up to some position.                       *)

IsStated(file, i, concept, counted) == file[i].concept = concept /\ file[i] \in counted
Put(m, e) ==
  [y \in DOMAIN m \union {e.year} |-> IF y = e.year THEN e.value ELSE m[y]]

WrittenUpTo(upTo, n, held, file, concept, counted) ==
  upTo = [i \in 0..n |->
          IF i = 0 THEN held
          ELSE IF IsStated(file, i, concept, counted) THEN Put(upTo[i - 1], file[i])
          ELSE upTo[i - 1]]

RankedUpTo(after, n, file, names, counted) ==
  after = [k \in 0..n |->
           IF k = 0 THEN <<>>
           ELSE Overwritten(after[k - 1], file, Ordered(names)[k], counted)]

\* Each loop comes to its end: the first position that it could not reach would be
\* one after a position that it did.
LEMMA FileIsRead ==
  ASSUME NEW held, NEW file, NEW concept, NEW counted, NEW size \in Nat
  PROVE  \E upTo : WrittenUpTo(upTo, size, held, file, concept, counted)
<1>. DEFINE W(upTo, n) == WrittenUpTo(upTo, n, held, file, concept, counted)
           T == {n \in Nat : ~ \E upTo : W(upTo, n)}
<1>. SUFFICES ASSUME T # {} PROVE FALSE OBVIOUS
<1>1. PICK n \in T : \A k \in T : n <= k
  <2>. HIDE DEF T
  <2>1. T \subseteq Nat BY DEF T
  <2>. QED BY <2>1, LeastNumber
<1>2. n \in Nat /\ ~ \E upTo : W(upTo, n) BY <1>1
<1>3. CASE n = 0
  <2>1. W([i \in 0..0 |-> held], 0) BY DEF WrittenUpTo
  <2>. QED BY <1>2, <1>3, <2>1
<1>4. CASE n # 0
  <2>1. n - 1 \in Nat /\ n - 1 < n BY <1>2, <1>4
  <2>2. PICK before : W(before, n - 1) BY <1>1, <2>1
  <2>. DEFINE step(f, i) ==
               IF IsStated(file, i, concept, counted) THEN Put(f[i - 1], file[i]) ELSE f[i - 1]
             upTo == [i \in 0..n |-> IF i = n THEN step(before, n) ELSE before[i]]
  <2>3. \A i \in 0..(n - 1) : before[i] = IF i = 0 THEN held ELSE step(before, i)
    BY <2>2 DEF WrittenUpTo
  <2>4. \A i \in 0..(n - 1) : upTo[i] = before[i] BY <2>1
  <2>5. upTo[n] = step(upTo, n)
    <3>1. upTo[n] = step(before, n) BY <1>2
    <3>2. n - 1 \in 0..(n - 1) BY <2>1
    <3>. QED BY <3>1, <3>2, <2>4
  <2>6. \A i \in 0..n : upTo[i] = IF i = 0 THEN held ELSE step(upTo, i)
    <3>. SUFFICES ASSUME NEW i \in 0..n
                  PROVE upTo[i] = IF i = 0 THEN held ELSE step(upTo, i) OBVIOUS
    <3>1. CASE i = n BY <1>4, <2>5, <3>1
    <3>2. CASE i # n
      <4>1. i \in 0..(n - 1) /\ (i # 0 => i - 1 \in 0..(n - 1)) BY <1>2, <3>2
      <4>2. i # 0 => upTo[i - 1] = before[i - 1] BY <4>1, <2>4
      <4>. HIDE DEF upTo
      <4>. QED BY <4>1, <4>2, <2>3, <2>4
    <3>. QED BY <3>1, <3>2
  <2>7. upTo = [i \in 0..n |-> IF i = 0 THEN held ELSE step(upTo, i)]
    <3>1. upTo = [i \in 0..n |-> upTo[i]] OBVIOUS
    <3>. HIDE DEF upTo, step
    <3>. QED BY <3>1, <2>6
  <2>8. W(upTo, n)
    <3>. HIDE DEF upTo
    <3>. QED BY <2>7 DEF WrittenUpTo
  <2>. QED BY <1>2, <2>8
<1>. QED BY <1>3, <1>4

LEMMA NamesAreRead ==
  ASSUME NEW file, NEW names, NEW counted, NEW size \in Nat
  PROVE  \E after : RankedUpTo(after, size, file, names, counted)
<1>. DEFINE W(after, n) == RankedUpTo(after, n, file, names, counted)
           T == {n \in Nat : ~ \E after : W(after, n)}
<1>. SUFFICES ASSUME T # {} PROVE FALSE OBVIOUS
<1>1. PICK n \in T : \A k \in T : n <= k
  <2>. HIDE DEF T
  <2>1. T \subseteq Nat BY DEF T
  <2>. QED BY <2>1, LeastNumber
<1>2. n \in Nat /\ ~ \E after : W(after, n) BY <1>1
<1>3. CASE n = 0
  <2>1. W([k \in 0..0 |-> <<>>], 0) BY DEF RankedUpTo
  <2>. QED BY <1>2, <1>3, <2>1
<1>4. CASE n # 0
  <2>1. n - 1 \in Nat /\ n - 1 < n BY <1>2, <1>4
  <2>2. PICK before : W(before, n - 1) BY <1>1, <2>1
  <2>. DEFINE step(f, k) == Overwritten(f[k - 1], file, Ordered(names)[k], counted)
             after == [k \in 0..n |-> IF k = n THEN step(before, n) ELSE before[k]]
  <2>3. \A k \in 0..(n - 1) : before[k] = IF k = 0 THEN <<>> ELSE step(before, k)
    BY <2>2 DEF RankedUpTo
  <2>4. \A k \in 0..(n - 1) : after[k] = before[k] BY <2>1
  <2>5. after[n] = step(after, n)
    <3>1. after[n] = step(before, n) BY <1>2
    <3>2. n - 1 \in 0..(n - 1) BY <2>1
    <3>. QED BY <3>1, <3>2, <2>4
  <2>6. \A k \in 0..n : after[k] = IF k = 0 THEN <<>> ELSE step(after, k)
    <3>. SUFFICES ASSUME NEW k \in 0..n
                  PROVE after[k] = IF k = 0 THEN <<>> ELSE step(after, k) OBVIOUS
    <3>1. CASE k = n BY <1>4, <2>5, <3>1
    <3>2. CASE k # n
      <4>1. k \in 0..(n - 1) /\ (k # 0 => k - 1 \in 0..(n - 1)) BY <1>2, <3>2
      <4>2. k # 0 => after[k - 1] = before[k - 1] BY <4>1, <2>4
      <4>. HIDE DEF after
      <4>. QED BY <4>1, <4>2, <2>3, <2>4
    <3>. QED BY <3>1, <3>2
  <2>7. after = [k \in 0..n |-> IF k = 0 THEN <<>> ELSE step(after, k)]
    <3>1. after = [k \in 0..n |-> after[k]] OBVIOUS
    <3>. HIDE DEF after, step
    <3>. QED BY <3>1, <2>6
  <2>8. W(after, n)
    <3>. HIDE DEF after
    <3>. QED BY <2>7 DEF RankedUpTo
  <2>. QED BY <1>2, <2>8
<1>. QED BY <1>3, <1>4

(* What the loops leave.                                                    *)

\* Where the file states the concept for the year.
At(file, concept, y, counted) ==
  {i \in DOMAIN file : IsStated(file, i, concept, counted) /\ file[i].year = y}

\* The values of a concept replace what was there for their years, the last one of
\* a year the others; the other years stay.
LEMMA OverwrittenIs ==
  ASSUME NEW held, NEW file, file \in Seq(ToSet(file)), NEW concept, NEW counted, NEW y
  PROVE  LET s == Overwritten(held, file, concept, counted)
             at == At(file, concept, y, counted) IN
         /\ y \in DOMAIN s <=> y \in DOMAIN held \/ at # {}
         /\ \A i \in at : (\A j \in at : i >= j) => s[y] = file[i].value
         /\ at = {} /\ y \in DOMAIN held => s[y] = held[y]
<1>. DEFINE size == Len(file)
<1>1. size \in Nat /\ DOMAIN file = 1..size OBVIOUS
<1>2. PICK upTo : /\ WrittenUpTo(upTo, size, held, file, concept, counted)
                  /\ Overwritten(held, file, concept, counted) = upTo[size]
  <2>. DEFINE chosen == CHOOSE upTo : WrittenUpTo(upTo, size, held, file, concept, counted)
  <2>1. WrittenUpTo(chosen, size, held, file, concept, counted) BY <1>1, FileIsRead
  <2>2. Overwritten(held, file, concept, counted) = chosen[size]
    BY DEF Overwritten, WrittenUpTo, IsStated, Put
  <2>. QED BY <2>1, <2>2
<1>3. \A n \in 0..size :
        upTo[n] = IF n = 0 THEN held
                  ELSE IF IsStated(file, n, concept, counted) THEN Put(upTo[n - 1], file[n])
                  ELSE upTo[n - 1]
  BY <1>2 DEF WrittenUpTo
<1>. DEFINE seen(n) == {i \in 1..n : IsStated(file, i, concept, counted) /\ file[i].year = y}
           Good(n) ==
             /\ y \in DOMAIN upTo[n] <=> y \in DOMAIN held \/ seen(n) # {}
             /\ \A i \in seen(n) : (\A j \in seen(n) : i >= j) => upTo[n][y] = file[i].value
             /\ seen(n) = {} /\ y \in DOMAIN held => upTo[n][y] = held[y]
           T == {n \in 0..size : ~ Good(n)}
<1>4. T = {}
  <2>. SUFFICES ASSUME T # {} PROVE FALSE OBVIOUS
  <2>1. PICK n \in T : \A k \in T : n <= k
    <3>1. T \subseteq Nat BY <1>1
    <3>. HIDE DEF T
    <3>. QED BY <3>1, LeastNumber
  <2>2. n \in 0..size /\ ~ Good(n) BY <2>1
  <2>3. CASE n = 0
    <3>1. upTo[0] = held /\ seen(0) = {} BY <1>1, <1>3
    <3>. HIDE DEF seen
    <3>. QED BY <2>2, <2>3, <3>1
  <2>4. CASE n # 0
    <3>1. n - 1 \in 0..size /\ n - 1 < n /\ n \in 1..size /\ n \in Nat BY <1>1, <2>2, <2>4
    <3>2. Good(n - 1) BY <2>1, <3>1
    <3>3. /\ IsStated(file, n, concept, counted) => upTo[n] = Put(upTo[n - 1], file[n])
          /\ ~ IsStated(file, n, concept, counted) => upTo[n] = upTo[n - 1]
      BY <1>3, <2>2, <2>4
    <3>4. CASE IsStated(file, n, concept, counted) /\ file[n].year = y
      <4>1. n \in seen(n) /\ \A i \in seen(n) : i <= n BY <3>1, <3>4
      <4>2. y \in DOMAIN upTo[n] /\ upTo[n][y] = file[n].value BY <3>3, <3>4 DEF Put
      <4>3. \A i \in seen(n) : i >= n => i = n BY <3>1
      <4>. HIDE DEF seen
      <4>. QED BY <2>2, <4>1, <4>2, <4>3
    <3>5. CASE ~ (IsStated(file, n, concept, counted) /\ file[n].year = y)
      <4>1. seen(n) = seen(n - 1) BY <3>1, <3>5
      <4>2. /\ y \in DOMAIN upTo[n] <=> y \in DOMAIN upTo[n - 1]
            /\ y \in DOMAIN upTo[n] => upTo[n][y] = upTo[n - 1][y]
        BY <3>3, <3>5 DEF Put
      <4>. HIDE DEF seen
      <4>. QED BY <2>2, <3>2, <4>1, <4>2
    <3>. QED BY <3>4, <3>5
  <2>. QED BY <2>3, <2>4
<1>5. Good(size)
  <2>1. \A n \in 0..size : Good(n)
    <3>. HIDE DEF Good
    <3>. QED BY <1>4
  <2>. HIDE DEF Good
  <2>. QED BY <1>1, <2>1
<1>6. At(file, concept, y, counted) = seen(size) BY <1>1 DEF At
<1>. HIDE DEF seen
<1>. QED BY <1>2, <1>5, <1>6

\* Where a concept of the names counts for the year, and the names that do.
Stating(file, names, y, counted) ==
  {k \in DOMAIN names : At(file, names[k], y, counted) # {}}

LEMMA BestIs ==
  ASSUME NEW file, file \in Seq(ToSet(file)), NEW names, names \in Seq(ToSet(names)),
         NEW counted, NEW y, Stating(file, names, y, counted) # {}
  PROVE  \E n \in Stating(file, names, y, counted) : \E i \in At(file, names[n], y, counted) :
           /\ \A o \in Stating(file, names, y, counted) : n <= o
           /\ \A j \in At(file, names[n], y, counted) : i >= j
           /\ Best(file, names, y, counted) = file[i].value
<1>. DEFINE stating == Stating(file, names, y, counted)
            at(n) == {i \in DOMAIN file :
              file[i].concept = names[n] /\ file[i].year = y /\ file[i] \in counted}
            n == CHOOSE x \in stating : \A o \in stating : x <= o
            last == CHOOSE x \in at(n) : \A o \in at(n) : x >= o
<1>1. \A k : at(k) = At(file, names[k], y, counted) BY DEF At, IsStated
<1>2. {m \in DOMAIN names : at(m) # {}} = stating BY <1>1 DEF Stating
<1>3. n \in stating /\ \A o \in stating : n <= o
  <2>1. stating \subseteq Nat BY DEF Stating
  <2>2. stating # {} OBVIOUS
  <2>. HIDE DEF stating
  <2>. QED BY <2>1, <2>2, LeastNumber
<1>4. last \in at(n) /\ \A o \in at(n) : last >= o
  <2>1. at(n) \subseteq 0..Len(file) /\ Len(file) \in Nat OBVIOUS
  <2>2. at(n) # {} BY <1>1, <1>3 DEF Stating
  <2>. HIDE DEF at, n
  <2>. QED BY <2>1, <2>2, GreatestNumber
<1>5. Best(file, names, y, counted) = file[last].value
  <2>1. Best(file, names, y, counted) =
          LET b == Min({m \in DOMAIN names : at(m) # {}}) IN file[Max(at(b))].value
    BY DEF Best
  <2>2. Min({m \in DOMAIN names : at(m) # {}}) = n BY <1>2 DEF Min
  <2>3. Max(at(n)) = last BY DEF Max
  <2>. HIDE DEF at, n, last
  <2>. QED BY <2>1, <2>2, <2>3
<1>6. last \in At(file, names[n], y, counted) /\ \A j \in At(file, names[n], y, counted) : last >= j
  <2>. HIDE DEF at, n, last
  <2>. QED BY <1>1, <1>4
<1>. HIDE DEF n, last, at
<1>. QED BY <1>3, <1>5, <1>6

\* What a reader shows of a year is the last fact of its best concept; it shows
\* just the years of which it has one.
LEMMA RankedIs ==
  ASSUME NEW file, file \in Seq(ToSet(file)), NEW names, names \in Seq(ToSet(names)),
         NEW counted, NEW y,
         NEW after, RankedUpTo(after, Len(names), file, names, counted)
  PROVE  LET s == after[Len(names)] IN
         /\ y \in DOMAIN s <=> Stating(file, names, y, counted) # {}
         /\ y \in DOMAIN s => s[y] = Best(file, names, y, counted)
<1>. DEFINE size == Len(names)
            stating == Stating(file, names, y, counted)
<1>1. /\ size \in Nat /\ DOMAIN names = 1..size
      /\ \A k \in 1..size : Ordered(names)[k] = names[size - k + 1]
  BY DEF Ordered, Reverse
<1>2. RankedUpTo(after, size, file, names, counted) OBVIOUS
<1>3. \A k \in 0..size :
        after[k] = IF k = 0 THEN <<>>
                   ELSE Overwritten(after[k - 1], file, Ordered(names)[k], counted)
  BY <1>2 DEF RankedUpTo
<1>. HIDE DEF size
\* The k worst names, and what the best of them that states the year says last.
<1>. DEFINE worst(k) == {m \in stating : m > size - k}
            Said(m, v) == \E i \in At(file, names[m], y, counted) :
                            /\ \A j \in At(file, names[m], y, counted) : i >= j
                            /\ v = file[i].value
            Good(k) == /\ y \in DOMAIN after[k] <=> worst(k) # {}
                       /\ \A m \in worst(k) :
                            (\A o \in worst(k) : m <= o) => Said(m, after[k][y])
            T == {k \in 0..size : ~ Good(k)}
<1>4. T = {}
  <2>. SUFFICES ASSUME T # {} PROVE FALSE OBVIOUS
  <2>1. PICK k \in T : \A l \in T : k <= l
    <3>1. T \subseteq Nat BY <1>1
    <3>. HIDE DEF T
    <3>. QED BY <3>1, LeastNumber
  <2>2. k \in 0..size /\ ~ Good(k) BY <2>1
  <2>3. CASE k = 0
    <3>1. after[0] = <<>> BY <1>1, <1>3
    <3>2. worst(0) = {} BY <1>1 DEF Stating
    <3>. HIDE DEF worst
    <3>. QED BY <2>2, <2>3, <3>1, <3>2
  <2>4. CASE k # 0
    <3>. DEFINE m == size - k + 1
                at == At(file, names[m], y, counted)
    <3>1. /\ k - 1 \in 0..size /\ k - 1 < k /\ k \in 1..size /\ m \in 1..size
          /\ size - (k - 1) = m BY <1>1, <2>2, <2>4
    <3>2. Good(k - 1)
      <4>. HIDE DEF Good
      <4>. QED BY <2>1, <3>1
    <3>3. after[k] = Overwritten(after[k - 1], file, names[m], counted)
      BY <1>1, <1>3, <2>2, <2>4, <3>1
    <3>4. /\ y \in DOMAIN after[k] <=> y \in DOMAIN after[k - 1] \/ at # {}
          /\ \A i \in at : (\A j \in at : i >= j) => after[k][y] = file[i].value
          /\ at = {} /\ y \in DOMAIN after[k - 1] => after[k][y] = after[k - 1][y]
      <4>0. PICK old, concept : old = after[k - 1] /\ concept = names[m] OBVIOUS
      <4>. HIDE DEF m
      <4>1. after[k] = Overwritten(old, file, concept, counted) BY <3>3, <4>0
      <4>2. LET s == Overwritten(old, file, concept, counted)
                a == At(file, concept, y, counted) IN
            /\ y \in DOMAIN s <=> y \in DOMAIN old \/ a # {}
            /\ \A i \in a : (\A j \in a : i >= j) => s[y] = file[i].value
            /\ a = {} /\ y \in DOMAIN old => s[y] = old[y]
        BY OverwrittenIs
      <4>. QED BY <4>0, <4>1, <4>2
    <3>5. \A o \in stating : o \in 1..size BY <1>1 DEF Stating
    <3>6. at # {} => m \in stating BY <1>1, <3>1 DEF Stating
    <3>7. at = {} => m \notin stating BY <3>1 DEF Stating
    <3>8. CASE at # {}
      <4>1. worst(k) = worst(k - 1) \union {m}
        <5>1. \A o \in 1..size : o > size - k <=> o > size - (k - 1) \/ o = m BY <1>1, <3>1
        <5>. HIDE DEF m, stating
        <5>. QED BY <3>5, <3>6, <3>8, <5>1
      <4>2. \A o \in worst(k) : m <= o /\ (o <= m => o = m)
        <5>. SUFFICES ASSUME NEW o \in worst(k) PROVE m <= o /\ (o <= m => o = m) OBVIOUS
        <5>1. o \in 1..size /\ o > size - k BY <3>5
        <5>2. k \in Nat /\ size \in Nat BY <1>1, <3>1
        <5>. HIDE DEF worst
        <5>. QED BY <5>1, <5>2
      <4>3. PICK i \in at : \A j \in at : i >= j
        <5>1. at \subseteq 0..Len(file) /\ Len(file) \in Nat BY DEF At
        <5>. HIDE DEF at
        <5>. QED BY <3>8, <5>1, GreatestNumber
      <4>4. Said(m, after[k][y]) BY <3>4, <4>3
      <4>5. y \in DOMAIN after[k] BY <3>4, <3>8
      <4>6. m \in worst(k) BY <4>1
      <4>. HIDE DEF worst, Said, m
      <4>. QED BY <2>2, <4>2, <4>4, <4>5, <4>6
    <3>9. CASE at = {}
      <4>1. worst(k) = worst(k - 1)
        <5>1. \A o \in 1..size : o > size - k <=> o > size - (k - 1) \/ o = m BY <1>1, <3>1
        <5>. HIDE DEF m, stating
        <5>. QED BY <3>5, <3>7, <3>9, <5>1
      <4>2. /\ y \in DOMAIN after[k] <=> y \in DOMAIN after[k - 1]
            /\ y \in DOMAIN after[k - 1] => after[k][y] = after[k - 1][y]
        BY <3>4, <3>9
      <4>. HIDE DEF worst, Said, m
      <4>. QED BY <2>2, <3>2, <4>1, <4>2
    <3>. QED BY <3>8, <3>9
  <2>. QED BY <2>3, <2>4
<1>5. Good(size)
  <2>1. \A k \in 0..size : Good(k)
    <3>. HIDE DEF Good
    <3>. QED BY <1>4
  <2>. HIDE DEF Good
  <2>. QED BY <1>1, <2>1
<1>6. worst(size) = stating
  <2>1. \A m \in stating : m \in 1..size BY <1>1 DEF Stating
  <2>. QED BY <1>1, <2>1
<1>7. ASSUME stating # {}
      PROVE  after[size][y] = Best(file, names, y, counted)
  <2>1. PICK n \in stating : \E i \in At(file, names[n], y, counted) :
          /\ \A o \in stating : n <= o
          /\ \A j \in At(file, names[n], y, counted) : i >= j
          /\ Best(file, names, y, counted) = file[i].value
    BY <1>7, BestIs
  <2>2. PICK i \in At(file, names[n], y, counted) :
          /\ \A j \in At(file, names[n], y, counted) : i >= j
          /\ Best(file, names, y, counted) = file[i].value
    BY <2>1
  <2>3. Said(n, after[size][y])
    <3>. HIDE DEF Said, worst
    <3>. QED BY <1>5, <1>6, <2>1
  <2>4. PICK k \in At(file, names[n], y, counted) :
          /\ \A j \in At(file, names[n], y, counted) : k >= j
          /\ after[size][y] = file[k].value
    BY <2>3
  <2>5. i = k
    <3>1. i \in Nat /\ k \in Nat BY DEF At
    <3>2. i >= k /\ k >= i BY <2>2, <2>4
    <3>. QED BY <3>1, <3>2
  <2>. QED BY <2>2, <2>4, <2>5
<1>8. y \in DOMAIN after[size] <=> stating # {}
  <2>. HIDE DEF worst, Said
  <2>. QED BY <1>5, <1>6
<1>9. /\ y \in DOMAIN after[size] <=> Stating(file, names, y, counted) # {}
      /\ y \in DOMAIN after[size] => after[size][y] = Best(file, names, y, counted)
  BY <1>7, <1>8
<1>. QED BY <1>9 DEF size

LEMMA SeriesIs ==
  ASSUME NEW file, file \in Seq(ToSet(file)), NEW names, names \in Seq(ToSet(names)),
         NEW counted, NEW y
  PROVE  LET s == Series(file, names, counted) IN
         /\ y \in DOMAIN s <=> Stating(file, names, y, counted) # {}
         /\ y \in DOMAIN s => s[y] = Best(file, names, y, counted)
<1>. DEFINE size == Len(names)
            chosen == CHOOSE after : RankedUpTo(after, size, file, names, counted)
<1>1. size \in Nat OBVIOUS
<1>2. RankedUpTo(chosen, size, file, names, counted) BY <1>1, NamesAreRead
<1>3. Series(file, names, counted) = chosen[size] BY DEF Series, RankedUpTo
<1>. HIDE DEF chosen
<1>4. PICK s : s = chosen[Len(names)] OBVIOUS
<1>5. /\ y \in DOMAIN s <=> Stating(file, names, y, counted) # {}
      /\ y \in DOMAIN s => s[y] = Best(file, names, y, counted)
  BY <1>2, <1>4, RankedIs, ZenonT(40)
<1>. QED BY <1>3, <1>4, <1>5

(* The API's way to the same: a map of the concepts first.                  *)

IsFunction(f) == f = [x \in DOMAIN f |-> f[x]]

LEMMA OverwrittenIsFunction ==
  ASSUME NEW held, IsFunction(held), NEW file, file \in Seq(ToSet(file)), NEW concept,
         NEW counted
  PROVE  IsFunction(Overwritten(held, file, concept, counted))
<1>. DEFINE size == Len(file)
            upTo == CHOOSE f : WrittenUpTo(f, size, held, file, concept, counted)
<1>1. size \in Nat OBVIOUS
<1>2. WrittenUpTo(upTo, size, held, file, concept, counted) BY <1>1, FileIsRead
<1>3. Overwritten(held, file, concept, counted) = upTo[size]
  BY DEF Overwritten, WrittenUpTo, IsStated, Put
<1>. HIDE DEF upTo
<1>4. \A n \in 0..size :
        upTo[n] = IF n = 0 THEN held
                  ELSE IF IsStated(file, n, concept, counted) THEN Put(upTo[n - 1], file[n])
                  ELSE upTo[n - 1]
  BY <1>2 DEF WrittenUpTo
<1>5. \A n \in 0..size : IsFunction(upTo[n])
  <2>. DEFINE T == {n \in 0..size : ~ IsFunction(upTo[n])}
  <2>. SUFFICES ASSUME T # {} PROVE FALSE OBVIOUS
  <2>1. PICK n \in T : \A k \in T : n <= k
    <3>1. T \subseteq Nat BY <1>1
    <3>. HIDE DEF T
    <3>. QED BY <3>1, LeastNumber
  <2>2. n \in 0..size /\ ~ IsFunction(upTo[n]) BY <2>1
  <2>3. CASE n = 0 BY <1>4, <2>2, <2>3
  <2>4. CASE n # 0
    <3>1. n - 1 \in 0..size /\ n - 1 < n BY <1>1, <2>2, <2>4
    <3>2. IsFunction(upTo[n - 1]) BY <2>1, <3>1
    <3>3. upTo[n] = Put(upTo[n - 1], file[n]) \/ upTo[n] = upTo[n - 1] BY <1>4, <2>2, <2>4
    <3>4. IsFunction(Put(upTo[n - 1], file[n])) BY DEF IsFunction, Put
    <3>. QED BY <2>2, <3>2, <3>3, <3>4
  <2>. QED BY <2>3, <2>4
<1>. QED BY <1>1, <1>3, <1>5

LEMMA SameFunction ==
  ASSUME NEW f, NEW g, IsFunction(f), IsFunction(g), DOMAIN f = DOMAIN g,
         \A x \in DOMAIN f : f[x] = g[x]
  PROVE  f = g
  BY DEF IsFunction

\* To update a series with a concept's map is to write the concept's facts over it.
LEMMA UpdateIsOverwriting ==
  ASSUME NEW held, IsFunction(held), NEW file, file \in Seq(ToSet(file)), NEW concept
  PROVE  Overwritten(held, file, concept, WholeYear(file)) =
           IF concept \in DOMAIN ConceptMap(file)
             THEN Updated(held, ConceptMap(file)[concept]) ELSE held
<1>. DEFINE counted == WholeYear(file)
            new == Overwritten(<<>>, file, concept, counted)
            written == Overwritten(held, file, concept, counted)
            at(y) == At(file, concept, y, counted)
<1>1. \A y : /\ y \in DOMAIN written <=> y \in DOMAIN held \/ at(y) # {}
             /\ \A i \in at(y) : (\A j \in at(y) : i >= j) => written[y] = file[i].value
             /\ at(y) = {} /\ y \in DOMAIN held => written[y] = held[y]
  <2>. HIDE DEF counted
  <2>. QED BY OverwrittenIs
<1>2. PICK none : none = <<>> OBVIOUS
<1>3. \A y : /\ y \in DOMAIN new <=> at(y) # {}
             /\ \A i \in at(y) : (\A j \in at(y) : i >= j) => new[y] = file[i].value
  <2>1. new = Overwritten(none, file, concept, counted) BY <1>2
  <2>2. DOMAIN none = {} BY <1>2
  <2>. HIDE DEF counted, new
  <2>. QED BY <2>1, <2>2, OverwrittenIs
<1>4. \A y : at(y) # {} => \E i \in at(y) : \A j \in at(y) : i >= j
  <2>. SUFFICES ASSUME NEW y, at(y) # {} PROVE \E i \in at(y) : \A j \in at(y) : i >= j
    OBVIOUS
  <2>1. at(y) \subseteq 0..Len(file) /\ Len(file) \in Nat BY DEF At
  <2>. HIDE DEF at
  <2>. QED BY <2>1, GreatestNumber
<1>5. IsFunction(written)
  <2>. HIDE DEF counted
  <2>. QED BY OverwrittenIsFunction
<1>6. DOMAIN ConceptMap(file) = {e.concept : e \in counted} BY DEF ConceptMap
<1>7. CASE concept \in DOMAIN ConceptMap(file)
  <2>1. ConceptMap(file)[concept] = new BY <1>6, <1>7 DEF ConceptMap
  <2>. HIDE DEF new, written, at, counted
  <2>2. IsFunction(Updated(held, new)) BY DEF IsFunction, Updated
  <2>3. DOMAIN Updated(held, new) = DOMAIN written BY <1>1, <1>3 DEF Updated
  <2>4. ASSUME NEW y \in DOMAIN written PROVE written[y] = Updated(held, new)[y]
    <3>1. CASE at(y) # {}
      <4>1. PICK i \in at(y) : \A j \in at(y) : i >= j BY <1>4, <3>1
      <4>2. written[y] = file[i].value /\ new[y] = file[i].value BY <1>1, <1>3, <4>1
      <4>3. y \in DOMAIN new BY <1>3, <3>1
      <4>. QED BY <4>2, <4>3 DEF Updated
    <3>2. CASE at(y) = {}
      <4>1. y \notin DOMAIN new /\ y \in DOMAIN held /\ written[y] = held[y]
        BY <1>1, <1>3, <2>4, <3>2
      <4>. QED BY <4>1 DEF Updated
    <3>. QED BY <3>1, <3>2
  <2>5. written = Updated(held, new) BY <1>5, <2>2, <2>3, <2>4, SameFunction
  <2>. QED BY <1>7, <2>1, <2>5 DEF written, counted
<1>8. CASE concept \notin DOMAIN ConceptMap(file)
  <2>1. \A y : at(y) = {} BY <1>6, <1>8 DEF At, IsStated
  <2>. HIDE DEF new, written, at, counted
  <2>2. DOMAIN written = DOMAIN held BY <1>1, <2>1
  <2>3. \A y \in DOMAIN written : written[y] = held[y] BY <1>1, <2>1, <2>2
  <2>4. written = held BY <1>5, <2>2, <2>3, SameFunction
  <2>. QED BY <1>8, <2>4 DEF written, counted
<1>. QED BY <1>7, <1>8

MergedUpTo(merged, n, map, names) ==
  merged = [k \in 0..n |->
            IF k = 0 THEN <<>>
            ELSE IF Reverse(names)[k] \in DOMAIN map
            THEN Updated(merged[k - 1], map[Reverse(names)[k]])
            ELSE merged[k - 1]]

\* The API's loop over the map takes the steps of a loop over the facts.
LEMMA AnnualSeriesIs ==
  ASSUME NEW file, file \in Seq(ToSet(file)), NEW names, names \in Seq(ToSet(names)),
         NEW y
  PROVE  LET s == AnnualSeries(ConceptMap(file), names)
             counted == WholeYear(file) IN
         /\ y \in DOMAIN s <=> Stating(file, names, y, counted) # {}
         /\ y \in DOMAIN s => s[y] = Best(file, names, y, counted)
<1>. DEFINE size == Len(names)
            counted == WholeYear(file)
            map == ConceptMap(file)
            step(held, concept) ==
              IF concept \in DOMAIN map THEN Updated(held, map[concept]) ELSE held
            merged == CHOOSE m : MergedUpTo(m, size, map, names)
<1>1. size \in Nat OBVIOUS
<1>2. PICK after : RankedUpTo(after, size, file, names, counted) BY <1>1, NamesAreRead
<1>3. /\ after = [k \in 0..size |-> after[k]]
      /\ \A k \in 0..size :
           after[k] = IF k = 0 THEN <<>>
                      ELSE Overwritten(after[k - 1], file, Reverse(names)[k], counted)
  BY <1>2 DEF RankedUpTo, Ordered
<1>. HIDE DEF size
<1>4. \A k \in 0..size : IsFunction(after[k])
  <2>. DEFINE T == {k \in 0..size : ~ IsFunction(after[k])}
  <2>. SUFFICES ASSUME T # {} PROVE FALSE OBVIOUS
  <2>1. PICK k \in T : \A l \in T : k <= l
    <3>1. T \subseteq Nat BY <1>1
    <3>. HIDE DEF T
    <3>. QED BY <3>1, LeastNumber
  <2>2. k \in 0..size /\ ~ IsFunction(after[k]) BY <2>1
  <2>3. CASE k = 0
    <3>1. IsFunction(<<>>) BY DEF IsFunction
    <3>. QED BY <1>3, <2>2, <2>3, <3>1
  <2>4. CASE k # 0
    <3>1. k - 1 \in 0..size /\ k - 1 < k BY <1>1, <2>2, <2>4
    <3>2. IsFunction(after[k - 1]) BY <2>1, <3>1
    <3>3. PICK held, concept : held = after[k - 1] /\ concept = Reverse(names)[k] OBVIOUS
    <3>4. after[k] = Overwritten(held, file, concept, counted) BY <1>3, <2>2, <2>4, <3>3
    <3>5. IsFunction(Overwritten(held, file, concept, counted))
      <4>. HIDE DEF counted
      <4>. QED BY <3>2, <3>3, OverwrittenIsFunction
    <3>. QED BY <2>2, <3>4, <3>5
  <2>. QED BY <2>3, <2>4
<1>5. \A k \in 0..size :
        after[k] = IF k = 0 THEN <<>> ELSE step(after[k - 1], Reverse(names)[k])
  <2>. SUFFICES ASSUME NEW k \in 0..size, k # 0
                PROVE  after[k] = step(after[k - 1], Reverse(names)[k])
    BY <1>3
  <2>1. IsFunction(after[k - 1]) BY <1>1, <1>4
  <2>2. PICK held, concept : held = after[k - 1] /\ concept = Reverse(names)[k] OBVIOUS
  <2>3. after[k] = Overwritten(held, file, concept, counted) BY <1>3, <2>2
  <2>4. Overwritten(held, file, concept, counted) = step(held, concept)
    BY <2>1, <2>2, UpdateIsOverwriting
  <2>. HIDE DEF step, counted
  <2>. QED BY <2>2, <2>3, <2>4
<1>6. MergedUpTo(after, size, map, names)
  <2>. HIDE DEF map
  <2>1. after = [k \in 0..size |->
                   IF k = 0 THEN <<>> ELSE step(after[k - 1], Reverse(names)[k])]
    <3>. HIDE DEF step
    <3>. QED BY <1>3, <1>5
  <2>. QED BY <2>1 DEF MergedUpTo
<1>7. MergedUpTo(merged, size, map, names) BY <1>6
<1>8. AnnualSeries(map, names) = merged[size] BY DEF AnnualSeries, MergedUpTo, size
<1>. HIDE DEF merged, map
<1>9. \A k \in 0..size :
        merged[k] = IF k = 0 THEN <<>> ELSE step(merged[k - 1], Reverse(names)[k])
  BY <1>7 DEF MergedUpTo
<1>10. \A k \in 0..size : merged[k] = after[k]
  <2>. DEFINE T == {k \in 0..size : merged[k] # after[k]}
  <2>. SUFFICES ASSUME T # {} PROVE FALSE OBVIOUS
  <2>1. PICK k \in T : \A l \in T : k <= l
    <3>1. T \subseteq Nat BY <1>1
    <3>. HIDE DEF T
    <3>. QED BY <3>1, LeastNumber
  <2>2. k \in 0..size /\ merged[k] # after[k] BY <2>1
  <2>. HIDE DEF step
  <2>3. CASE k = 0 BY <1>5, <1>9, <2>2, <2>3
  <2>4. CASE k # 0
    <3>1. k - 1 \in 0..size /\ k - 1 < k BY <1>1, <2>2, <2>4
    <3>2. merged[k - 1] = after[k - 1] BY <2>1, <3>1
    <3>. QED BY <1>5, <1>9, <2>2, <2>4, <3>2
  <2>. QED BY <2>3, <2>4
<1>11. AnnualSeries(map, names) = after[size] BY <1>1, <1>8, <1>10
<1>. HIDE DEF counted
<1>12. LET s == after[size] IN
       /\ y \in DOMAIN s <=> Stating(file, names, y, counted) # {}
       /\ y \in DOMAIN s => s[y] = Best(file, names, y, counted)
  BY <1>2, RankedIs DEF size
<1>. QED BY <1>11, <1>12 DEF map, counted

(* The inductive invariant.                                                 *)

Filing(c, e) == [company |-> c, year |-> e.year, figure |-> e.figure, value |-> e.value]

FilingsTypes ==
  /\ factFile \in [Cik -> FactFiles] /\ tickerMap \subseteq Cik /\ symbols \subseteq Cik
  /\ loadedFrom \in [Cik -> FactFiles \union {NoFacts}]

\* What the loader drew from the file it read last is in the graph.
LoadedIsShown ==
  \A c \in Cik : \A e \in ValidRecords(loadedFrom[c]) : Filing(c, e) \in filings

\* An answer was computed from a file of a company.
AnswerIsFetched ==
  IF answer = NoAnswer THEN answer.figures = {}
  ELSE
    /\ answer.company \in Cik /\ answer.file \in FactFiles
    /\ answer.figures = Fetched(answer.file)

FilingsInv == FilingsTypes /\ LoadedIsShown /\ AnswerIsFetched

LEMMA NamesAreSequences ==
  ASSUME NEW f \in Figure
  PROVE  LoaderNames[f] \in Seq(ToSet(LoaderNames[f])) /\ FetcherNames[f] \in Seq(ToSet(FetcherNames[f]))
  BY FilingsAssumption

LEMMA FilesAreSequences ==
  ASSUME NEW file \in FactFiles \union {NoFacts}
  PROVE  file \in Seq(ToSet(file))
<1>1. CASE file \in FactFiles BY <1>1, FilingsAssumption
<1>2. CASE file = NoFacts BY <1>2 DEF NoFacts
<1>. QED BY <1>1, <1>2

\* The years of any figure of a file, for the loader.
LoadedYears(file) ==
  UNION {DOMAIN Series(file, LoaderNames[f], AnnualForm(file)) : f \in Figure}

\* What is extracted of a file is of the series of a figure.
LEMMA ExtractedIs ==
  ASSUME NEW file, NEW e \in ExtractedAnnual(file)
  PROVE  /\ e.figure \in Figure
         /\ LET s == Series(file, LoaderNames[e.figure], AnnualForm(file)) IN
              e.year \in DOMAIN s /\ e.value = s[e.year]
         /\ e.year \in Newest(LoadedYears(file), KeptYears)
<1>. DEFINE raw == [f \in Figure |-> Series(file, LoaderNames[f], AnnualForm(file))]
            years == {y \in Newest(UNION {DOMAIN raw[f] : f \in Figure}, KeptYears) : Plausible(y)}
<1>1. ExtractedAnnual(file) =
        UNION {{[year |-> y, figure |-> f, value |-> raw[f][y]] :
                  y \in years \intersect DOMAIN raw[f]} : f \in Figure}
  BY DEF ExtractedAnnual
<1>0. years \subseteq Newest(LoadedYears(file), KeptYears)
  <2>1. UNION {DOMAIN raw[f] : f \in Figure} = LoadedYears(file) BY DEF LoadedYears
  <2>. HIDE DEF raw
  <2>. QED BY <2>1
<1>. HIDE DEF years
<1>2. PICK f \in Figure : \E y \in years \intersect DOMAIN raw[f] :
        e = [year |-> y, figure |-> f, value |-> raw[f][y]]
  <2>. HIDE DEF raw
  <2>. QED BY <1>1
<1>3. raw[f] = Series(file, LoaderNames[f], AnnualForm(file)) OBVIOUS
<1>. HIDE DEF raw
<1>4. PICK y \in years \intersect DOMAIN raw[f] : e = [year |-> y, figure |-> f, value |-> raw[f][y]]
  BY <1>2
<1>5. e.figure = f /\ e.year = y /\ e.value = raw[f][y] BY <1>4
<1>. QED BY <1>0, <1>3, <1>4, <1>5

LEMMA NothingIsExtracted == ExtractedAnnual(NoFacts) = {}
<1>. SUFFICES ASSUME NEW e \in ExtractedAnnual(NoFacts) PROVE FALSE OBVIOUS
<1>. DEFINE names == LoaderNames[e.figure]
            counted == AnnualForm(NoFacts)
<1>1. e.figure \in Figure /\ e.year \in DOMAIN Series(NoFacts, names, counted) BY ExtractedIs
<1>2. names \in Seq(ToSet(names)) /\ NoFacts \in Seq(ToSet(NoFacts))
  BY <1>1, NamesAreSequences, FilesAreSequences
<1>3. Stating(NoFacts, names, e.year, counted) # {}
  <2>. HIDE DEF names, counted
  <2>. QED BY <1>1, <1>2, SeriesIs
<1>4. \A k : At(NoFacts, names[k], e.year, counted) = {} BY DEF At, NoFacts
<1>. QED BY <1>3, <1>4 DEF Stating

\* What is fetched of a file is of the series of a figure.
FetchedSeries(file, f) == AnnualSeries(ConceptMap(file), FetcherNames[f])

LEMMA FetchedIs ==
  ASSUME NEW file
  PROVE  /\ \A a \in Fetched(file) :
              /\ a.figure \in Figure /\ a.year \in DOMAIN FetchedSeries(file, a.figure)
              /\ a.value = FetchedSeries(file, a.figure)[a.year]
         /\ \A f \in Figure : \A y \in Newest(DOMAIN FetchedSeries(file, f), KeptYears) :
              \E a \in Fetched(file) : a.year = y /\ a.figure = f
<1>. DEFINE of(f) == {[year |-> y, figure |-> f, value |-> FetchedSeries(file, f)[y]] :
                        y \in Newest(DOMAIN FetchedSeries(file, f), KeptYears)}
<1>1. Fetched(file) = UNION {of(f) : f \in Figure} BY DEF Fetched, FetchedSeries
<1>2. ASSUME NEW a \in Fetched(file)
      PROVE  /\ a.figure \in Figure /\ a.year \in DOMAIN FetchedSeries(file, a.figure)
             /\ a.value = FetchedSeries(file, a.figure)[a.year]
  <2>1. PICK f \in Figure : a \in of(f)
    <3>. HIDE DEF of
    <3>. QED BY <1>1
  <2>2. PICK y \in Newest(DOMAIN FetchedSeries(file, f), KeptYears) :
          a = [year |-> y, figure |-> f, value |-> FetchedSeries(file, f)[y]]
    BY <2>1
  <2>. QED BY <2>2 DEF Newest
<1>3. ASSUME NEW f \in Figure, NEW y \in Newest(DOMAIN FetchedSeries(file, f), KeptYears)
      PROVE  \E a \in Fetched(file) : a.year = y /\ a.figure = f
  <2>. DEFINE a == [year |-> y, figure |-> f, value |-> FetchedSeries(file, f)[y]]
  <2>1. a \in of(f) /\ a.year = y /\ a.figure = f OBVIOUS
  <2>. HIDE DEF a, of
  <2>. QED BY <1>1, <2>1
<1>. QED BY <1>2, <1>3

LEMMA FilingsInitially == FilingsInit => FilingsInv
<1>. SUFFICES ASSUME FilingsInit PROVE FilingsInv OBVIOUS
<1>1. FilingsTypes BY DEF FilingsInit, FilingsTypes
<1>2. \A c \in Cik : loadedFrom[c] = NoFacts BY DEF FilingsInit
<1>3. LoadedIsShown BY <1>2, NothingIsExtracted DEF LoadedIsShown, ValidRecords
<1>4. AnswerIsFetched BY DEF FilingsInit, AnswerIsFetched, NoAnswer
<1>. QED BY <1>1, <1>3, <1>4 DEF FilingsInv

LEMMA DownloadsKeep == ASSUME FilingsInv, Downloads PROVE FilingsInv'
<1>1. factFile' \in [Cik -> FactFiles] /\ tickerMap' \subseteq Cik
  BY DEF FilingsInv, FilingsTypes, Downloads
<1>. QED BY <1>1 DEF FilingsInv, FilingsTypes, LoadedIsShown, AnswerIsFetched, Downloads

LEMMA LoadUsFinancialsKeeps == ASSUME FilingsInv, LoadUsFinancials PROVE FilingsInv'
<1>. DEFINE of(c) == {[company |-> c, year |-> e.year, figure |-> e.figure, value |-> e.value] :
                        e \in ValidRecords(factFile[c])}
            new == UNION {of(c) : c \in tickerMap}
<1>1. filings' = UpsertedFilings(filings, new) /\ tickerMap \subseteq Cik
  BY DEF LoadUsFinancials, FilingsInv, FilingsTypes
<1>2. loadedFrom' = [c \in Cik |-> IF c \in tickerMap THEN factFile[c] ELSE loadedFrom[c]]
  BY DEF LoadUsFinancials
<1>3. FilingsTypes' BY <1>2 DEF LoadUsFinancials, FilingsInv, FilingsTypes
<1>4. ASSUME NEW c \in Cik, NEW e \in ValidRecords(loadedFrom'[c])
      PROVE  Filing(c, e) \in filings'
  <2>1. CASE c \in tickerMap
    <3>1. loadedFrom'[c] = factFile[c] BY <1>2, <2>1
    <3>2. Filing(c, e) \in of(c) BY <1>4, <3>1 DEF Filing
    <3>. HIDE DEF of
    <3>3. Filing(c, e) \in new BY <2>1, <3>2
    <3>. HIDE DEF new
    <3>. QED BY <1>1, <3>3 DEF UpsertedFilings
  <2>2. CASE c \notin tickerMap
    <3>1. loadedFrom'[c] = loadedFrom[c] BY <1>2, <2>2
    <3>2. Filing(c, e) \in filings BY <1>4, <3>1 DEF FilingsInv, LoadedIsShown
    <3>3. ASSUME NEW n \in new PROVE n.company # c
      <4>1. PICK d \in tickerMap : n \in of(d)
        <5>. HIDE DEF of
        <5>. QED OBVIOUS
      <4>2. n.company = d BY <4>1
      <4>. QED BY <2>2, <4>1, <4>2
    <3>4. Filing(c, e).company = c BY DEF Filing
    <3>. HIDE DEF new
    <3>. QED BY <1>1, <3>2, <3>3, <3>4 DEF UpsertedFilings
  <2>. QED BY <2>1, <2>2
<1>5. LoadedIsShown' BY <1>4 DEF LoadedIsShown
<1>6. AnswerIsFetched' BY DEF LoadUsFinancials, FilingsInv, AnswerIsFetched
<1>. QED BY <1>3, <1>5, <1>6 DEF FilingsInv

LEMMA LoadEuListingsKeeps == ASSUME FilingsInv, LoadEuListings PROVE FilingsInv'
<1>1. PICK docs \in EsefSummaries :
        LET kept == {i \in DOMAIN docs : docs[i].lei /\ Plausible(docs[i].year)}
            Key(i) == <<docs[i].company, docs[i].year>>
            last == {docs[i] : i \in {i \in kept : \A j \in kept : j > i => Key(j) # Key(i)}} IN
          filings' = UpsertedFilings(filings, {[company |-> d.company, year |-> d.year,
                                         figure |-> "revenue", value |-> d.value] : d \in last})
  BY DEF LoadEuListings
<1>. DEFINE kept == {i \in DOMAIN docs : docs[i].lei /\ Plausible(docs[i].year)}
            Key(i) == <<docs[i].company, docs[i].year>>
            last == {docs[i] : i \in {i \in kept : \A j \in kept : j > i => Key(j) # Key(i)}}
            new == {[company |-> d.company, year |-> d.year,
                     figure |-> "revenue", value |-> d.value] : d \in last}
<1>2. filings' = UpsertedFilings(filings, new) BY <1>1
<1>3. \A n \in new : n.company \notin Cik
  <2>1. \A d \in ToSet(docs) : d.company \notin Cik BY FilingsAssumption
  <2>2. last \subseteq ToSet(docs) BY DEF ToSet
  <2>. HIDE DEF last
  <2>. QED BY <2>1, <2>2
<1>. HIDE DEF new
<1>4. ASSUME NEW c \in Cik, NEW e \in ValidRecords(loadedFrom[c])
      PROVE  Filing(c, e) \in filings'
  <2>1. Filing(c, e) \in filings BY <1>4 DEF FilingsInv, LoadedIsShown
  <2>2. Filing(c, e).company = c BY DEF Filing
  <2>. QED BY <1>2, <1>3, <2>1, <2>2 DEF UpsertedFilings
<1>5. LoadedIsShown' BY <1>4 DEF LoadedIsShown, LoadEuListings
<1>. QED BY <1>5 DEF FilingsInv, FilingsTypes, AnswerIsFetched, LoadEuListings

LEMMA FetchFundamentalsKeeps == ASSUME FilingsInv, FetchFundamentals PROVE FilingsInv'
<1>1. PICK c \in symbols :
        answer' = [company |-> c, file |-> factFile[c], figures |-> Fetched(factFile[c])]
  BY DEF FetchFundamentals
<1>2. c \in Cik /\ factFile[c] \in FactFiles BY DEF FilingsInv, FilingsTypes
<1>3. AnswerIsFetched'
  <2>2. /\ answer'.company = c /\ answer'.file = factFile[c]
        /\ answer'.figures = Fetched(factFile[c])
    BY <1>1
  <2>3. answer' = NoAnswer => answer'.figures = {} BY DEF NoAnswer
  <2>. QED BY <1>2, <2>2, <2>3 DEF AnswerIsFetched
<1>. QED BY <1>3 DEF FilingsInv, FilingsTypes, LoadedIsShown, FetchFundamentals

LEMMA FilingsStep == FilingsInv /\ [FilingsNext]_filingVars => FilingsInv'
<1>. SUFFICES ASSUME FilingsInv, [FilingsNext]_filingVars PROVE FilingsInv' OBVIOUS
<1>1. CASE Downloads BY <1>1, DownloadsKeep
<1>2. CASE LoadUsFinancials BY <1>2, LoadUsFinancialsKeeps
<1>3. CASE LoadUsCompanies
  BY <1>3 DEF LoadUsCompanies, FilingsInv, FilingsTypes, LoadedIsShown, AnswerIsFetched
<1>4. CASE LoadEuListings BY <1>4, LoadEuListingsKeeps
<1>5. CASE StartApi
  BY <1>5 DEF StartApi, FilingsInv, FilingsTypes, LoadedIsShown, AnswerIsFetched, NoAnswer
<1>6. CASE FetchFundamentals BY <1>6, FetchFundamentalsKeeps
<1>7. CASE UNCHANGED filingVars
  BY <1>7 DEF filingVars, FilingsInv, FilingsTypes, LoadedIsShown, AnswerIsFetched
<1>. QED BY <1>1, <1>2, <1>3, <1>4, <1>5, <1>6, <1>7 DEF FilingsNext

(* Readers with the same evidence.                                          *)

\* A reader has facts of a year if one of its concepts states it.
LEMMA FactsAreStated ==
  ASSUME NEW file, NEW names, NEW y, NEW counted
  PROVE  /\ Stating(file, names, y, counted) # {} <=> Facts(file, names, y, counted) # {}
         /\ \A n \in DOMAIN names : \A i \in At(file, names[n], y, counted) :
              i \in Facts(file, names, y, counted) /\ file[i].concept = names[n]
         /\ \A i \in Facts(file, names, y, counted) : \A n \in DOMAIN names :
              file[i].concept = names[n] =>
                n \in Stating(file, names, y, counted) /\ i \in At(file, names[n], y, counted)
<1>1. \A n \in DOMAIN names : \A i \in At(file, names[n], y, counted) :
        i \in Facts(file, names, y, counted) /\ file[i].concept = names[n]
  BY DEF At, Facts, IsStated
<1>2. \A i \in Facts(file, names, y, counted) : \A n \in DOMAIN names :
        file[i].concept = names[n] =>
          n \in Stating(file, names, y, counted) /\ i \in At(file, names[n], y, counted)
  BY DEF At, Facts, IsStated, Stating
<1>3. \A i \in Facts(file, names, y, counted) : \E n \in DOMAIN names : file[i].concept = names[n]
  BY DEF Facts
<1>4. \A n \in Stating(file, names, y, counted) :
        n \in DOMAIN names /\ At(file, names[n], y, counted) # {}
  BY DEF Stating
<1>. QED BY <1>1, <1>2, <1>3, <1>4

\* They have the same best concept, and its last fact in common.
LEMMA SameEvidenceSameValue ==
  ASSUME NEW file, file \in Seq(ToSet(file)), NEW f \in Figure, NEW y,
         SameEvidence(file, f, y), Stating(file, LoaderNames[f], y, AnnualForm(file)) # {}
  PROVE  Best(file, LoaderNames[f], y, AnnualForm(file)) =
           Best(file, FetcherNames[f], y, WholeYear(file))
<1>. DEFINE L == LoaderNames[f]
            F == FetcherNames[f]
            facts == Facts(file, L, y, AnnualForm(file))
<1>1. /\ facts = Facts(file, F, y, WholeYear(file))
      /\ \A i, j \in facts : Prefers(L, file[i].concept, file[j].concept) <=>
                               Prefers(F, file[i].concept, file[j].concept)
  BY DEF SameEvidence
<1>2. L \in Seq(ToSet(L)) /\ F \in Seq(ToSet(F)) BY NamesAreSequences
<1>3. Stating(file, F, y, WholeYear(file)) # {}
  <2>1. facts # {} BY FactsAreStated
  <2>. HIDE DEF facts, F
  <2>. QED BY <1>1, <2>1, FactsAreStated
<1>4. PICK m \in Stating(file, L, y, AnnualForm(file)) : \E i \in At(file, L[m], y, AnnualForm(file)) :
        /\ \A o \in Stating(file, L, y, AnnualForm(file)) : m <= o
        /\ \A j \in At(file, L[m], y, AnnualForm(file)) : i >= j
        /\ Best(file, L, y, AnnualForm(file)) = file[i].value
  <2>. HIDE DEF L
  <2>. QED BY <1>2, BestIs DEF L
<1>5. PICK i \in At(file, L[m], y, AnnualForm(file)) :
        /\ \A j \in At(file, L[m], y, AnnualForm(file)) : i >= j
        /\ Best(file, L, y, AnnualForm(file)) = file[i].value
  BY <1>4
<1>6. PICK n \in Stating(file, F, y, WholeYear(file)) : \E k \in At(file, F[n], y, WholeYear(file)) :
        /\ \A o \in Stating(file, F, y, WholeYear(file)) : n <= o
        /\ \A j \in At(file, F[n], y, WholeYear(file)) : k >= j
        /\ Best(file, F, y, WholeYear(file)) = file[k].value
  <2>. HIDE DEF F
  <2>. QED BY <1>2, <1>3, BestIs
<1>7. PICK k \in At(file, F[n], y, WholeYear(file)) :
        /\ \A j \in At(file, F[n], y, WholeYear(file)) : k >= j
        /\ Best(file, F, y, WholeYear(file)) = file[k].value
  BY <1>6
<1>. HIDE DEF L, F, facts
<1>8. m \in DOMAIN L /\ m \in Nat /\ n \in DOMAIN F /\ n \in Nat BY <1>2 DEF Stating
<1>9. i \in facts /\ file[i].concept = L[m] BY <1>8, FactsAreStated DEF facts
<1>10. k \in facts /\ file[k].concept = F[n] BY <1>1, <1>8, FactsAreStated
<1>11. \A o \in DOMAIN L : L[o] = F[n] => m <= o
  <2>. SUFFICES ASSUME NEW o \in DOMAIN L, L[o] = F[n] PROVE m <= o OBVIOUS
  <2>1. o \in Stating(file, L, y, AnnualForm(file)) BY <1>10, FactsAreStated DEF facts
  <2>. QED BY <1>4, <2>1
<1>12. \A o \in DOMAIN F : F[o] = L[m] => n <= o
  <2>. SUFFICES ASSUME NEW o \in DOMAIN F, F[o] = L[m] PROVE n <= o OBVIOUS
  <2>1. o \in Stating(file, F, y, WholeYear(file)) BY <1>1, <1>9, FactsAreStated
  <2>. QED BY <1>6, <2>1
\* If not, the loader would prefer its concept, and so would the API.
<1>13. L[m] = F[n]
  <2>. SUFFICES ASSUME L[m] # F[n] PROVE FALSE OBVIOUS
  <2>1. \A o \in DOMAIN L : L[o] = F[n] => m < o
    <3>. SUFFICES ASSUME NEW o \in DOMAIN L, L[o] = F[n] PROVE m < o OBVIOUS
    <3>1. o \in Nat /\ m # o /\ m <= o BY <1>2, <1>11
    <3>. QED BY <1>8, <3>1
  <2>2. Prefers(L, L[m], F[n]) BY <1>8, <2>1 DEF Prefers
  <2>3. Prefers(F, L[m], F[n]) BY <1>1, <1>9, <1>10, <2>2
  <2>4. PICK o \in DOMAIN F : F[o] = L[m] /\ o < n BY <1>8, <2>3 DEF Prefers
  <2>5. o \in Nat BY <1>2
  <2>. QED BY <1>8, <1>12, <2>4, <2>5
<1>14. i >= k /\ k >= i
  <2>1. k \in At(file, L[m], y, AnnualForm(file)) BY <1>8, <1>10, <1>13, FactsAreStated DEF facts
  <2>2. i \in At(file, F[n], y, WholeYear(file)) BY <1>1, <1>8, <1>9, <1>13, FactsAreStated
  <2>. QED BY <1>5, <1>7, <2>1, <2>2
<1>15. i = k
  <2>1. i \in Nat /\ k \in Nat BY DEF At
  <2>. QED BY <1>14, <2>1
<1>. QED BY <1>5, <1>7, <1>15 DEF L, F

\* The years that the loader may keep of a file are years of its facts.
LEMMA LoadedYearsAreFinite ==
  ASSUME NEW file \in FactFiles \union {NoFacts}
  PROVE  IsFiniteSet(LoadedYears(file))
<1>. DEFINE Years == {file[i].year : i \in DOMAIN file}
            yearOf == [i \in DOMAIN file |-> file[i].year]
<1>1. file \in Seq(ToSet(file)) BY FilesAreSequences
<1>2. IsFiniteSet(DOMAIN file)
  <2>1. DOMAIN file = 1..Len(file) /\ Len(file) \in Nat BY <1>1
  <2>. QED BY <2>1, FS_Interval
<1>3. yearOf \in Surjection(DOMAIN file, Years) BY DEF Surjection
<1>4. IsFiniteSet(Years)
  <2>. HIDE DEF yearOf, Years
  <2>. QED BY <1>2, <1>3, FS_Surjection
<1>5. ASSUME NEW f \in Figure, NEW y \in DOMAIN Series(file, LoaderNames[f], AnnualForm(file))
      PROVE  y \in Years
  <2>. DEFINE names == LoaderNames[f]
              counted == AnnualForm(file)
  <2>1. names \in Seq(ToSet(names)) BY NamesAreSequences
  <2>2. Stating(file, names, y, counted) # {}
    <3>1. y \in DOMAIN Series(file, names, counted) BY <1>5
    <3>. HIDE DEF names, counted
    <3>. QED BY <1>1, <2>1, <3>1, SeriesIs
  <2>3. \E i \in DOMAIN file : file[i].year = y BY <2>2 DEF Stating, At
  <2>. QED BY <2>3
<1>6. LoadedYears(file) \subseteq Years
  <2>. HIDE DEF Years
  <2>. QED BY <1>5 DEF LoadedYears
<1>. HIDE DEF Years
<1>. QED BY <1>4, <1>6, FS_Subset

\* Whoever is among the newest of more years is among the newest of fewer.
LEMMA NewestOfFewer ==
  ASSUME NEW more, IsFiniteSet(more), NEW fewer, fewer \subseteq more,
         NEW n \in Nat, NEW y \in Newest(more, n), y \in fewer
  PROVE  y \in Newest(fewer, n)
<1>. DEFINE A == {z \in fewer : z > y}
            B == {z \in more : z > y}
<1>1. A \subseteq B /\ B \subseteq more OBVIOUS
<1>2. Cardinality(B) < n BY DEF Newest
<1>. HIDE DEF A, B
<1>3. IsFiniteSet(B) BY <1>1, FS_Subset
<1>4. /\ Cardinality(A) <= Cardinality(B) /\ IsFiniteSet(A)
      /\ Cardinality(A) \in Nat /\ Cardinality(B) \in Nat
  BY <1>1, <1>3, FS_Subset, FS_CardinalityType
<1>5. Cardinality(A) < n BY <1>2, <1>4
<1>. QED BY <1>5 DEF Newest, A

\* With the same evidence in all years of a figure, the two have the same years of it.
LEMMA SameEvidenceSameYears ==
  ASSUME NEW file \in FactFiles \union {NoFacts}, NEW f \in Figure,
         \A o \in ToSet(file) : SameEvidence(file, f, o.year)
  PROVE  DOMAIN FetchedSeries(file, f) = DOMAIN Series(file, LoaderNames[f], AnnualForm(file))
<1>. DEFINE L == LoaderNames[f]
            F == FetcherNames[f]
            annual == AnnualForm(file)
            whole == WholeYear(file)
<1>1. file \in Seq(ToSet(file)) /\ L \in Seq(ToSet(L)) /\ F \in Seq(ToSet(F))
  BY FilesAreSequences, NamesAreSequences
<1>2. \A y : y \in DOMAIN Series(file, L, annual) <=> Stating(file, L, y, annual) # {}
  <2>. HIDE DEF L, annual
  <2>. QED BY <1>1, SeriesIs
<1>3. \A y : y \in DOMAIN FetchedSeries(file, f) <=> Stating(file, F, y, whole) # {}
  <2>1. FetchedSeries(file, f) = AnnualSeries(ConceptMap(file), F) BY DEF FetchedSeries
  <2>. HIDE DEF F
  <2>. QED BY <1>1, <2>1, AnnualSeriesIs
<1>4. \A y : Facts(file, L, y, annual) = Facts(file, F, y, whole)
  <2>. SUFFICES ASSUME NEW y PROVE Facts(file, L, y, annual) = Facts(file, F, y, whole)
    OBVIOUS
  <2>1. CASE \E i \in DOMAIN file : file[i].year = y
    <3>1. PICK i \in DOMAIN file : file[i].year = y BY <2>1
    <3>2. file[i] \in ToSet(file) BY DEF ToSet
    <3>. QED BY <3>1, <3>2 DEF SameEvidence
  <2>2. CASE ~ \E i \in DOMAIN file : file[i].year = y BY <2>2 DEF Facts
  <2>. QED BY <2>1, <2>2
<1>. HIDE DEF L, F, annual, whole
<1>5. \A y : Stating(file, L, y, annual) # {} <=> Stating(file, F, y, whole) # {}
  BY <1>4, FactsAreStated
<1>6. \A y : y \in DOMAIN FetchedSeries(file, f) <=> y \in DOMAIN Series(file, L, annual)
  BY <1>2, <1>3, <1>5
<1>7. DOMAIN FetchedSeries(file, f) = DOMAIN Series(file, L, annual) BY <1>6
<1>. QED BY <1>7 DEF L, annual

\* What the loader logs of a file, and what the API answers of it, is the best.
LEMMA LoggedIsBest ==
  ASSUME NEW file \in FactFiles \union {NoFacts}, NEW e \in ValidRecords(file)
  PROVE  /\ e.value = Best(file, LoaderNames[e.figure], e.year, AnnualForm(file))
         /\ Stating(file, LoaderNames[e.figure], e.year, AnnualForm(file)) # {}
<1>. DEFINE names == LoaderNames[e.figure]
            counted == AnnualForm(file)
<1>1. /\ e.figure \in Figure /\ e.year \in DOMAIN Series(file, names, counted)
      /\ e.value = Series(file, names, counted)[e.year]
  BY ExtractedIs DEF ValidRecords
<1>2. file \in Seq(ToSet(file)) /\ names \in Seq(ToSet(names))
  BY <1>1, FilesAreSequences, NamesAreSequences
<1>3. e.value = Best(file, names, e.year, counted) /\ Stating(file, names, e.year, counted) # {}
  <2>. HIDE DEF names, counted
  <2>. QED BY <1>1, <1>2, SeriesIs
<1>. QED BY <1>3

LEMMA FetchedIsBest ==
  ASSUME NEW file \in FactFiles \union {NoFacts}, NEW a \in Fetched(file)
  PROVE  a.value = Best(file, FetcherNames[a.figure], a.year, WholeYear(file))
<1>. DEFINE names == FetcherNames[a.figure]
<1>1. /\ a.figure \in Figure /\ a.year \in DOMAIN AnnualSeries(ConceptMap(file), names)
      /\ a.value = AnnualSeries(ConceptMap(file), names)[a.year]
  BY FetchedIs DEF FetchedSeries
<1>2. file \in Seq(ToSet(file)) /\ names \in Seq(ToSet(names))
  BY <1>1, FilesAreSequences, NamesAreSequences
<1>. HIDE DEF names
<1>3. a.value = Best(file, names, a.year, WholeYear(file)) BY <1>1, <1>2, AnnualSeriesIs
<1>. QED BY <1>3 DEF names

\* Readers of one file differ in a year only if their evidence does.
LEMMA FilingsAgree == FilingsInv => ReadersAgree
<1>. SUFFICES ASSUME FilingsInv PROVE ReadersAgree OBVIOUS
<1>1. ASSUME NEW c \in Cik, NEW e \in ValidRecords(loadedFrom[c])
      PROVE  \E g \in filings :
               /\ g.company = c /\ g.year = e.year /\ g.figure = e.figure
               /\ g.value = Best(loadedFrom[c], LoaderNames[e.figure], e.year,
                                 AnnualForm(loadedFrom[c]))
  <2>1. loadedFrom[c] \in FactFiles \union {NoFacts} BY DEF FilingsInv, FilingsTypes
  <2>2. e.value = Best(loadedFrom[c], LoaderNames[e.figure], e.year, AnnualForm(loadedFrom[c]))
    BY <1>1, <2>1, LoggedIsBest
  <2>3. Filing(c, e) \in filings BY <1>1 DEF FilingsInv, LoadedIsShown
  <2>. QED BY <2>2, <2>3 DEF Filing
<1>2. answer # NoAnswer =>
        /\ answer.company \in Cik /\ answer.file \in FactFiles
        /\ answer.figures = Fetched(answer.file)
  BY DEF FilingsInv, AnswerIsFetched
<1>3. ASSUME NEW a \in answer.figures
      PROVE  a.value = Best(answer.file, FetcherNames[a.figure], a.year, WholeYear(answer.file))
  <2>1. answer # NoAnswer BY DEF FilingsInv, AnswerIsFetched
  <2>. QED BY <1>2, <1>3, <2>1, FetchedIsBest
<1>4. ASSUME answer # NoAnswer, loadedFrom[answer.company] = answer.file,
             NEW e \in ValidRecords(answer.file),
             SameEvidence(answer.file, e.figure, e.year),
             NEW a \in answer.figures, a.year = e.year, a.figure = e.figure
      PROVE  \E g \in filings : /\ g.company = answer.company /\ g.year = a.year
                                /\ g.figure = a.figure /\ g.value = a.value
  <2>. DEFINE file == answer.file
  <2>1. file \in FactFiles \union {NoFacts} BY <1>2, <1>4
  <2>2. e.figure \in Figure BY ExtractedIs DEF ValidRecords
  <2>3. /\ e.value = Best(file, LoaderNames[e.figure], e.year, AnnualForm(file))
        /\ Stating(file, LoaderNames[e.figure], e.year, AnnualForm(file)) # {}
    BY <1>4, <2>1, LoggedIsBest
  <2>4. file \in Seq(ToSet(file)) BY <2>1, FilesAreSequences
  <2>5. e.value = Best(file, FetcherNames[e.figure], e.year, WholeYear(file))
    BY <1>4, <2>2, <2>3, <2>4, SameEvidenceSameValue
  <2>6. a.value = e.value BY <1>3, <1>4, <2>5
  <2>7. Filing(answer.company, e) \in filings
    BY <1>2, <1>4 DEF FilingsInv, LoadedIsShown
  <2>. QED BY <1>4, <2>6, <2>7 DEF Filing
<1>5. ASSUME answer # NoAnswer, NEW e \in ValidRecords(answer.file),
             \A o \in ToSet(answer.file) : SameEvidence(answer.file, e.figure, o.year)
      PROVE  \E a \in answer.figures : a.year = e.year /\ a.figure = e.figure
  <2>. DEFINE file == answer.file
              loaded == DOMAIN Series(file, LoaderNames[e.figure], AnnualForm(file))
  <2>1. file \in FactFiles \union {NoFacts} BY <1>2, <1>5
  <2>2. /\ e.figure \in Figure /\ e.year \in loaded
        /\ e.year \in Newest(LoadedYears(file), KeptYears)
    BY ExtractedIs DEF ValidRecords
  <2>3. DOMAIN FetchedSeries(file, e.figure) = loaded
    BY <1>5, <2>1, <2>2, SameEvidenceSameYears
  <2>4. loaded \subseteq LoadedYears(file) BY <2>2 DEF LoadedYears
  <2>5. IsFiniteSet(LoadedYears(file)) BY <2>1, LoadedYearsAreFinite
  <2>6. e.year \in Newest(loaded, KeptYears)
    <3>. HIDE DEF loaded, file
    <3>. QED BY <2>2, <2>4, <2>5, FilingsAssumption, NewestOfFewer
  <2>. HIDE DEF loaded
  <2>. QED BY <1>2, <1>5, <2>2, <2>3, <2>6, FetchedIs
<1>. QED BY <1>1, <1>3, <1>4, <1>5 DEF ReadersAgree

\* load_us_financials.py and local_edgar_fetcher.py: graph and API each show of a year
\* the last fact of the concept they rank best, and differ in a year only if they have
\* different facts of it or rank their concepts differently; for any files, names of
\* concepts, junk, tickers and restatements, and runs of the other loaders in between.
THEOREM ReadersShowTheSame == FilingsSpec => []ReadersAgree
<1>1. FilingsInit => FilingsInv BY FilingsInitially
<1>2. FilingsInv /\ [FilingsNext]_filingVars => FilingsInv' BY FilingsStep
<1>3. FilingsInv => ReadersAgree BY FilingsAgree
<1>. QED BY <1>1, <1>2, <1>3, PTL DEF FilingsSpec
=============================================================================
