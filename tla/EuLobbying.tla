------------------------------ MODULE EuLobbying -------------------------------
(***************************************************************************)
(* The EU Transparency Register in the graph                               *)
(* (src/src/etl/load_eu_lobbying.py): a run takes the register as it is,   *)
(* or replays a snapshot it kept, emits one disclosure per registrant,     *)
(* chunk by chunk, and then a tombstone for every registrant that was ever *)
(* emitted and is not in the register it read.  The graph is the log,      *)
(* applied in order: a disclosure overwrites the fields it states and      *)
(* leaves the others as they are.                                          *)
(***************************************************************************)
EXTENDS Integers, FiniteSets

CONSTANTS
  Registrant,       \* who may register
  EmitChunk,        \* disclosures in a chunk (EMIT_CHUNK)
  MaxRegisterVersion,\* bound: versions of an entry of the register
  MaxLobbyFaults,   \* bound: runs that die
  MaxLobbyRuns      \* bound: runs

\* The text that replaces a name, where a name is a version.
Redacted == -1

\* An entry of the register: its version stands for the name; lists: whether it
\* names contributors and clients.
Entry == [version : 1..MaxRegisterVersion, lists : BOOLEAN]
Unregistered == [version |-> 0, lists |-> FALSE]

\* A disclosure in the graph: name and list are versions, 0 if never stated.
Undisclosed == [name |-> 0, list |-> 0, active |-> FALSE]

VARIABLES
  register,     \* register[r]: the entry
  snapshots,    \* the registers that were kept on the share
  disclosures,  \* disclosures[r]: what the log says of r
  emittedEver,  \* the registrants that some event in the log is about
  lobbyRun,     \* the run and its local variables
  lobbyFaults, lobbyRuns

lobbyVars == <<register, snapshots, disclosures, emittedEver, lobbyRun,
               lobbyFaults, lobbyRuns>>

\* read: the register the run works from; todo: registrants to emit.
LobbyIdle == [pc |-> "idle", read |-> [r \in Registrant |-> Unregistered], todo |-> {}]

LobbyInit ==
  /\ register = [r \in Registrant |-> Unregistered]
  /\ snapshots = {}
  /\ disclosures = [r \in Registrant |-> Undisclosed]
  /\ emittedEver = {}
  /\ lobbyRun = LobbyIdle /\ lobbyFaults = 0 /\ lobbyRuns = 0

\* A registrant registers, changes its entry, or leaves.
RegisterChanges ==
  /\ lobbyRuns < MaxLobbyRuns
  /\ \E r \in Registrant, e \in Entry \union {Unregistered} :
       /\ e # register[r]
       /\ e.version > 0 => e.version >= register[r].version
       /\ register' = [register EXCEPT ![r] = e]
  /\ UNCHANGED <<snapshots, disclosures, emittedEver, lobbyRun, lobbyFaults, lobbyRuns>>

In(entries) == {r \in Registrant : entries[r] # Unregistered}

\* main: the register is downloaded and kept, or an earlier one is replayed.
StartLobbyRun ==
  /\ lobbyRun.pc = "idle" /\ lobbyRuns < MaxLobbyRuns
  /\ \E read \in {register} \union snapshots :
       /\ lobbyRun' = [pc |-> "emit", read |-> read, todo |-> In(read)]
       /\ snapshots' = snapshots \union {read}
  /\ lobbyRuns' = lobbyRuns + 1
  /\ UNCHANGED <<register, disclosures, emittedEver, lobbyFaults>>

\* Mutant: a name is stated only the first time.
Disclosed_NewOnly(old, e) ==
  [name |-> IF old.name = 0 THEN e.version ELSE old.name,
   list |-> IF e.lists THEN e.version ELSE old.list, active |-> TRUE]

\* _details: what the entry states; an empty list is not stated.
Disclosed(old, e) ==
  [name |-> e.version, list |-> IF e.lists THEN e.version ELSE old.list, active |-> TRUE]

\* emit_lobbyist_disclosures: one chunk, in a transaction.
EmitChunkOf ==
  /\ lobbyRun.pc = "emit" /\ lobbyRun.todo # {}
  /\ \E chunk \in SUBSET lobbyRun.todo :
       /\ Cardinality(chunk) = EmitChunk \/ (chunk = lobbyRun.todo /\ Cardinality(chunk) < EmitChunk)
       /\ disclosures' = [r \in Registrant |->
            IF r \in chunk THEN Disclosed(disclosures[r], lobbyRun.read[r])
                           ELSE disclosures[r]]
       /\ emittedEver' = emittedEver \union chunk
       /\ lobbyRun' = [lobbyRun EXCEPT !.todo = @ \ chunk]
  /\ UNCHANGED <<register, snapshots, lobbyFaults, lobbyRuns>>

\* _prior_disclosure_ids without the registrants of this run.
Dropped(read) == emittedEver \ In(read)

\* emit_deregistrations: one transaction; the names and the lists of names.
EmitTombstones ==
  /\ lobbyRun.pc = "emit" /\ lobbyRun.todo = {}
  /\ disclosures' = [r \in Registrant |->
       IF r \in Dropped(lobbyRun.read)
         THEN [name |-> Redacted, list |-> Redacted, active |-> FALSE]
         ELSE disclosures[r]]
  /\ lobbyRun' = [lobbyRun EXCEPT !.pc = "done"]
  /\ UNCHANGED <<register, snapshots, emittedEver, lobbyFaults, lobbyRuns>>

LobbyRunEnds ==
  /\ lobbyRun.pc = "done" /\ lobbyRun' = LobbyIdle
  /\ UNCHANGED <<register, snapshots, disclosures, emittedEver, lobbyFaults, lobbyRuns>>

\* The deadline of the job, as when the scan of the log took too long.
LobbyRunDies ==
  /\ lobbyRun.pc = "emit" /\ lobbyFaults < MaxLobbyFaults
  /\ lobbyFaults' = lobbyFaults + 1 /\ lobbyRun' = LobbyIdle
  /\ UNCHANGED <<register, snapshots, disclosures, emittedEver, lobbyRuns>>

LobbyNext ==
  \/ RegisterChanges \/ StartLobbyRun \/ EmitChunkOf \/ EmitTombstones
  \/ LobbyRunEnds \/ LobbyRunDies

LobbySpec == LobbyInit /\ [][LobbyNext]_lobbyVars

----------------------------------------------------------------------------
(* Properties                                                              *)

\* When a run has gone to its end, a registrant of the register it read is
\* active under its name there, and every other one of which the log ever told
\* the name has neither name nor lists left, also those that a run which died
\* half way had emitted, or whose departure such a run had missed.
GraphFollowsRegister ==
  lobbyRun.pc = "done" =>
    \A r \in Registrant :
      IF r \in In(lobbyRun.read)
        THEN /\ disclosures[r].active
             /\ disclosures[r].name = lobbyRun.read[r].version
             /\ lobbyRun.read[r].lists => disclosures[r].list = lobbyRun.read[r].version
        ELSE ~disclosures[r].active /\ disclosures[r].name \in {0, Redacted}
                                    /\ disclosures[r].list \in {0, Redacted}
=============================================================================
