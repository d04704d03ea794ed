-------------------------------- MODULE Firds --------------------------------
(***************************************************************************)
(* The nightly FIRDS loader (src/src/etl/load_firds.py): every night it    *)
(* reads the delta files of the last days, newest first, through a disk    *)
(* cache, and emits an event per instrument whose issuer the graph knows.  *)
(* One file a day; a record is what the day's file says of an instrument.  *)
(***************************************************************************)
EXTENDS Integers, Sequences

CONSTANTS
  Isin,          \* equities and funds, the instruments the parser keeps
  WindowDays,    \* _DEFAULT_WINDOW_DAYS
  MaxDay,        \* bound: days
  MaxFirdsFaults \* bound: nights missed, downloads failed, runs killed

ASSUME FirdsAssumption ==
  WindowDays \in Nat /\ MaxDay \in Nat \ {0} /\ MaxFirdsFaults \in Nat

NoRecord == "none"
Wrapper == {"NewRcrd", "ModfdRcrd", "TermntdRcrd"}

VARIABLES
  today,     \* the UTC date
  published, \* what the file of each day says of each instrument
  known,     \* instruments whose issuer's LEI is a company of the graph
  night,     \* "due", "loading" or "over"
  files,     \* the files the run has still to read
  zips,      \* the cache directory: the days whose file is in it
  damaged,   \* those of them that are no ZIP file
  listing,   \* the graph: the record each listing shows
  firdsFaults

firdsVars == <<today, published, known, night, files, zips, damaged, listing,
              firdsFaults>>
zipVars == <<zips, damaged>>

NoListing == [day |-> 0, active |-> FALSE]

\* The last record of an instrument, as a listing shows it.
Latest(i) ==
  LET days == {d \in 1..today : published[d][i] # NoRecord} IN
  IF days = {} THEN NoListing
  ELSE LET d == CHOOSE d \in days : \A e \in days : e <= d
       IN [day |-> d, active |-> published[d][i] # "TermntdRcrd"]

FirdsInit ==
  /\ today = 1
  /\ published \in [{1} -> [Isin -> Wrapper \union {NoRecord}]]
  /\ known \in SUBSET Isin
  /\ night = "due" /\ files = <<>> /\ zips = {} /\ damaged = {}
  /\ listing = [i \in Isin |-> NoListing]
  /\ firdsFaults = 0

----------------------------------------------------------------------------

\* ESMA publishes a day's file; what happens to it does not depend on the run.
Midnight ==
  /\ today < MaxDay /\ night = "over"
  /\ today' = today + 1
  /\ \E records \in [Isin -> Wrapper \union {NoRecord}] :
       published' = [d \in 1..today + 1 |-> IF d <= today THEN published[d] ELSE records]
  /\ night' = "due"
  /\ UNCHANGED <<known, files, zipVars, listing, firdsFaults>>

\* load_gleif lands a company: the issuer of an instrument is found from now on.
LandIssuer ==
  /\ \E i \in Isin \ known : known' = known \union {i}
  /\ UNCHANGED <<today, published, night, files, zipVars, listing, firdsFaults>>

\* default_since.
Since(t) == t - WindowDays

\* The first file there is is that of day 1.
Oldest(t) == IF Since(t) < 1 THEN 1 ELSE Since(t)
InWindow(t) == Oldest(t)..t

\* query_firds_files: newest first.
QueryFiles ==
  /\ night = "due"
  /\ night' = "loading"
  /\ files' = [k \in 1..today + 1 - Oldest(today) |-> today + 1 - k]
  /\ UNCHANGED <<today, published, known, zipVars, listing, firdsFaults>>

\* The register is down, or the deadline or a node kills the run: what has been
\* emitted stays, no file is half written to the cache, and the Job starts over
\* or gives up (backoffLimit).
NightLost ==
  /\ night \in {"due", "loading"} /\ firdsFaults < MaxFirdsFaults
  /\ firdsFaults' = firdsFaults + 1
  /\ night' \in {"due", "over"} /\ files' = <<>>
  /\ UNCHANGED <<today, published, known, zipVars, listing>>

\* A file that is not in the cache cannot be downloaded, or what comes is no ZIP
\* file, which goes into the cache unseen: the run goes on.
DownloadFails ==
  /\ night = "loading" /\ files # <<>> /\ firdsFaults < MaxFirdsFaults
  /\ Head(files) \notin zips
  /\ firdsFaults' = firdsFaults + 1
  /\ \/ UNCHANGED zipVars
     \/ zips' = zips \union {Head(files)} /\ damaged' = damaged \union {Head(files)}
  /\ files' = Tail(files)
  /\ UNCHANGED <<today, published, known, night, listing>>

\* BadZipFile: every run that finds that file in the cache passes it over.
SkipDamaged ==
  /\ night = "loading" /\ files # <<>> /\ Head(files) \in damaged
  /\ files' = Tail(files)
  /\ UNCHANGED <<today, published, known, night, zipVars, listing, firdsFaults>>

\* Mutant: a termination is read like any other record.
Extracted_AlwaysActive(d, i) == [day |-> d, active |-> TRUE]

Extracted(d, i) == [day |-> d, active |-> published[d][i] # "TermntdRcrd"]

\* emit_listings: a record whose issuer is not known is skipped.
Emitted(d) == {i \in known : published[d][i] # NoRecord}

ReadFile ==
  /\ night = "loading" /\ files # <<>> /\ Head(files) \notin damaged
  /\ LET d == Head(files) IN
       /\ zips' = zips \union {d}
       /\ listing' = [i \in Isin |-> IF i \in Emitted(d) THEN Extracted(d, i) ELSE listing[i]]
  /\ files' = Tail(files)
  /\ UNCHANGED <<today, published, known, night, damaged, firdsFaults>>

RunEnds ==
  /\ night = "loading" /\ files = <<>>
  /\ night' = "over"
  /\ UNCHANGED <<today, published, known, files, zipVars, listing, firdsFaults>>

FirdsNext ==
  \/ Midnight \/ LandIssuer \/ QueryFiles \/ NightLost \/ DownloadFails
  \/ SkipDamaged \/ ReadFile \/ RunEnds

FirdsSpec == FirdsInit /\ [][FirdsNext]_firdsVars

----------------------------------------------------------------------------
(* Properties.                                                             *)

\* A listing shows the last record of its instrument once that record is alone
\* in the window, when no night since the record and no download was lost and
\* its issuer was known all along; it never shows what no file said.
SettlesAtLast ==
  \A i \in Isin :
    /\ listing[i] # NoListing =>
         /\ published[listing[i].day][i] # NoRecord
         /\ listing[i].active = (published[listing[i].day][i] # "TermntdRcrd")
    /\ (/\ night = "over" /\ firdsFaults = 0 /\ listing[i] # NoListing
        /\ \A d \in InWindow(today) : published[d][i] # NoRecord => d = Latest(i).day
        /\ Latest(i).day \in InWindow(today))
       => listing[i] = Latest(i)
=============================================================================
