------------------------------ MODULE QueryStudio ------------------------------
(***************************************************************************)
(* The query endpoints of the public API (src/src/api/routers/query.py).   *)
(* A query is refused by its words, comments and literals left aside, or   *)
(* sent to its store, whose failure becomes a status; the feed catalogue   *)
(* demotes what stops validating.  The schema of a store is read by        *)
(* several statements and cached: of the threads that find it expired one  *)
(* builds it and the others wait.                                          *)
(***************************************************************************)
EXTENDS Integers, Sequences, FiniteSets, SequencesExt

CONSTANTS
  Thread,         \* the threads that ask for a schema
  SchemaLang,     \* the languages asked for, of "cypher", "sql" and "sparql"
  SchemaTtl,      \* _SCHEMA_TTL, in ticks
  QueryText,      \* the queries: [text, lang], a sequence over Sign for "cypher" or "sql"
                  \*   (in SQL without backticks, nested comments, dollar quotes and
                  \*   strings with escapes, which the scan does not know)
  RowCap,         \* _ROW_CAP
  MaxTick,        \* bound: the clock
  MaxSchema,      \* bound: changes of a store's schema
  MaxSchemaFaults \* bound: statements that fail

VARIABLES
  tick,         \* the clock
  schemaOf,     \* schemaOf[l]: how often the schema of the store has changed
  schemaCache,  \* _SCHEMA_CACHE: [at, parts] or NotCached
  building,     \* _SCHEMA_LOCKS: building[l] is the thread that holds the lock, or Free
  thread,       \* what a thread is doing
  query,        \* the query that was answered
  schemaFaults

studioVars == <<tick, schemaOf, schemaCache, building, thread, query, schemaFaults>>

----------------------------------------------------------------------------
(* The words of a query.                                                   *)

\* A query is a sequence of signs: a forbidden word, any other text, a blank (or a
\* parenthesis, or a semicolon; a query of blanks alone is one of newlines), a quote, a
\* backtick, a backslash, the marker of a line comment, a newline, and the two ends of a
\* block comment.
Sign == {"word", "text", "blank", "quote", "tick", "slash", "line", "newline", "open", "close"}

ASSUME StudioAssumption ==
  /\ SchemaLang \subseteq {"cypher", "sql", "sparql"} /\ "free" \notin Thread
  /\ SchemaTtl \in Nat /\ MaxSchema \in Nat /\ RowCap \in Nat
  /\ \A q \in QueryText : q.text \in Seq(Sign)

\* The first place from i on that has the sign, 0 if there is none.
NextOf(q, i, sign) ==
  LET at == {j \in i..Len(q) : q[j] = sign}
  IN  IF at = {} THEN 0 ELSE CHOOSE j \in at : \A k \in at : j <= k

\* Mutant: a literal ends at the next quote in every language.
LiteralEnd_NoEscapes(q, start, lang) == NextOf(q, start + 1, q[start])

\* _literal_end: a backslash takes the next sign along, in the strings of Cypher.
LiteralEnd(q, start, lang) ==
  LET escapes == lang = "cypher" /\ q[start] # "tick"
      end[i \in 1..(Len(q) + 2)] ==
        IF i > Len(q) THEN 0
        ELSE IF escapes /\ q[i] = "slash" THEN end[i + 2]
        ELSE IF q[i] = q[start] THEN i ELSE end[i + 1]
  IN  end[start + 1]

\* Where the comment or literal that opens at i closes, 0 if it does not; a line
\* comment ends before the newline.
Closing(q, i, lang) ==
  IF q[i] = "open" THEN NextOf(q, i + 1, "close") ELSE LiteralEnd(q, i, lang)
LineEnd(q, i) ==
  LET newline == NextOf(q, i, "newline") IN IF newline = 0 THEN Len(q) + 1 ELSE newline

\* _strip_noncode: the places that are left when comments and literals are blanked.  An
\* open comment or literal stays, with all that follows.
CodeOf(q, lang) ==
  LET from[i \in 1..(Len(q) + 1)] ==
        IF i > Len(q) THEN {}
        ELSE IF q[i] = "line" THEN from[LineEnd(q, i)]
        ELSE IF q[i] \notin {"open", "quote", "tick"} THEN {i} \union from[i + 1]
        ELSE IF Closing(q, i, lang) = 0 THEN i..Len(q) ELSE from[Closing(q, i, lang) + 1]
  IN  from[1]

\* What split() tells apart: nothing that is left stands next to the sign but blanks.
StandsApart(q, i, left) ==
  \A j \in {i - 1, i + 1} \intersect DOMAIN q : j \in left => q[j] \in {"blank", "newline"}

\* _validate: an empty query, or one with a forbidden word that stands apart.
Empty(q) == \A i \in DOMAIN q : q[i] = "newline"
Refused(q, lang) ==
  LET code == CodeOf(q, lang)
  IN  Empty(q) \/ \E i \in code : q[i] = "word" /\ StandsApart(q, i, code)

\* The status of what did not answer: a query with parameters or clauses that are not
\* allowed, one that the store cannot run, one that takes too long, a store that is not
\* configured, one that is down, or one whose trouble the driver reports in another way
\* (TransientError).  A Postgres that is down counts as an error of the query.
Troubles == {"notAllowed", "error", "timeout", "unset", "down", "transient"}
Mark(trouble, lang) ==
  CASE trouble = "timeout" -> 504
    [] trouble = "unset" -> 503
    [] trouble = "down" /\ lang = "cypher" -> 503
    [] OTHER -> 400

NoQuery == [text |-> <<>>, lang |-> "none", store |-> "none", status |-> 0,
            rows |-> 0, all |-> 0, truncated |-> FALSE]

RunQuery(q, lang) ==
  /\ query = NoQuery
  /\ LET asked == [NoQuery EXCEPT !.text = q, !.lang = lang]
     IN  IF Refused(q, lang) THEN query' = [asked EXCEPT !.status = 400]
         ELSE \/ \E n \in 0..(RowCap + 1) :
                   query' = [asked EXCEPT !.store = "rows", !.status = 200, !.all = n,
                                          !.rows = IF n < RowCap THEN n ELSE RowCap,
                                          !.truncated = n > RowCap]
              \/ \E trouble \in Troubles :
                   /\ trouble = "unset" => lang = "sql"
                   /\ trouble = "transient" => lang = "cypher"
                   /\ query' = [asked EXCEPT !.store = trouble, !.status = Mark(trouble, lang)]
  /\ UNCHANGED <<tick, schemaOf, schemaCache, building, thread, schemaFaults>>

QueryAnswered ==
  /\ query # NoQuery /\ query' = NoQuery
  /\ UNCHANGED <<tick, schemaOf, schemaCache, building, thread, schemaFaults>>

----------------------------------------------------------------------------
(* The schema of a store.                                                  *)

Free == "free"
NotCached == [at |-> -1, parts |-> <<>>]
AtRest == [pc |-> "rest", lang |-> "none", parts |-> <<>>]

\* The statements of a builder: labels, relationships, the properties of each label and
\* all properties; the columns; the classes and the predicates.
Statements(l) == CASE l = "cypher" -> 4 [] l = "sql" -> 1 [] l = "sparql" -> 2

UpToDate(l) == schemaCache[l] # NotCached /\ tick - schemaCache[l].at < SchemaTtl
StudioInit ==
  /\ tick = 0 /\ schemaFaults = 0 /\ query = NoQuery
  /\ schemaOf = [l \in SchemaLang |-> 0]
  /\ schemaCache = [l \in SchemaLang |-> NotCached]
  /\ building = [l \in SchemaLang |-> Free]
  /\ thread = [c \in Thread |-> AtRest]

\* An answer that is fresh is given at once.
AskSchema(c, l) ==
  /\ thread[c] = AtRest /\ ~ UpToDate(l)
  /\ thread' = [thread EXCEPT ![c] = [AtRest EXCEPT !.pc = "waits", !.lang = l]]
  /\ UNCHANGED <<tick, schemaOf, schemaCache, building, query, schemaFaults>>

\* The cache is looked up again under the lock.
StillExpired(l) == ~ UpToDate(l)

TakeLock(c) ==
  LET l == thread[c].lang
  IN  /\ thread[c].pc = "waits" /\ building[l] = Free
      /\ IF StillExpired(l)
         THEN /\ building' = [building EXCEPT ![l] = c]
              /\ thread' = [thread EXCEPT ![c].pc = "builds"]
         ELSE thread' = [thread EXCEPT ![c] = AtRest] /\ UNCHANGED building
      /\ UNCHANGED <<tick, schemaOf, schemaCache, query, schemaFaults>>

\* One statement of the builder.
ReadSchema(c) ==
  LET l == thread[c].lang
  IN  /\ thread[c].pc = "builds" /\ Len(thread[c].parts) < Statements(l)
      /\ thread' = [thread EXCEPT ![c].parts = Append(@, schemaOf[l])]
      /\ UNCHANGED <<tick, schemaOf, schemaCache, building, query, schemaFaults>>

\* It fails: the triple store's schema goes out, and into the cache, without what is
\* missing; the others' call ends with the error, and nothing is cached.
Unread == -1
SchemaFails(c) ==
  LET l == thread[c].lang
      left == Statements(l) - Len(thread[c].parts)
  IN  /\ thread[c].pc = "builds" /\ left > 0
      /\ schemaFaults < MaxSchemaFaults /\ schemaFaults' = schemaFaults + 1
      /\ IF l = "sparql"
         THEN /\ thread' = [thread EXCEPT ![c].parts = @ \o [i \in 1..left |-> Unread]]
              /\ UNCHANGED building
         ELSE /\ thread' = [thread EXCEPT ![c] = AtRest]
              /\ building' = [building EXCEPT ![l] = Free]
      /\ UNCHANGED <<tick, schemaOf, schemaCache, query>>

\* The entry's age counts from the end of the build.
KeepSchema(c) ==
  LET l == thread[c].lang
  IN  /\ thread[c].pc = "builds" /\ Len(thread[c].parts) = Statements(l)
      /\ schemaCache' = [schemaCache EXCEPT ![l] = [at |-> tick, parts |-> thread[c].parts]]
      /\ building' = [building EXCEPT ![l] = Free]
      /\ thread' = [thread EXCEPT ![c] = AtRest]
      /\ UNCHANGED <<tick, schemaOf, query, schemaFaults>>

\* A loader or an administrator changes what a store holds.
ChangeSchema(l) ==
  /\ schemaOf[l] < MaxSchema
  /\ schemaOf' = [schemaOf EXCEPT ![l] = @ + 1]
  /\ UNCHANGED <<tick, schemaCache, building, thread, query, schemaFaults>>

Tick ==
  /\ tick < MaxTick /\ tick' = tick + 1
  /\ UNCHANGED <<schemaOf, schemaCache, building, thread, query, schemaFaults>>

QueriesNext ==
  \/ \E q \in QueryText : RunQuery(q.text, q.lang)
  \/ QueryAnswered

SchemasNext ==
  \/ \E c \in Thread :
       \/ \E l \in SchemaLang : AskSchema(c, l)
       \/ TakeLock(c) \/ ReadSchema(c) \/ SchemaFails(c) \/ KeepSchema(c)
  \/ \E l \in SchemaLang : ChangeSchema(l)
  \/ Tick

StudioNext == QueriesNext \/ SchemasNext

StudioSpec == StudioInit /\ [][StudioNext]_studioVars

----------------------------------------------------------------------------
(* Properties.                                                             *)

\* What an engine makes of a query, sign by sign: the places where it finds a word to
\* execute, and how it ends.
Reads(m, q, i, lang) ==
  LET s == q[i]
      go(mode) == [mode |-> mode, words |-> m.words]
  IN  CASE m.mode = "code" /\ s = "open" -> go("block")
        [] m.mode = "code" /\ s \in {"line", "quote", "tick"} -> go(s)
        [] m.mode = "code" /\ s = "word" -> [m EXCEPT !.words = @ \union {i}]
        [] m.mode = "block" /\ s = "close" -> go("code")
        [] m.mode = "line" /\ s = "newline" -> go("code")
        [] m.mode \in {"quote", "tick"} /\ s = m.mode -> go("code")
        [] m.mode = "quote" /\ s = "slash" /\ lang = "cypher" -> go("escape")
        [] m.mode = "escape" -> go("quote")
        [] OTHER -> m
Lexed(q, lang) ==
  LET upTo[i \in 0..Len(q)] ==
        IF i = 0 THEN [mode |-> "code", words |-> {}] ELSE Reads(upTo[i - 1], q, i, lang)
  IN  upTo[Len(q)]

\* A query is refused if its engine would execute a forbidden word that stands between
\* blanks, and a query that the engine can read to its end is refused only if one is
\* outside its comments and literals.  A Cypher query whose store is down is not called
\* invalid, so a lost connection unpublishes no feed.  An answer says when rows are
\* missing.
QueriesAreJudged ==
  query # NoQuery =>
    LET lexed == Lexed(query.text, query.lang)
        refused == query.store = "none"
        clear(i) == StandsApart(query.text, i, DOMAIN query.text)
    IN  /\ (\E i \in lexed.words : clear(i)) => refused
        /\ refused /\ lexed.mode \in {"code", "line"} => lexed.words # {} \/ Empty(query.text)
        /\ query.status = 400 /\ query.lang = "cypher" => query.store # "down"
        /\ query.status = 200 => (query.truncated <=> query.rows < query.all)

\* A schema is replaced only when it has expired, however many threads found it expired
\* at once, and no later one shows less of what changed than an earlier one, except for
\* what could not be read.
SchemaIsBuiltOnce ==
  \A l \in SchemaLang : schemaCache'[l] # schemaCache[l] /\ schemaCache[l] # NotCached =>
    /\ tick - schemaCache[l].at >= SchemaTtl
    /\ \A i \in 1..Statements(l) :
         schemaCache'[l].parts[i] \in {Unread} \union schemaCache[l].parts[i]..MaxSchema

\* With every step the Studio judges queries by what is executed, and builds each schema
\* once; at the start there is no query.
StudioIsSound == [][QueriesAreJudged' /\ SchemaIsBuiltOnce]_studioVars
=============================================================================
