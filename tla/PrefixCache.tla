---------------------------- MODULE PrefixCache ----------------------------
(***************************************************************************)
(* The silent-miss warning of cache_state.py.  Anthropic keeps the prefix  *)
(* of a prompt for an hour after its last use; record_cache_telemetry      *)
(* compares what a call read with the record an earlier call left in       *)
(* cache_state.json, and then leaves its own.  Commands overlap, the file  *)
(* is loaded and saved without a lock, and the provider may drop a prefix. *)
(***************************************************************************)
EXTENDS Integers, FiniteSets

CONSTANTS
    Commands,       \* processes that make one call after another
    Versions,       \* texts of one task's prompt, after an upgrade or before
    NoRecord, Gone, \* nothing on file; nothing kept
    ProviderTtl,    \* how long the provider keeps a prefix
    CacheTtl,       \* CACHE_TTL_SECONDS
    LastTime, MaxSaves, MaxDrops    \* bounds

ASSUME PrefixAssumption ==
    CacheTtl \in Nat /\ ProviderTtl \in Nat /\ Gone \notin Int

VARIABLES
    minute,
    prefix,         \* the provider: when a version was last used
    stateFile,      \* the record of the task in cache_state.json
    turn,           \* the command: step, version, whether it read the cache
    \* history
    saves,          \* records saved so far
    drops           \* prefixes the provider dropped before their time

prefixCache == <<minute, prefix, stateFile, turn, saves, drops>>

NoTurn == [step |-> "idle", hash |-> NoRecord, read |-> FALSE, began |-> 0,
           saved |-> 0, dropped |-> 0, by |-> NoRecord]

PrefixInit ==
    /\ minute = 0
    /\ prefix = [v \in Versions |-> Gone]
    /\ stateFile = NoRecord
    /\ turn = [c \in Commands |-> NoTurn]
    /\ saves = 0 /\ drops = 0

TimePasses ==
    /\ minute < LastTime
    /\ minute' = minute + 1
    /\ UNCHANGED <<prefix, stateFile, turn, saves, drops>>

DropPrefix(v) ==
    /\ drops < MaxDrops /\ prefix[v] # Gone
    /\ prefix' = [prefix EXCEPT ![v] = Gone]
    /\ drops' = drops + 1
    /\ UNCHANGED <<minute, stateFile, turn, saves>>

Kept(v) == prefix[v] # Gone /\ minute - prefix[v] <= ProviderTtl

\* messages.stream, with cache_control on the system block: a prefix that is
\* kept is read, and its hour starts again.
AskProvider(c, v) ==
    /\ turn[c].step = "idle" /\ saves < MaxSaves
    /\ turn' = [turn EXCEPT ![c] =
                   [NoTurn EXCEPT !.step = IF Kept(v) THEN "streaming" ELSE "asked",
                        !.hash = v, !.read = Kept(v),
                        !.began = minute, !.saved = saves, !.dropped = drops]]
    /\ prefix' = IF Kept(v) THEN [prefix EXCEPT ![v] = minute] ELSE prefix
    /\ UNCHANGED <<minute, stateFile, saves, drops>>

\* The first token; what was not kept is kept from here on.
AnswerBegins(c) ==
    /\ turn[c].step = "asked"
    /\ prefix' = [prefix EXCEPT ![turn[c].hash] = minute]
    /\ turn' = [turn EXCEPT ![c].step = "streaming"]
    /\ UNCHANGED <<minute, stateFile, saves, drops>>

\* Mutant of Suspected: any record of the task counts.
SuspectedAcrossVersions(c, r) ==
    /\ ~turn[c].read
    /\ r # NoRecord
    /\ minute - r.at <= CacheTtl

\* check_for_silent_miss.
Suspected(c, r) ==
    /\ ~turn[c].read
    /\ r # NoRecord
    /\ r.hash = turn[c].hash
    /\ minute - r.at <= CacheTtl

CheckMiss(c) ==
    /\ turn[c].step = "streaming"
    /\ turn' = [turn EXCEPT ![c].step = "record",
                    ![c].by = IF Suspected(c, stateFile) THEN stateFile ELSE NoRecord]
    /\ UNCHANGED <<minute, prefix, stateFile, saves, drops>>

\* record_cache_write: the file is replaced.  One temporary file serves every
\* process, so two that save at a time may leave a file no reader can parse,
\* and an OSError leaves the old one.
RecordCall(c) ==
    /\ turn[c].step = "record"
    /\ \/ stateFile' = [hash |-> turn[c].hash, at |-> minute, n |-> saves + 1,
                        long |-> minute - turn[c].began > ProviderTtl - CacheTtl,
                        dropped |-> turn[c].dropped]
       \/ /\ \E d \in Commands \ {c} : turn[d].step = "record"
          /\ stateFile' = NoRecord
       \/ UNCHANGED stateFile
    /\ saves' = saves + 1
    /\ turn' = [turn EXCEPT ![c] = NoTurn]
    /\ UNCHANGED <<minute, prefix, drops>>

\* An error of the SDK, or the process dies.
CallEnds(c) ==
    /\ turn[c].step # "idle"
    /\ turn' = [turn EXCEPT ![c] = NoTurn]
    /\ UNCHANGED <<minute, prefix, stateFile, saves, drops>>

PrefixNext ==
    \/ TimePasses
    \/ \E v \in Versions : DropPrefix(v)
    \/ \E c \in Commands :
        \/ \E v \in Versions : AskProvider(c, v)
        \/ AnswerBegins(c) \/ CheckMiss(c) \/ RecordCall(c) \/ CallEnds(c)

PrefixSpec == PrefixInit /\ [][PrefixNext]_prefixCache

-----------------------------------------------------------------------------
(* Properties.                                                             *)

\* check_for_silent_miss, "Something between calls is invalidating the prefix":
\* a warning means that the provider dropped the prefix after the call on
\* record began, unless that call was recorded while this one was under way or
\* took longer than the buffer between the two lifetimes.
WarningsAreEarned ==
    \A c \in Commands : turn[c].by # NoRecord =>
        \/ drops > turn[c].by.dropped
        \/ turn[c].by.n > turn[c].saved
        \/ turn[c].by.long

=============================================================================
