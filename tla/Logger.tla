-------------------------------- MODULE Logger --------------------------------
(***************************************************************************)
(* Tools/Logger.h: the entries kept in memory.  An entry is its level and  *)
(* the number of the call that logged it; message and time are left out.   *)
(***************************************************************************)
EXTENDS Integers, Sequences

CONSTANTS
    Cap,        \* entries kept, 200 in the code
    CallLimit   \* bound: calls of the logging functions

VARIABLES
    level,      \* s_level
    entries,    \* s_entries
    calls,      \* history: calls of the logging functions
    kept        \* history: the entries that passed the level since clear()

loggerVars == <<level, entries, calls, kept>>

(* LogLevel: Trace, Debug, Info, Warning, Error, Critical, None.           *)
LogLevel == 0 .. 6
Info == 2
None == 6

LogEntry == [level : LogLevel \ {None}, call : Nat]

LogInit ==
    /\ level = Info
    /\ entries = <<>>
    /\ calls = 0
    /\ kept = <<>>

(* The oldest entry is erased before the new one is stored.                *)
Store(e) ==
    entries' = Append(IF Len(entries) >= Cap THEN Tail(entries) ELSE entries, e)

(* trace() .. critical(), which all call log().                            *)
Log(l) ==
    /\ calls < CallLimit
    /\ calls' = calls + 1
    /\ LET e == [level |-> l, call |-> calls]
       IN  IF l < level
           THEN UNCHANGED <<entries, kept>>
           ELSE Store(e) /\ kept' = Append(kept, e)
    /\ UNCHANGED level

SetLevel(l) ==
    /\ level' = l
    /\ UNCHANGED <<entries, calls, kept>>

Clear ==
    /\ entries' = <<>>
    /\ kept' = <<>>
    /\ UNCHANGED <<level, calls>>

LogNext ==
    \/ \E l \in LogLevel \ {None} : Log(l)
    \/ \E l \in LogLevel : SetLevel(l)
    \/ Clear

LogSpec == LogInit /\ [][LogNext]_loggerVars

-----------------------------------------------------------------------------
(* The types of the logger's variables.                                    *)
LogTypeOK ==
    /\ level \in LogLevel
    /\ entries \in Seq(LogEntry)
    /\ calls \in Nat
    /\ kept \in Seq(LogEntry)

(* README.md: the logger "keeps the last 200 messages in memory".  They are*)
(* the last ones that passed the level of their time, in order, all of them*)
(* while they are fewer, however levels change and the log is cleared.     *)
KeepsTheLast ==
    /\ Len(entries) = IF Len(kept) < Cap THEN Len(kept) ELSE Cap
    /\ \A i \in 1 .. Len(entries) : entries[i] = kept[Len(kept) - Len(entries) + i]
=============================================================================
