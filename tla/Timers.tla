------------------------------- MODULE Timers -------------------------------
(***************************************************************************)
(* alarm.cpp and stopwatch.cpp with its countdown: loops that look at the  *)
(* clock, wait in select for a line or a second, and read the line with    *)
(* fgets.  select sees what is in the terminal, not what fgets has kept of *)
(* a line that did not fit its buffer.                                     *)
(***************************************************************************)
EXTENDS Integers, Sequences

CONSTANTS
    MaxSeconds,     \* of an alarm or a countdown
    MaxLines        \* bounds the lines that wait in the terminal

\* What is assumed of the constants, where they get their values.
TimersAssumption == MaxSeconds \in Nat

VARIABLES
    tool,
    at,         \* its place; "refused" and "quit" are those of a dialogue without a loop
    left,       \* the seconds until end_time
    typed,      \* the lines in the terminal; the first letter is all that counts
    kept,       \* what fgets has kept of a long line
    eof,
    rung,       \* where the alarm or the countdown has announced its end
    cancelled   \* whether a 'q' ended the loop

input == <<typed, kept, eof>>
vars == <<tool, at, left, input, rung, cancelled>>

Timed == tool \in {"alarm", "countdown"}
InLoop == at \in {"check", "select"}

\* fgets: the next piece, or nothing at the end of the input.
Piece == IF kept # <<>> THEN kept[1] ELSE typed[1]
Answered ==
    /\ IF kept # <<>>
       THEN kept' = Tail(kept) /\ UNCHANGED typed
       ELSE /\ typed # <<>>
            /\ typed' = Tail(typed)
            /\ kept' = IF Head(typed) = "long" THEN <<"other">> ELSE <<>>
    /\ UNCHANGED eof
AtEnd == kept = <<>> /\ typed = <<>> /\ eof
Unanswered == AtEnd /\ UNCHANGED input
Ready == typed # <<>> \/ eof

\* The user types a line, or closes the input.
Types ==
    /\ ~eof
    /\ \/ Len(typed) < MaxLines /\ UNCHANGED eof
          /\ \E l \in {"q", "other", "long"} : typed' = Append(typed, l)
       \/ eof' = TRUE /\ UNCHANGED typed
    /\ UNCHANGED <<tool, at, left, kept, rung, cancelled>>

\* A second passes on the way to end_time, which is worked out when all is answered.
Tick ==
    /\ at \notin {"message", "choice"}
    /\ left > 0 /\ left' = left - 1
    /\ UNCHANGED <<tool, at, input, rung, cancelled>>

-----------------------------------------------------------------------------

\* The chronometer's menu: stopwatch, countdown or quit.
ChoosesTool ==
    /\ tool = "chronometer" /\ at = "ask"
    /\ \/ Answered /\ tool' = "stopwatch" /\ at' = "check"
       \/ Answered /\ tool' = "countdown" /\ at' = "ask"
       \/ (Answered \/ Unanswered) /\ at' = "quit" /\ UNCHANGED tool
    /\ UNCHANGED <<left, rung, cancelled>>

\* What is no number is zero.  At the end of the input the alarm returns, and the countdown
\* goes on with whatever is in its buffer.
AsksSeconds ==
    /\ at = "ask" /\ Timed
    /\ \/ Answered /\ left' \in 0..MaxSeconds
       \/ Unanswered /\ tool = "countdown" /\ left' \in 0..MaxSeconds
       \/ Unanswered /\ tool = "alarm" /\ UNCHANGED left
    /\ at' = CASE tool = "countdown" -> "check"
               [] AtEnd -> "quit"
               [] left' = 0 -> "refused"
               [] OTHER -> "message"
    /\ UNCHANGED <<tool, rung, cancelled>>

AsksMessage ==
    /\ at = "message"
    /\ Answered \/ Unanswered
    /\ at' = "choice"
    /\ UNCHANGED <<tool, left, rung, cancelled>>

\* Without an answer choice_buf is not written, and may read as either.
Chooses ==
    /\ at = "choice"
    /\ Answered \/ Unanswered
    /\ \/ at' = "check" /\ UNCHANGED tool
       \/ tool' = "alarm daemon" /\ at' = "sleep"
    /\ UNCHANGED <<left, rung, cancelled>>

ChecksTime ==
    /\ at = "check"
    /\ IF Timed /\ left = 0 THEN at' = "announce" ELSE at' = "select"
    /\ UNCHANGED <<tool, left, input, rung, cancelled>>

\* Mutant: fgets is called without select.
TimesOut_never ==
    /\ at = "select" /\ FALSE
    /\ UNCHANGED vars

TimesOut ==
    /\ at = "select" /\ ~Ready
    /\ at' = "check"
    /\ UNCHANGED <<tool, left, input, rung, cancelled>>

\* A cancelled alarm ends at once; a countdown first looks at the clock again.
ReadsLine ==
    /\ at = "select" /\ Ready
    /\ \/ Answered
          /\ cancelled' = (Piece = "q")
          /\ at' = IF Piece # "q" THEN "check"
                   ELSE CASE tool = "alarm" -> "ended"
                          [] tool = "countdown" -> "announce"
                          [] OTHER -> "enter"
       \/ Unanswered /\ at' = "check" /\ UNCHANGED cancelled
    /\ UNCHANGED <<tool, left, rung>>

\* Mutant: time is up only when the clock is past end, which it need not be at its last look.
Announces_later ==
    /\ at = "announce"
    /\ rung' = IF tool = "alarm" THEN "terminal" ELSE rung
    /\ at' = "enter"
    /\ UNCHANGED <<tool, left, input, cancelled>>

\* "TIME'S UP!" and trigger_alarm_notification(-1, msg).
Announces ==
    /\ at = "announce"
    /\ rung' = IF tool = "alarm" \/ left = 0 THEN "terminal" ELSE rung
    /\ at' = "enter"
    /\ UNCHANGED <<tool, left, input, cancelled>>

\* Behind setsid /dev/tty cannot be opened, and stdout is closed.
DaemonRings ==
    /\ at = "sleep" /\ left = 0
    /\ rung' = "nowhere" /\ at' = "ended"
    /\ UNCHANGED <<tool, left, input, cancelled>>

PressEnter ==
    /\ at \in {"enter", "refused"}
    /\ Answered \/ Unanswered
    /\ at' = IF at = "enter" THEN "ended" ELSE "quit"
    /\ UNCHANGED <<tool, left, rung, cancelled>>

-----------------------------------------------------------------------------

Init ==
    /\ tool \in {"alarm", "chronometer"}
    /\ at = "ask" /\ left = 0
    /\ typed = <<>> /\ kept = <<>> /\ eof = FALSE
    /\ rung = "" /\ cancelled = FALSE

Runs ==
    \/ ChoosesTool \/ AsksSeconds \/ AsksMessage \/ Chooses \/ ChecksTime \/ TimesOut \/ ReadsLine
    \/ Announces \/ DaemonRings \/ PressEnter

Next == Runs \/ Types \/ Tick

\* The program runs on, and so does the time.
Fairness == WF_vars(Runs) /\ WF_vars(Tick)

Spec == Init /\ [][Next]_vars /\ Fairness

-----------------------------------------------------------------------------

TypeOK ==
    /\ tool \in {"alarm", "chronometer", "countdown", "stopwatch", "alarm daemon"}
    /\ at \in {"ask", "message", "choice", "check", "select", "announce", "sleep", "enter", "ended",
               "refused", "quit"}
    /\ left \in 0..MaxSeconds
    /\ typed \in Seq({"q", "other", "long"}) /\ kept \in Seq({"other"})
    /\ eof \in BOOLEAN /\ rung \in {"", "terminal", "nowhere"} /\ cancelled \in BOOLEAN

\* Nothing is announced before its time, and no alarm that was cancelled; an alarm or a
\* countdown whose loop is left has announced its end, unless a 'q' cancelled it.
RingsInTime ==
    /\ TypeOK
    /\ rung # "" => left = 0 /\ (tool = "alarm" => ~cancelled)
    /\ at \in {"enter", "ended"} /\ Timed => rung = "terminal" \/ cancelled

\* An alarm and a countdown end though nobody types anything, or the input has ended; a 'q'
\* ends each loop, also behind other lines and pieces of lines.
LoopEnds ==
    /\ InLoop /\ Timed ~> ~InLoop
    /\ (\E i \in DOMAIN typed : typed[i] = "q") /\ InLoop ~> ~InLoop

\* "It will beep 3 times when ready." (alarm.cpp:78)
DaemonIsHeard == at = "sleep" ~> rung = "terminal"
=============================================================================
