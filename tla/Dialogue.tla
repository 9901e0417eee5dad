-------------------------------- MODULE Dialogue --------------------------------
(***************************************************************************)
(* What the GUI and the n2pkvna program promise each other, whatever lies  *)
(* between them.  They take turns: a line is said to the program where it  *)
(* waits for that line, is heard once, and is answered once, by a question *)
(* that the command may ask, by its end, or by the end of the program when *)
(* nothing else is left to be told.  A command that was refused is over;   *)
(* it and no other ends as canceled.  Only when one side leaves does the   *)
(* other go on without it.                                                 *)
(***************************************************************************)
VARIABLES
    state,   \* what the GUI knows: the prompt that it may answer, if any
    line,    \* the line said and not heard
    place,   \* where the program is
    may,     \* what its command may ask, or that it was refused
    told     \* the answer given and not learned

dialogueVars == <<state, line, place, may, told>>

None == "nothing"

\* What may be said where the GUI knows the program to be, and is wanted there.
Offered(st) ==
    CASE st = "ready" -> {"attenuate", "calibrate", "cf", "setup"}
      [] st = "needsACK" -> {"", "q"}
      [] st = "needsMeasuredF" -> {"10.0", "q"}
      [] OTHER -> {}

Prompt == [ready |-> "prompt", needsACK |-> "ack", needsMeasuredF |-> "frequency"]

Questions(command) ==
    CASE command = "calibrate" -> "needsACK"
      [] command = "cf" -> "needsMeasuredF"
      [] OTHER -> None

DialogueInit ==
    /\ state = "closed" /\ line = None
    /\ place = "none" /\ may = None /\ told = None

Start ==
    /\ state = "closed" /\ place = "none"
    /\ place' = "work"
    /\ UNCHANGED <<state, line, may, told>>

\* The GUI speaks where it is asked to.
Say ==
    /\ line' \in Offered(state)
    /\ state' = "sent"
    /\ UNCHANGED <<place, may, told>>

\* A line is heard only at the prompt that it answers.
Hear ==
    \E st \in DOMAIN Prompt :
        /\ place = Prompt[st] /\ line \in Offered(st)
        /\ line' = None
        /\ place' = "work"
        /\ may' = IF st = "ready" THEN Questions(line)
                  ELSE IF line = "q" THEN "refused" ELSE may
        /\ UNCHANGED <<state, told>>

\* The one answer to what was heard.
Tell(answer, next) ==
    /\ place = "work" /\ line = None /\ told = None
    /\ told' = answer
    /\ place' = next
    /\ UNCHANGED <<state, line>>

\* Acknowledgements are asked for as often as it takes, a frequency once.
Ask ==
    \/ may = "needsACK" /\ Tell("needsACK", "ack") /\ UNCHANGED may
    \/ may = "needsMeasuredF" /\ Tell("needsMeasuredF", "frequency") /\ may' = None

\* The end of a command, or of the opening of the device, which may end the
\* program.
Finish ==
    /\ \/ Tell(IF may = "refused" THEN "canceled" ELSE "ok", "prompt")
       \/ \E next \in {"prompt", "exited"} : Tell("error", next)
    /\ may' = None

\* The program ends, with or without having heard what was said.
Exit ==
    /\ place \notin {"none", "exited"}
    /\ place' = "exited"
    /\ line' \in {line, None}
    /\ may' = None
    /\ UNCHANGED <<state, told>>

TellExit ==
    /\ state \in {"closed", "sent"}
    /\ place = "exited" /\ line = None /\ told = None
    /\ told' = "errorExit"
    /\ UNCHANGED <<state, line, place, may>>

\* The GUI has no use for a program that does not open its device.
Learn ==
    /\ told # None
    /\ told' = None
    /\ state' = IF state = "closed"
                THEN IF told = "ok" THEN "ready" ELSE "dead"
                ELSE CASE told \in {"needsACK", "needsMeasuredF"} -> told
                       [] told = "errorExit" -> "exited"
                       [] OTHER -> "ready"
    /\ UNCHANGED <<line, place, may>>

Leaves(next) ==
    /\ state' = next
    /\ line' = None /\ may' = None /\ told' = None
    /\ UNCHANGED place

\* The GUI hangs up, but not in the middle of a question, or is gone.
HangUp == state \in {"ready", "sent", "exited"} /\ Leaves("closing")
Vanish == state # "done" /\ Leaves("dead")

\* The program goes on alone.
RunOn ==
    /\ state \in {"closing", "dead"}
    /\ place \notin {"none", "exited"}
    /\ place' \in {"prompt", "work", "ack", "frequency", "exited"}
    /\ UNCHANGED <<state, line, may, told>>

\* Nothing is left of the program when the GUI has closed it.
Closed ==
    /\ state = "closing" /\ place = "exited"
    /\ state' = "done"
    /\ UNCHANGED <<line, place, may, told>>

DialogueNext ==
    \/ Start \/ Say \/ Hear \/ Ask \/ Finish \/ Exit \/ TellExit \/ Learn
    \/ HangUp \/ Vanish \/ RunOn \/ Closed

DialogueSpec == DialogueInit /\ [][DialogueNext]_dialogueVars
=================================================================================
