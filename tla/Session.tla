------------------------------- MODULE Session --------------------------------
(***************************************************************************)
(* The graphical interface driving the n2pkvna program: the N2PKVNA object *)
(* and run_command_dialog of n2pkvna-gui.pl, its worker thread, and the    *)
(* program run with -Y (main.c, cli.c, message.c), joined by two queues    *)
(* and two pipes.                                                          *)
(*                                                                         *)
(*   GUI -- requestQ --> worker -- toChild ----> n2pkvna -Y                *)
(*       <- responseQ --        <- fromChild --                            *)
(*                                                                         *)
(* Nothing in a line or a document says what it answers: that the parties  *)
(* agree on it is what is shown here.  The lines are the commands, the     *)
(* YAML input of "setup yload" (one line here) and the answers; of a       *)
(* document only the status is kept.  The commands are one of each kind:   *)
(* attenuate (no dialog, as generate, switch and convert), calibrate (may  *)
(* ask for acknowledgements, as measure), cf (asks for a frequency) and    *)
(* setup (reads input).  The operator never types "q" as a command: the    *)
(* GUI has no such button.                                                 *)
(***************************************************************************)
EXTENDS Integers, Sequences

VARIABLES
    gui,           \* what the main thread of the GUI does
    state,         \* N2PKVNA->{state}
    status,        \* {status} of the response in run_command_callback
    async,         \* run_command_dialog was given a callback (and a message)
    refused,       \* history: the operator canceled the command being run
    requestQ, responseQ,                      \* the two Thread::Queues
    worker,        \* what the worker thread does
    toChild, fromChild,                       \* contents of the two pipes
    stdinClosed, stdoutClosed,                \* the worker's ends of them
    child,         \* what the program does, "none" before open2
    asks,          \* the prompt that the command being run may still make
    errors,        \* gs_messages has "errors"
    canceled,      \* gs_canceled
    killed         \* the program did not end by itself

guiVars == <<gui, state, status, async, refused>>
workerVars == <<requestQ, responseQ, worker>>
pipeVars == <<toChild, fromChild, stdinClosed, stdoutClosed>>
childVars == <<child, asks, errors, canceled, killed>>
vars == <<guiVars, workerVars, pipeVars, childVars>>

Command == {"attenuate", "calibrate", "cf", "setup"}
Answer == {"", "q", "10.0"}          \* sendACK([]), (["q"]), ([$value])
Input == "YAML..."
Line == Command \cup Answer \cup {Input}

Status == {"ok", "error", "canceled", "needsACK", "needsMeasuredF"}
NoStatus == "none"

Open == [op |-> "open", line |-> ""]
Close == [op |-> "close", line |-> ""]
Shutdown == [op |-> "shutdown", line |-> ""]
Send(line) == [op |-> "send", line |-> line]

Init ==
    /\ gui = "start" /\ state = "closed" /\ status = NoStatus
    /\ async = FALSE /\ refused = FALSE
    /\ requestQ = <<>> /\ responseQ = <<>> /\ worker = "idle"
    /\ toChild = <<>> /\ fromChild = <<>>
    /\ stdinClosed = FALSE /\ stdoutClosed = FALSE
    /\ child = "none" /\ asks = "nothing"
    /\ errors = FALSE /\ canceled = FALSE /\ killed = FALSE

-----------------------------------------------------------------------------
(***************************************************************************)
(* The main thread of the GUI.                                             *)
(***************************************************************************)
Request(request) == requestQ' = Append(requestQ, request)

\* openVNA: enqueue and wait.
OpenVNA ==
    /\ gui = "start"
    /\ gui' = "opening"
    /\ Request(Open)
    /\ UNCHANGED <<state, status, async, refused, responseQ, worker, pipeVars,
                   childVars>>

\* The end of the GUI takes its thread and its ends of the pipes with it.
GuiDies ==
    /\ gui' = "dead"
    /\ worker' = "gone"
    /\ stdinClosed' = TRUE
    /\ stdoutClosed' = TRUE

\* openVNA returns; "die "$r->{errors}" if $r->{status} ne "ok"".
Opened ==
    /\ gui = "opening"
    /\ responseQ # <<>>
    /\ responseQ' = Tail(responseQ)
    /\ IF Head(responseQ) = "ok"
       THEN /\ gui' = "main"
            /\ state' = "ready"
            /\ UNCHANGED <<worker, stdinClosed, stdoutClosed>>
       ELSE GuiDies /\ UNCHANGED state
    /\ UNCHANGED <<status, async, refused, requestQ, toChild, fromChild,
                   childVars>>

\* run_command_dialog; in any state but "ready" it only shows "VNA device not
\* open".  The response is waited for here, or polled for by a timer: that of
\* calibrate and measure, the commands given a callback.
Polled(command) == command = "calibrate"

RunCommand(command) ==
    /\ gui = "main"
    /\ state = "ready"
    /\ Request(Send(command))
    /\ state' = "sent"
    /\ async' = Polled(command)
    /\ gui' = IF Polled(command) THEN "poll" ELSE "wait"
    /\ refused' = FALSE
    /\ UNCHANGED <<status, responseQ, worker, pipeVars, childVars>>

\* Mutant: needsMeasuredF is not told from the end of the command.
StateWithoutF(st) ==
    CASE st = "needsACK" -> "needsACK"
      [] st = "errorExit" -> "exited"
      [] OTHER -> "ready"

StateAfter(st) ==
    CASE st = "needsACK" -> "needsACK"
      [] st = "needsMeasuredF" -> "needsMeasuredF"
      [] st = "errorExit" -> "exited"
      [] OTHER -> "ready"

\* receiveResponse, waiting or from run_command_timer_cb; the response goes to
\* run_command_callback.
ReceiveResponse ==
    /\ gui \in {"wait", "poll"}
    /\ responseQ # <<>>
    /\ responseQ' = Tail(responseQ)
    /\ status' = Head(responseQ)
    /\ state' = StateAfter(status')
    /\ gui' = "callback"
    /\ UNCHANGED <<async, refused, requestQ, worker, pipeVars, childVars>>

\* run_command_callback: a dialog for an answer, or the end of the command,
\* with its result, silently or with an error dialog.
RunCommandCallback ==
    /\ gui = "callback"
    /\ gui' = CASE status = "needsACK" -> "ackDialog"
                [] status = "needsMeasuredF" -> "freqDialog"
                [] OTHER -> "main"
    /\ status' = NoStatus
    /\ UNCHANGED <<state, async, refused, workerVars, pipeVars, childVars>>

\* sendACK.  After a "q" the answer is waited for, with a callback too.
SendACK(line) ==
    /\ state \in {"needsACK", "needsMeasuredF"}
    /\ Request(Send(line))
    /\ state' = "sent"
    /\ refused' = (refused \/ line = "q")
    /\ UNCHANGED <<status, async, responseQ, worker, pipeVars, childVars>>

Acknowledge(line) ==
    /\ gui = "ackDialog"
    /\ line \in {"", "q"}
    /\ gui' = IF async /\ line = "" THEN "poll" ELSE "wait"
    /\ SendACK(line)

AnswerFrequency(line) ==
    /\ gui = "freqDialog"
    /\ line \in {"10.0", "q"}
    /\ gui' = "wait"
    /\ SendACK(line)

\* quit, closeVNA: the window takes no event during a dialog or a wait, but
\* does while a timer polls.
Quit ==
    /\ gui \in {"main", "poll"}
    /\ Request(Close)
    /\ state' = "closed"
    /\ gui' = "closing"
    /\ UNCHANGED <<status, async, refused, responseQ, worker, pipeVars,
                   childVars>>

\* closeVNA drops responses until "closed"; then shutdown.
Drain ==
    /\ gui = "closing"
    /\ responseQ # <<>>
    /\ responseQ' = Tail(responseQ)
    /\ IF Head(responseQ) = "closed"
       THEN gui' = "joining" /\ Request(Shutdown)
       ELSE UNCHANGED <<gui, requestQ>>
    /\ UNCHANGED <<state, status, async, refused, worker, pipeVars, childVars>>

Joined ==
    /\ gui = "joining"
    /\ worker = "ended"
    /\ gui' = "done"
    /\ UNCHANGED <<state, status, async, refused, workerVars, pipeVars,
                   childVars>>

\* The GUI is killed, or loses its display.
GuiEnds ==
    /\ gui \notin {"done", "dead"}
    /\ GuiDies
    /\ UNCHANGED <<state, status, async, refused, requestQ, responseQ, toChild,
                   fromChild, childVars>>

-----------------------------------------------------------------------------
(***************************************************************************)
(* The worker thread.                                                      *)
(***************************************************************************)
Respond(response) == responseQ' = Append(responseQ, response)

Takes(op) ==
    /\ worker = "idle"
    /\ requestQ # <<>>
    /\ Head(requestQ).op = op
    /\ requestQ' = Tail(requestQ)

\* open2 starts the program, or raises an exception that ends the thread and
\* leaves the request without a response.
WorkerOpens ==
    /\ Takes("open")
    /\ \/ child' = "opening" /\ worker' = "reading"
       \/ child' = child /\ worker' = "ended"
    /\ UNCHANGED <<responseQ, guiVars, pipeVars, asks, errors, canceled,
                   killed>>

\* A write to the pipe: without a reader it is a SIGPIPE, which nothing
\* handles, for the whole GUI.
Write(line, next) ==
    IF child = "exited"
    THEN GuiDies /\ UNCHANGED toChild
    ELSE /\ toChild' = Append(toChild, line)
         /\ worker' = next
         /\ UNCHANGED <<gui, stdinClosed, stdoutClosed>>

WorkerSends ==
    /\ Takes("send")
    /\ LET line == Head(requestQ).line
       IN  Write(line, IF line = "setup" THEN "input" ELSE "reading")
    /\ UNCHANGED <<state, status, async, refused, responseQ, fromChild,
                   childVars>>

WorkerSendsInput ==
    /\ worker = "input"
    /\ Write(Input, "reading")
    /\ UNCHANGED <<state, status, async, refused, requestQ, responseQ,
                   fromChild, childVars>>

\* Mutant: waits for a document that an ended program will not write.
WorkerReadsDocument ==
    /\ worker = "reading"
    /\ fromChild # <<>>
    /\ fromChild' = Tail(fromChild)
    /\ Respond(Head(fromChild))
    /\ worker' = "idle"
    /\ UNCHANGED <<guiVars, requestQ, toChild, stdinClosed, stdoutClosed,
                   childVars>>

\* _parse_response: a document, or the end of the file.
WorkerReads ==
    /\ worker = "reading"
    /\ \/ /\ fromChild # <<>>
          /\ fromChild' = Tail(fromChild)
          /\ Respond(Head(fromChild))
       \/ /\ fromChild = <<>>
          /\ child = "exited"
          /\ Respond("errorExit")
          /\ UNCHANGED fromChild
    /\ worker' = "idle"
    /\ UNCHANGED <<guiVars, requestQ, toChild, stdinClosed, stdoutClosed,
                   childVars>>

\* close: close($stdin), close($stdout), waitpid.
WorkerCloses ==
    /\ Takes("close")
    /\ stdinClosed' = TRUE
    /\ worker' = "closing"
    /\ UNCHANGED <<guiVars, responseQ, toChild, fromChild, stdoutClosed,
                   childVars>>

WorkerClosesOutput ==
    /\ worker = "closing"
    /\ stdoutClosed' = TRUE
    /\ worker' = "reaping"
    /\ UNCHANGED <<guiVars, requestQ, responseQ, toChild, fromChild,
                   stdinClosed, childVars>>

WorkerReaps ==
    /\ worker = "reaping"
    /\ child = "exited"
    /\ Respond("closed")
    /\ worker' = "idle"
    /\ UNCHANGED <<guiVars, requestQ, pipeVars, childVars>>

WorkerShutsDown ==
    /\ Takes("shutdown")
    /\ worker' = "ended"
    /\ UNCHANGED <<guiVars, responseQ, pipeVars, childVars>>

-----------------------------------------------------------------------------
(***************************************************************************)
(* n2pkvna -Y.                                                             *)
(***************************************************************************)
\* Write gs_messages as a document and delete them; a SIGPIPE if nobody can
\* read it any more.
Document(st, next) ==
    /\ errors' = FALSE
    /\ IF stdoutClosed
       THEN /\ child' = "exited"
            /\ killed' = TRUE
            /\ UNCHANGED fromChild
       ELSE /\ child' = next
            /\ fromChild' = Append(fromChild, st)
            /\ UNCHANGED killed

\* Mutant: gs_canceled is not reset.
MessagePromptCanceled(failed, next) ==
    /\ Document(IF failed \/ errors THEN "error"
                ELSE IF canceled THEN "canceled" ELSE "ok", next)
    /\ UNCHANGED canceled

\* message_prompt, with the errors found since the last document.
MessagePrompt(failed, next) ==
    /\ Document(IF failed \/ errors THEN "error"
                ELSE IF canceled THEN "canceled" ELSE "ok", next)
    /\ canceled' = FALSE

\* main up to the first prompt: open_device fails; or it succeeds, perhaps with
\* a warning, and properties_load fails or not.
Main ==
    /\ child = "opening"
    /\ \/ /\ errors' = TRUE
          /\ child' = "exited"
          /\ UNCHANGED <<canceled, killed, fromChild>>
       \/ MessagePrompt(TRUE, "exited")
       \/ \E warned \in BOOLEAN : MessagePrompt(warned, "prompt")
    /\ UNCHANGED <<guiVars, workerVars, toChild, stdinClosed, stdoutClosed,
                   asks>>

Prompts(command) ==
    CASE command = "calibrate" -> "ready"
      [] command = "cf" -> "frequency"
      [] OTHER -> "nothing"

EndOfFile == "EOF"
Heard == IF toChild # <<>> THEN Head(toChild) ELSE EndOfFile
ReadLine ==
    /\ toChild # <<>> \/ stdinClosed
    /\ toChild' = IF toChild # <<>> THEN Tail(toChild) ELSE toChild

\* Mutant: setup yload fails before it has read its input.
BeginAtOnce(command) == "command"

\* Where a command begins: "setup yload" by reading its input.
Begin(command) == IF command = "setup" THEN "load" ELSE "command"

\* cli: an empty line is answered by another prompt, an unknown word by an
\* error, and "q" and the end of the file end the program.
Cli ==
    /\ child = "prompt"
    /\ ReadLine
    /\ IF Heard \in Command
       THEN /\ child' = Begin(Heard)
            /\ asks' = Prompts(Heard)
            /\ UNCHANGED <<fromChild, errors, canceled, killed>>
       ELSE /\ UNCHANGED asks
            /\ IF Heard \in {"q", EndOfFile}
               THEN /\ child' = "exited"
                    /\ UNCHANGED <<fromChild, errors, canceled, killed>>
               ELSE MessagePrompt(Heard # "", "prompt")
    /\ UNCHANGED <<guiVars, workerVars, stdinClosed, stdoutClosed>>

\* Mutant: the end of the file is not the end of the input.
LoadForever ==
    /\ child = "load"
    /\ ReadLine
    /\ child' = IF Heard = Input THEN "command" ELSE "load"
    /\ UNCHANGED <<guiVars, workerVars, fromChild, stdinClosed, stdoutClosed,
                   asks, errors, canceled, killed>>

\* setup_yload_main reads up to the line "..."; at the end of the file, having
\* read nothing, it writes through a null pointer.
Load ==
    /\ child = "load"
    /\ ReadLine
    /\ child' = CASE Heard = Input -> "command"
                  [] Heard = EndOfFile -> "exited"
                  [] OTHER -> "load"
    /\ killed' = (killed \/ Heard = EndOfFile)
    /\ UNCHANGED <<guiVars, workerVars, fromChild, stdinClosed, stdoutClosed,
                   asks, errors, canceled>>

\* message_error, print_error and print_libvna_error, the warnings too.
MessageError ==
    /\ child = "command"
    /\ ~errors
    /\ errors' = TRUE
    /\ UNCHANGED <<guiVars, workerVars, pipeVars, child, asks, canceled,
                   killed>>

\* message_wait_for_acknowledgement, as often as the command needs it.
NeedsACK ==
    /\ child = "command"
    /\ asks = "ready"
    /\ Document("needsACK", "ack")
    /\ UNCHANGED <<guiVars, workerVars, toChild, stdinClosed, stdoutClosed,
                   asks, canceled>>

\* message_get_measured_frequency, once.
NeedsMeasuredF ==
    /\ child = "command"
    /\ asks = "frequency"
    /\ Document("needsMeasuredF", "frequency")
    /\ asks' = "nothing"
    /\ UNCHANGED <<guiVars, workerVars, toChild, stdinClosed, stdoutClosed,
                   canceled>>

\* Mutant: a canceled command goes on to its next step.
CancelsStep == child' = "command" /\ canceled' = TRUE /\ UNCHANGED asks

\* A command that is canceled fails and asks no more.
Proceeds == child' = "command" /\ UNCHANGED <<asks, canceled>>
Cancels == child' = "command" /\ asks' = "nothing" /\ canceled' = TRUE

\* Mutant: the end of the file is one more unexpected response.
PromptForever ==
    /\ child = "ack"
    /\ ReadLine
    /\ CASE Heard = "" -> Proceeds
         [] Heard = "q" -> Cancels
         [] OTHER -> UNCHANGED <<child, asks, canceled>>
    /\ UNCHANGED <<guiVars, workerVars, fromChild, stdinClosed, stdoutClosed,
                   errors, killed>>

\* prompt_for_ready: only an empty line, "q" and the end of the file are
\* answers.
PromptForReady ==
    /\ child = "ack"
    /\ ReadLine
    /\ CASE Heard = "" -> Proceeds
         [] Heard \in {"q", EndOfFile} -> Cancels
         [] OTHER -> UNCHANGED <<child, asks, canceled>>
    /\ UNCHANGED <<guiVars, workerVars, fromChild, stdinClosed, stdoutClosed,
                   errors, killed>>

\* What is not a number cancels.
ReadFrequency ==
    /\ child = "frequency"
    /\ ReadLine
    /\ IF Heard = "10.0" THEN Proceeds ELSE Cancels
    /\ UNCHANGED <<guiVars, workerVars, fromChild, stdinClosed, stdoutClosed,
                   errors, killed>>

\* The command returns, whatever its result, to message_prompt.
EndCommand ==
    /\ child = "command"
    /\ MessagePrompt(FALSE, "prompt")
    /\ UNCHANGED <<guiVars, workerVars, toChild, stdinClosed, stdoutClosed,
                   asks>>

\* exit(N2PKVNA_EXIT_SYSTEM), a failed assertion or a signal, at any time.
Dies ==
    /\ child \notin {"none", "exited"}
    /\ child' = "exited"
    /\ killed' = TRUE
    /\ UNCHANGED <<guiVars, workerVars, pipeVars, asks, errors, canceled>>

-----------------------------------------------------------------------------
\* What the program does of itself, and the operator's choices.
GuiStep ==
    \/ OpenVNA \/ Opened \/ ReceiveResponse
    \/ RunCommandCallback \/ Drain \/ Joined
Operator ==
    \/ \E command \in Command : RunCommand(command)
    \/ \E line \in Answer : Acknowledge(line) \/ AnswerFrequency(line)
    \/ Quit
WorkerStep ==
    \/ WorkerOpens \/ WorkerSends \/ WorkerSendsInput \/ WorkerReads
    \/ WorkerCloses \/ WorkerClosesOutput \/ WorkerReaps \/ WorkerShutsDown
ChildStep ==
    \/ Main \/ Cli \/ Load \/ MessageError \/ NeedsACK \/ NeedsMeasuredF
    \/ PromptForReady \/ ReadFrequency \/ EndCommand

Next == GuiStep \/ Operator \/ WorkerStep \/ ChildStep \/ GuiEnds \/ Dies

\* The threads and the program run; a command ends or asks something.  The
\* operator need not answer.
Spec ==
    /\ Init /\ [][Next]_vars
    /\ WF_vars(GuiStep) /\ WF_vars(WorkerStep) /\ WF_vars(ChildStep)

-----------------------------------------------------------------------------
GuiAt == {"start", "opening", "main", "wait", "poll", "callback", "ackDialog",
          "freqDialog", "closing", "joining", "done", "dead"}
WorkerAt == {"idle", "input", "reading", "closing", "reaping", "ended", "gone"}
ChildAt == {"none", "opening", "prompt", "load", "command", "ack", "frequency",
            "exited"}

\* Every variable has its type; no queue and no pipe ever holds more than a
\* request and a close, a response and "closed", a line and its input, or one
\* document.
TypeOK ==
    /\ gui \in GuiAt
    /\ state \in {"closed", "ready", "sent", "needsACK", "needsMeasuredF",
                  "exited"}
    /\ status \in Status \cup {NoStatus, "errorExit"}
    /\ async \in BOOLEAN /\ refused \in BOOLEAN
    /\ requestQ \in Seq({Open, Close, Shutdown} \cup {Send(l) : l \in Line})
    /\ Len(requestQ) <= 2
    /\ responseQ \in Seq(Status \cup {"errorExit", "closed"})
    /\ Len(responseQ) <= 2
    /\ worker \in WorkerAt
    /\ toChild \in Seq(Line) /\ Len(toChild) <= 2
    /\ fromChild \in Seq(Status) /\ Len(fromChild) <= 1
    /\ stdinClosed \in BOOLEAN /\ stdoutClosed \in BOOLEAN
    /\ child \in ChildAt
    /\ asks \in {"ready", "frequency", "nothing"}
    /\ errors \in BOOLEAN /\ canceled \in BOOLEAN /\ killed \in BOOLEAN

\* What the GUI believes of the program, {state}, is so unless the program has
\* died since: it is at the prompt that the GUI offers to answer, and nothing
\* is under way that it could take for the answer.
InStep ==
    gui # "dead" =>
        /\ state \in {"ready", "needsACK", "needsMeasuredF", "exited"} =>
              /\ requestQ = <<>> /\ responseQ = <<>> /\ worker = "idle"
              /\ child # "exited" => toChild = <<>> /\ fromChild = <<>>
        /\ state = "ready" => child \in {"prompt", "exited"}
        /\ state = "needsACK" => child \in {"ack", "exited"}
        /\ state = "needsMeasuredF" => child \in {"frequency", "exited"}
        /\ state = "exited" => child = "exited"

\* Every line is read by the reader it was written for: an answer is never
\* taken for a command ("q" would end the program), the input of setup yload
\* never for one, nor a command for an answer.
LinesReachReaders ==
    toChild # <<>> =>
        CASE child = "prompt" -> Head(toChild) \in Command
          [] child = "load" -> Head(toChild) = Input
          [] child = "ack" -> Head(toChild) \in {"", "q"}
          [] child = "frequency" -> Head(toChild) \in {"10.0", "q"}
          [] OTHER -> child = "exited"

\* A command is reported as canceled only if the operator canceled it, and as
\* ok, upon which the GUI uses its result, only if not.
CancelIsTold ==
    gui = "callback" =>
        /\ status = "canceled" => refused
        /\ status = "ok" => ~refused

\* Whatever is sent to the program is answered, if only by its exit.
SentIsAnswered == state = "sent" ~> state # "sent" \/ gui = "dead"

\* Quitting succeeds whatever the program is doing, and then the program has
\* ended: the VNA is free again.
QuitEnds ==
    gui = "closing" ~> gui = "dead" \/ (gui = "done" /\ child = "exited")

\* The program does not outlive the GUI, however that ends.
ProgramEnds == gui = "dead" ~> child \in {"none", "exited"}

-----------------------------------------------------------------------------
(***************************************************************************)
(* The parties as a Dialogue: the two queues and two pipes hold at most    *)
(* the one line and the one answer of it.  Once the GUI leaves, what is    *)
(* still under way concerns nobody.                                        *)
(***************************************************************************)
Leaving == gui \in {"closing", "joining", "done", "dead"}

Known ==
    CASE gui \in {"closing", "joining"} -> "closing"
      [] gui \in {"done", "dead"} -> gui
      [] OTHER -> state

\* "setup" is heard when its input is.
Said ==
    CASE Leaving -> "nothing"
      [] ~Leaving /\ requestQ # <<>> /\ Head(requestQ).op = "send" ->
            Head(requestQ).line
      [] OTHER -> IF child = "exited" THEN "nothing"
                  ELSE IF child = "load" THEN "setup"
                  ELSE IF toChild # <<>> THEN Head(toChild) ELSE "nothing"

Place ==
    CASE child = "load" -> "prompt"
      [] child \in {"opening", "command"} -> "work"
      [] OTHER -> child

MayAsk ==
    IF Leaving \/ child \notin {"command", "ack", "frequency"} THEN "nothing"
    ELSE IF canceled THEN "refused"
    ELSE CASE asks = "ready" -> "needsACK"
           [] asks = "frequency" -> "needsMeasuredF"
           [] OTHER -> "nothing"

Told ==
    IF Leaving THEN "nothing"
    ELSE IF responseQ # <<>> THEN Head(responseQ)
    ELSE IF fromChild # <<>> THEN Head(fromChild) ELSE "nothing"

\* Through queues, pipes and threads the GUI and the program talk as Dialogue
\* promises.
Talk == INSTANCE Dialogue WITH
    state <- Known, line <- Said, place <- Place, may <- MayAsk, told <- Told
DialogueSpec == Talk!DialogueSpec
===============================================================================
