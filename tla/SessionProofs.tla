----------------------------- MODULE SessionProofs -----------------------------
(***************************************************************************)
(* Proofs about Session.  At any time exactly one thing is under way       *)
(* between the GUI and the program, and the invariant follows it from      *)
(* queue to pipe to program and back: a request, a line, the program's     *)
(* work, a document or a response.  Behind it there may be a close, when   *)
(* the operator quits while a timer polls.                                 *)
(***************************************************************************)
EXTENDS Session, SequenceTheorems, TLAPS

Requests == {Open, Close, Shutdown} \cup {Send(l) : l \in Line}
Final == Status \cup {"errorExit"}
Single(S) == {<<>>} \cup {<<a>> : a \in S}
Short(S) == {<<>>} \cup {<<a>> : a \in S} \cup {<<a, b>> : a \in S, b \in S}

Typed ==
    /\ gui \in GuiAt
    /\ state \in {"closed", "ready", "sent", "needsACK", "needsMeasuredF",
                  "exited"}
    /\ status \in Final \cup {NoStatus}
    /\ async \in BOOLEAN /\ refused \in BOOLEAN
    /\ requestQ \in Short(Requests)
    /\ responseQ \in Short(Final \cup {"closed"})
    /\ worker \in WorkerAt
    /\ toChild \in Short(Line)
    /\ fromChild \in Single(Status)
    /\ stdinClosed \in BOOLEAN /\ stdoutClosed \in BOOLEAN
    /\ child \in ChildAt
    /\ asks \in {"ready", "frequency", "nothing"}
    /\ errors \in BOOLEAN /\ canceled \in BOOLEAN /\ killed \in BOOLEAN

\* The lines that the program wants where it is, and where it is when it has
\* written a document, or ended in its place.
Wanted(at) ==
    CASE at = "prompt" -> Command
      [] at = "load" -> {Input}
      [] at = "ack" -> {"", "q"}
      [] at = "frequency" -> {"10.0", "q"}
      [] OTHER -> {}

PromptAfter(st) ==
    CASE st = "needsACK" -> "ack"
      [] st = "needsMeasuredF" -> "frequency"
      [] st = "errorExit" -> "exited"
      [] OTHER -> "prompt"

\* What the pipes hold suits the program, whether the GUI lives or not; only
\* the end of the file lets it go on with a document that nobody has read.
Pipes ==
    /\ child \in {"none", "opening", "command"} => toChild = <<>>
    /\ ~stdoutClosed =>
          /\ child \in {"none", "opening", "command", "load"} => fromChild = <<>>
          /\ fromChild # <<>> => \E st \in Status : /\ fromChild = <<st>>
                                                    /\ child \in {PromptAfter(st), "exited"}
          /\ stdinClosed /\ child # "exited" =>
                /\ toChild = <<>>
                /\ child \in {"ack", "frequency"} => fromChild = <<>>
                /\ child = "command" => asks = "nothing"
    /\ child # "exited" /\ toChild # <<>> =>
          /\ fromChild = <<>>
          /\ \/ \E l \in Wanted(child) : toChild = <<l>>
             \/ child = "prompt" /\ toChild = <<"setup", Input>>
    /\ canceled => child \in {"command", "exited"} /\ asks = "nothing"

\* The ends of the pipes go with the GUI, or are closed while it quits.
Ends ==
    /\ gui = "dead" => worker = "gone" /\ stdinClosed /\ stdoutClosed
    /\ stdinClosed \/ stdoutClosed =>
          gui \in {"closing", "joining", "done", "dead"}

-----------------------------------------------------------------------------
\* The program waits for a line, and nothing is under way, or it has ended.
Rests(at) ==
    fromChild = <<>> /\ (child = "exited" \/ (child = at /\ toChild = <<>>))

AtRest == \E at \in {"prompt", "ack", "frequency"} : Rests(at)

Idle(more) == worker = "idle" /\ requestQ = more

\* The one thing under way, with the requests behind it.
Requested(more) ==
    /\ responseQ = <<>> /\ fromChild = <<>>
    /\ \E l \in Command \cup Answer :
          /\ Idle(<<Send(l)>> \o more)
          /\ child = "exited" \/ (l \in Wanted(child) /\ toChild = <<>>)

SendingInput(more) ==
    /\ worker = "input" /\ requestQ = more /\ responseQ = <<>>
    /\ \/ child = "exited"
       \/ child = "prompt" /\ toChild = <<"setup">>
       \/ child = "load" /\ toChild = <<>>

Working(more) ==
    /\ worker = "reading" /\ requestQ = more /\ responseQ = <<>>
    /\ child # "exited" =>
          /\ toChild # <<"setup">>
          /\ toChild = <<>> /\ fromChild = <<>> =>
                child \in {"opening", "command"}

Answered(more) ==
    /\ Idle(more)
    /\ \E st \in Final : responseQ = <<st>> /\ Rests(PromptAfter(st))

UnderWay(more) ==
    Requested(more) \/ SendingInput(more) \/ Working(more) \/ Answered(more)

\* Nothing is.
Silence == Idle(<<>>) /\ responseQ = <<>>

Opening ==
    \/ Idle(<<Open>>) /\ responseQ = <<>> /\ child = "none"
    \/ worker = "ended" /\ requestQ = <<>> /\ responseQ = <<>> /\ child = "none"
    \/ UnderWay(<<>>)

Closing ==
    \/ /\ ~stdinClosed /\ ~stdoutClosed
       /\ UnderWay(<<Close>>) \/ (Idle(<<Close>>) /\ responseQ = <<>> /\ AtRest)
    \/ /\ worker \in {"closing", "reaping"} /\ requestQ = <<>>
       /\ child # "none" /\ stdinClosed
       /\ responseQ = <<>> \/ \E st \in Final : responseQ = <<st>>
    \/ /\ Idle(<<>>) /\ child = "exited"
       /\ \/ responseQ = <<"closed">>
          \/ \E st \in Final : responseQ = <<st, "closed">>

Joining ==
    /\ responseQ = <<>> /\ child = "exited"
    /\ Idle(<<Shutdown>>) \/ (worker = "ended" /\ requestQ = <<>>)

Conversation ==
    /\ gui = "start" => state = "closed" /\ Silence /\ child = "none"
    /\ gui = "opening" => state = "closed" /\ Opening
    /\ gui = "main" => /\ Silence
                       /\ \/ state = "ready" /\ Rests("prompt")
                          \/ state = "exited" /\ Rests("exited")
    /\ gui \in {"wait", "poll"} => state = "sent" /\ UnderWay(<<>>)
    /\ gui = "callback" => /\ status \in Final /\ state = StateAfter(status)
                           /\ Silence /\ Rests(PromptAfter(status))
    /\ gui = "ackDialog" => state = "needsACK" /\ Silence /\ Rests("ack")
    /\ gui = "freqDialog" =>
          state = "needsMeasuredF" /\ Silence /\ Rests("frequency")
    /\ gui = "closing" => state = "closed" /\ Closing
    /\ gui = "joining" => state = "closed" /\ Joining
    /\ gui = "done" => /\ state = "closed" /\ child = "exited"
                       /\ worker = "ended" /\ requestQ = <<>>

-----------------------------------------------------------------------------
\* What the operator said of the command being run, and what is told of it.
Tells(st) ==
    /\ st = "canceled" => refused
    /\ st \in {"ok", "needsACK", "needsMeasuredF"} => ~refused

Refusal ==
    /\ gui \in {"start", "opening", "ackDialog", "freqDialog"} => ~refused
    /\ gui = "callback" => Tells(status)
    /\ gui \in {"opening", "wait", "poll"} =>
          /\ \A l \in Line : requestQ = <<Send(l)>> => (refused <=> l = "q")
          /\ child # "exited" => \A l \in Line : toChild = <<l>> =>
                                     (refused <=> l = "q")
          /\ child \in {"opening", "load"} \/ (child = "prompt" /\ toChild # <<>>)
                => ~refused
          /\ child = "command" => (refused <=> canceled)
          /\ \A st \in Status : fromChild = <<st>> => Tells(st)
          /\ \A st \in Final : responseQ = <<st>> => Tells(st)

Inv == Typed /\ Pipes /\ Ends /\ Conversation /\ Refusal

-----------------------------------------------------------------------------
\* Sequences of at most two.
LEMMA AppendToOne ==
  ASSUME NEW a, NEW b
  PROVE  Append(<<a>>, b) = <<a, b>>
  <1>1. /\ <<a>> \in Seq({a, b}) /\ Len(<<a>>) = 1 /\ <<a>>[1] = a
        /\ <<a, b>> \in Seq({a, b}) /\ Len(<<a, b>>) = 2
        /\ <<a, b>>[1] = a /\ <<a, b>>[2] = b
    OBVIOUS
  <1>2. /\ Append(<<a>>, b) \in Seq({a, b}) /\ Len(Append(<<a>>, b)) = 2
        /\ Append(<<a>>, b)[1] = a /\ Append(<<a>>, b)[2] = b
    BY <1>1, AppendProperties
  <1>3. \A i \in 1..Len(<<a, b>>) : i = 1 \/ i = 2
    BY <1>1
  <1> QED BY <1>1, <1>2, <1>3, SeqEqual

LEMMA ConcatOneOne ==
  ASSUME NEW a, NEW b
  PROVE  <<a>> \o <<b>> = <<a, b>>
  <1>1. /\ <<a>> \in Seq({a, b}) /\ Len(<<a>>) = 1 /\ <<a>>[1] = a
        /\ <<b>> \in Seq({a, b}) /\ Len(<<b>>) = 1 /\ <<b>>[1] = b
        /\ <<a, b>> \in Seq({a, b}) /\ Len(<<a, b>>) = 2
        /\ <<a, b>>[1] = a /\ <<a, b>>[2] = b
    OBVIOUS
  <1>2. /\ (<<a>> \o <<b>>) \in Seq({a, b}) /\ Len(<<a>> \o <<b>>) = 2
        /\ (<<a>> \o <<b>>)[1] = a /\ (<<a>> \o <<b>>)[2] = b
    BY <1>1, ConcatProperties
  <1>3. \A i \in 1..Len(<<a, b>>) : i = 1 \/ i = 2
    BY <1>1
  <1> QED BY <1>1, <1>2, <1>3, SeqEqual

LEMMA Tuples ==
    /\ \A a : Head(<<a>>) = a /\ Tail(<<a>>) = <<>> /\ Append(<<>>, a) = <<a>>
    /\ \A a, b : /\ Append(<<a>>, b) = <<a, b>>
                 /\ Head(<<a, b>>) = a /\ Tail(<<a, b>>) = <<b>>
    /\ \A a, b : <<a>> # <<>> /\ <<a, b>> # <<>> /\ \A c : <<a, b>> # <<c>>
    /\ \A a, b : <<a>> = <<b>> => a = b
    /\ \A a : <<a>> \o <<>> = <<a>>
    /\ \A a, b : <<a>> \o <<b>> = <<a, b>>
  <1>1. \A a : Head(<<a>>) = a /\ Tail(<<a>>) = <<>> /\ Append(<<>>, a) = <<a>>
    OBVIOUS
  <1>2. \A a, b : Head(<<a, b>>) = a /\ Tail(<<a, b>>) = <<b>>
    OBVIOUS
  <1>3. \A a, b : <<a>> # <<>> /\ <<a, b>> # <<>> /\ \A c : <<a, b>> # <<c>>
    OBVIOUS
  <1>4. (\A a, b : <<a>> = <<b>> => a = b) /\ \A a : <<a>> \o <<>> = <<a>>
    OBVIOUS
  <1> QED BY <1>1, <1>2, <1>3, <1>4, AppendToOne, ConcatOneOne

LEMMA ShortTuples ==
  ASSUME NEW S
  PROVE  /\ <<>> \in Short(S)
         /\ \A a \in S : <<a>> \in Short(S)
         /\ \A a, b \in S : <<a, b>> \in Short(S)
         /\ \A s \in Short(S) : s # <<>> => Head(s) \in S /\ Tail(s) \in Short(S)
         /\ \A s \in Short(S) : s \in Seq(S) /\ Len(s) <= 2
  <1>1. /\ <<>> \in Short(S)
        /\ \A a \in S : <<a>> \in Short(S)
        /\ \A a, b \in S : <<a, b>> \in Short(S)
    BY DEF Short
  <1>2. ASSUME NEW s \in Short(S)
        PROVE  /\ s # <<>> => Head(s) \in S /\ Tail(s) \in Short(S)
               /\ s \in Seq(S) /\ Len(s) <= 2
    <2>1. CASE s = <<>>
      BY <2>1
    <2>2. CASE \E a \in S : s = <<a>>
      BY <2>2, <1>1, Tuples
    <2>3. CASE \E a, b \in S : s = <<a, b>>
      BY <2>3, <1>1, Tuples
    <2> QED BY <2>1, <2>2, <2>3 DEF Short
  <1> QED BY <1>1, <1>2

LEMMA SingleTuples ==
  ASSUME NEW S
  PROVE  /\ <<>> \in Single(S)
         /\ \A a \in S : <<a>> \in Single(S)
         /\ \A s \in Single(S) : s # <<>> => Head(s) \in S /\ Tail(s) = <<>>
         /\ \A s \in Single(S) : s \in Seq(S) /\ Len(s) <= 1
  <1>1. /\ <<>> \in Single(S)
        /\ \A a \in S : <<a>> \in Single(S)
    BY DEF Single
  <1>2. ASSUME NEW s \in Single(S)
        PROVE  /\ s # <<>> => Head(s) \in S /\ Tail(s) = <<>>
               /\ s \in Seq(S) /\ Len(s) <= 1
    <2>1. CASE s = <<>>
      BY <2>1
    <2>2. CASE \E a \in S : s = <<a>>
      BY <2>2, Tuples
    <2> QED BY <2>1, <2>2 DEF Single
  <1> QED BY <1>1, <1>2

LEMMA InitInv == Init => Inv
  <1> SUFFICES ASSUME Init PROVE Inv
    OBVIOUS
  <1> USE DEF Init
  <1>1. Typed
    BY ShortTuples, SingleTuples DEF Typed, GuiAt, WorkerAt, ChildAt, NoStatus
  <1>2. Pipes /\ Ends
    BY DEF Pipes, Ends
  <1>3. Conversation
    BY DEF Conversation, Silence, Idle
  <1>4. Refusal
    BY DEF Refusal
  <1> QED BY <1>1, <1>2, <1>3, <1>4 DEF Inv

\* What the GUI and its worker do between themselves leaves the pipes and the
\* program alone.
LEMMA PipesFrame ==
  ASSUME Pipes, UNCHANGED <<pipeVars, childVars>>
  PROVE  Pipes'
  BY DEF Pipes, pipeVars, childVars

\* A request is the one it was made for.
LEMMA Distinct ==
  /\ \A l : Send(l) # Open /\ Send(l) # Close /\ Send(l) # Shutdown
  /\ \A l, m : Send(l) = Send(m) => l = m
  /\ Open # Close /\ Open # Shutdown /\ Close # Shutdown
  /\ \A l \in Line : Send(l) \in Requests
  /\ Open \in Requests /\ Close \in Requests /\ Shutdown \in Requests
  BY DEF Send, Open, Close, Shutdown, Requests

LEMMA OpenVNAInv == Inv /\ OpenVNA => Inv'
  <1> SUFFICES ASSUME Inv, OpenVNA PROVE Inv'
    OBVIOUS
  <1> USE DEF OpenVNA, Request
  <1>1. requestQ' = <<Open>> /\ Silence /\ child = "none"
    BY Tuples DEF Inv, Conversation, Silence, Idle
  <1>2. Typed'
    BY <1>1, ShortTuples, Distinct DEF Inv, Typed, GuiAt, pipeVars, childVars
  <1>3. Pipes' /\ Ends'
    BY PipesFrame DEF Inv, Ends, pipeVars
  <1>4. Conversation'
    BY <1>1 DEF Inv, Conversation, Opening, Silence, Idle, childVars
  <1>5. Refusal'
    <2>1. toChild' = <<>> /\ fromChild' = <<>> /\ responseQ' = <<>>
      BY <1>1 DEF Inv, Pipes, Ends, Silence, pipeVars
    <2> QED BY <1>1, <2>1, Tuples, Distinct DEF Inv, Refusal, childVars
  <1> QED BY <1>2, <1>3, <1>4, <1>5 DEF Inv

LEMMA OpenedInv == Inv /\ Opened => Inv'
  <1> SUFFICES ASSUME Inv, Opened PROVE Inv'
    OBVIOUS
  <1> USE DEF Opened, GuiDies
  <1>1. PICK st \in Final : responseQ = <<st>> /\ Rests(PromptAfter(st)) /\ Idle(<<>>)
    BY DEF Inv, Conversation, Opening, UnderWay, Requested, SendingInput, Working, Answered
  <1>2. responseQ' = <<>> /\ Head(responseQ) = st
    BY <1>1, Tuples
  <1>3. Typed'
    <2>1. gui' \in GuiAt /\ worker' \in WorkerAt /\ responseQ' \in Short(Final \cup {"closed"})
      BY <1>2, ShortTuples DEF Inv, Typed, GuiAt, WorkerAt
    <2>2. stdinClosed' \in BOOLEAN /\ stdoutClosed' \in BOOLEAN
      BY DEF Inv, Typed
    <2>3. state' \in {"closed", "ready", "sent", "needsACK", "needsMeasuredF", "exited"}
      BY DEF Inv, Typed
    <2> QED BY <2>1, <2>2, <2>3 DEF Inv, Typed, childVars
  <1>4. Pipes'
    BY DEF Inv, Pipes, childVars
  <1>5. Ends'
    BY DEF Inv, Ends
  <1>6. Conversation'
    BY <1>1, <1>2 DEF Conversation, Idle, Silence, Rests, PromptAfter, childVars
  <1>7. Refusal'
    BY <1>2 DEF Refusal
  <1> QED BY <1>3, <1>4, <1>5, <1>6, <1>7 DEF Inv

LEMMA RunCommandInv ==
  ASSUME Inv, NEW command \in Command, RunCommand(command)
  PROVE  Inv'
  <1> USE DEF RunCommand, Request
  <1>1. Silence /\ Rests("prompt")
    BY DEF Inv, Conversation
  <1>2. requestQ' = <<Send(command)>> /\ responseQ' = <<>> /\ gui' \in {"wait", "poll"}
    BY <1>1, Tuples DEF Silence, Idle
  <1>3. Typed'
    <2>1. gui' \in GuiAt /\ requestQ' \in Short(Requests)
      BY <1>2, ShortTuples, Distinct DEF GuiAt, Line
    <2>2. async' \in BOOLEAN
      BY DEF Polled
    <2> QED BY <2>1, <2>2 DEF Inv, Typed, pipeVars, childVars
  <1>4. Pipes' /\ Ends'
    BY <1>2, PipesFrame DEF Inv, Ends, pipeVars
  <1>5. UnderWay(<<>>)'
    BY <1>1, <1>2, Tuples DEF UnderWay, Requested, Silence, Idle, Rests, Wanted, pipeVars, childVars
  <1>6. Conversation'
    BY <1>2, <1>5 DEF Conversation
  <1>7. Refusal'
    <2>1. /\ fromChild' = fromChild /\ toChild' = toChild /\ child' = child /\ refused' = FALSE
          /\ canceled' = canceled
      BY DEF pipeVars, childVars
    <2>2. \A l \in Line : requestQ' = <<Send(l)>> => l = command
      BY <1>2, Tuples, Distinct
    <2> QED BY <1>1, <1>2, <2>1, <2>2, Tuples DEF Inv, Refusal, Command, Pipes, Rests
  <1> QED BY <1>3, <1>4, <1>6, <1>7 DEF Inv

LEMMA ReceiveResponseInv == Inv /\ ReceiveResponse => Inv'
  <1> SUFFICES ASSUME Inv, ReceiveResponse PROVE Inv'
    OBVIOUS
  <1> USE DEF ReceiveResponse
  <1>1. PICK st \in Final : responseQ = <<st>> /\ Rests(PromptAfter(st)) /\ Idle(<<>>)
    BY DEF Inv, Conversation, UnderWay, Requested, SendingInput, Working, Answered
  <1>2. responseQ' = <<>> /\ status' = st /\ state' = StateAfter(st)
    BY <1>1, Tuples
  <1>3. Typed'
    <2>1. gui' \in GuiAt /\ responseQ' \in Short(Final \cup {"closed"})
      BY <1>2, ShortTuples DEF GuiAt
    <2>2. state' \in {"closed", "ready", "sent", "needsACK", "needsMeasuredF", "exited"}
      BY <1>2 DEF StateAfter
    <2> QED BY <1>2, <2>1, <2>2 DEF Inv, Typed, pipeVars, childVars
  <1>4. Pipes' /\ Ends'
    BY PipesFrame DEF Inv, Ends, pipeVars
  <1>5. Conversation'
    BY <1>1, <1>2 DEF Conversation, Silence, Idle, Rests, pipeVars, childVars
  <1>6. Refusal'
    BY <1>1, <1>2 DEF Inv, Refusal, Tells
  <1> QED BY <1>3, <1>4, <1>5, <1>6 DEF Inv

LEMMA RunCommandCallbackInv == Inv /\ RunCommandCallback => Inv'
  <1> SUFFICES ASSUME Inv, RunCommandCallback PROVE Inv'
    OBVIOUS
  <1> USE DEF RunCommandCallback
  <1>1. status \in Final /\ state = StateAfter(status) /\ Silence /\ Rests(PromptAfter(status))
    BY DEF Inv, Conversation
  <1>2. Typed'
    BY DEF Inv, Typed, GuiAt, NoStatus, workerVars, pipeVars, childVars
  <1>3. Pipes' /\ Ends'
    BY PipesFrame DEF Inv, Ends, pipeVars, workerVars
  <1>4. Silence' /\ \A at : Rests(at) => Rests(at)'
    BY <1>1 DEF Silence, Idle, Rests, workerVars, pipeVars, childVars
  <1>5. Conversation'
    BY <1>1, <1>4 DEF Conversation, StateAfter, PromptAfter, Rests
  <1>6. Refusal'
    BY <1>1 DEF Inv, Refusal, Tells
  <1> QED BY <1>2, <1>3, <1>5, <1>6 DEF Inv

\* An answer, to the prompt where the program is.
LEMMA SendACKInv ==
  ASSUME Inv, NEW l \in Answer, NEW at \in {"ack", "frequency"},
         gui \in {"ackDialog", "freqDialog"}, gui' \in {"wait", "poll"},
         l \in Wanted(at), Silence, Rests(at), SendACK(l)
  PROVE  Inv'
  <1> USE DEF SendACK, Request
  <1>1. requestQ' = <<Send(l)>> /\ responseQ' = <<>>
    BY Tuples DEF Silence, Idle
  <1>2. Typed'
    <2>1. gui' \in GuiAt /\ requestQ' \in Short(Requests)
      BY <1>1, ShortTuples, Distinct DEF GuiAt, Line
    <2>2. refused' \in BOOLEAN
      OBVIOUS
    <2> QED BY <2>1, <2>2 DEF Inv, Typed, pipeVars, childVars
  <1>3. Pipes' /\ Ends'
    BY PipesFrame DEF Inv, Ends, pipeVars
  <1>4. UnderWay(<<>>)'
    BY <1>1, Tuples DEF UnderWay, Requested, Silence, Idle, Rests, pipeVars, childVars
  <1>5. Conversation'
    BY <1>4 DEF Conversation
  <1>6. Refusal'
    <2>1. ~refused /\ (refused' <=> l = "q")
      BY DEF Inv, Refusal, Typed
    <2>2. \A m \in Line : requestQ' = <<Send(m)>> => m = l
      BY <1>1, Tuples, Distinct
    <2>3. /\ fromChild' = <<>> /\ child' \in {at, "exited"} /\ (child' = at => toChild' = <<>>)
      BY DEF Rests, pipeVars, childVars
    <2> QED BY <1>1, <2>1, <2>2, <2>3, Tuples DEF Refusal
  <1> QED BY <1>2, <1>3, <1>5, <1>6 DEF Inv

LEMMA AcknowledgeInv ==
  ASSUME Inv, NEW l \in Answer, Acknowledge(l)
  PROVE  Inv'
  <1>1. l \in Wanted("ack") /\ gui' \in {"wait", "poll"}
    BY DEF Acknowledge, Wanted
  <1>2. Silence /\ Rests("ack") /\ gui = "ackDialog" /\ SendACK(l)
    BY DEF Inv, Conversation, Acknowledge
  <1> QED BY <1>1, <1>2, SendACKInv

LEMMA AnswerFrequencyInv ==
  ASSUME Inv, NEW l \in Answer, AnswerFrequency(l)
  PROVE  Inv'
  <1>1. l \in Wanted("frequency") /\ gui' \in {"wait", "poll"}
    BY DEF AnswerFrequency, Wanted
  <1>2. Silence /\ Rests("frequency") /\ gui = "freqDialog" /\ SendACK(l)
    BY DEF Inv, Conversation, AnswerFrequency
  <1> QED BY <1>1, <1>2, SendACKInv

LEMMA QuitInv == Inv /\ Quit => Inv'
  <1> SUFFICES ASSUME Inv, Quit PROVE Inv'
    OBVIOUS
  <1> USE DEF Quit, Request
  <1>0. stdinClosed' = FALSE /\ stdoutClosed' = FALSE
    BY DEF Inv, Typed, Ends, pipeVars
  <1>1. Closing' /\ requestQ' \in Short(Requests)
    <2>1. CASE gui = "main"
      <3>1. Silence /\ requestQ' = <<Close>> /\ AtRest
        BY <2>1, Tuples DEF Inv, Conversation, Silence, Idle, AtRest, Rests
      <3> QED BY <1>0, <3>1, ShortTuples, Distinct DEF Closing, Silence, Idle, AtRest, Rests, pipeVars, childVars
    <2>2. CASE gui = "poll"
      <3>1. UnderWay(<<>>)
        BY <2>2 DEF Inv, Conversation
      <3>2. CASE Requested(<<>>)
        <4>1. PICK l \in Command \cup Answer :
                     /\ Idle(<<Send(l)>>)
                     /\ child = "exited" \/ (l \in Wanted(child) /\ toChild = <<>>)
          BY <3>2, Tuples DEF Requested
        <4>2. requestQ' = <<Send(l), Close>> /\ requestQ' = <<Send(l)>> \o <<Close>>
          BY <4>1, Tuples DEF Idle
        <4>3. Requested(<<Close>>)'
          BY <3>2, <4>1, <4>2 DEF Requested, Idle, pipeVars, childVars
        <4>4. requestQ' \in Short(Requests)
          BY <4>2, ShortTuples, Distinct DEF Line
        <4> QED BY <1>0, <4>3, <4>4 DEF Closing, UnderWay
      <3>3. CASE SendingInput(<<>>) \/ Working(<<>>) \/ Answered(<<>>)
        <4>1. requestQ' = <<Close>>
          BY <3>3, Tuples DEF SendingInput, Working, Answered, Idle
        <4>2. UnderWay(<<Close>>)'
          BY <3>3, <4>1 DEF UnderWay, SendingInput, Working, Answered, Idle, Rests, pipeVars, childVars
        <4>3. requestQ' \in Short(Requests)
          BY <4>1, ShortTuples, Distinct
        <4> QED BY <1>0, <4>2, <4>3 DEF Closing
      <3> QED BY <3>1, <3>2, <3>3 DEF UnderWay
    <2> QED BY <2>1, <2>2
  <1>2. Typed'
    BY <1>1 DEF Inv, Typed, GuiAt, pipeVars, childVars
  <1>3. Pipes' /\ Ends'
    BY PipesFrame DEF Inv, Ends, pipeVars
  <1>4. Conversation'
    BY <1>1 DEF Conversation
  <1>5. Refusal'
    BY DEF Refusal
  <1> QED BY <1>1, <1>2, <1>3, <1>4, <1>5 DEF Inv

LEMMA DrainInv == Inv /\ Drain => Inv'
  <1> SUFFICES ASSUME Inv, Drain PROVE Inv'
    OBVIOUS
  <1> USE DEF Drain, Request
  <1>1. Closing /\ state = "closed"
    BY DEF Inv, Conversation
  <1>2. /\ responseQ' \in Short(Final \cup {"closed"})
        /\ requestQ' \in Short(Requests)
        /\ \/ gui' = "joining" /\ Joining'
           \/ gui' = "closing" /\ Closing'
    <2>1. CASE stdinClosed = FALSE /\ stdoutClosed = FALSE /\ UnderWay(<<Close>>)
      <3>1. PICK st \in Final : responseQ = <<st>> /\ Rests(PromptAfter(st)) /\ Idle(<<Close>>)
        BY <2>1 DEF UnderWay, Requested, SendingInput, Working, Answered
      <3>2. responseQ' = <<>> /\ Head(responseQ) # "closed"
        BY <3>1, Tuples DEF Final, Status
      <3>3. AtRest'
        BY <3>1 DEF AtRest, Rests, PromptAfter, pipeVars, childVars
      <3>4. gui' = "closing" /\ Closing'
        BY <2>1, <3>1, <3>2, <3>3 DEF Closing, Idle, pipeVars
      <3> QED BY <3>2, <3>4, ShortTuples DEF Inv, Typed
    <2>2. CASE /\ worker \in {"closing", "reaping"} /\ requestQ = <<>> /\ child # "none" /\ stdinClosed
               /\ \E st \in Final : responseQ = <<st>>
      <3>1. responseQ' = <<>> /\ Head(responseQ) # "closed"
        BY <2>2, Tuples DEF Final, Status
      <3>2. Closing'
        BY <2>2, <3>1 DEF Closing, pipeVars, childVars
      <3>3. requestQ' = requestQ /\ gui' = "closing"
        BY <3>1
      <3> QED BY <3>1, <3>2, <3>3, ShortTuples DEF Inv, Typed
    <2>3. CASE /\ Idle(<<>>) /\ child = "exited"
               /\ responseQ = <<"closed">>
      <3>1. responseQ' = <<>> /\ gui' = "joining" /\ requestQ' = <<Shutdown>>
        BY <2>3, Tuples DEF Idle
      <3>2. Joining'
        BY <2>3, <3>1 DEF Joining, Idle, childVars
      <3>3. <<>> \in Short(Final \cup {"closed"}) /\ <<Shutdown>> \in Short(Requests)
        BY ShortTuples, Distinct
      <3> QED BY <3>1, <3>2, <3>3
    <2>4. CASE /\ Idle(<<>>) /\ child = "exited"
               /\ \E st \in Final : responseQ = <<st, "closed">>
      <3>1. responseQ' = <<"closed">> /\ Head(responseQ) # "closed"
        BY <2>4, Tuples DEF Final, Status
      <3> QED BY <2>4, <3>1, ShortTuples DEF Closing, Idle, childVars
    <2> QED BY <1>1, <2>1, <2>2, <2>3, <2>4 DEF Closing, Inv, Typed
  <1>3. Typed'
    BY <1>2 DEF Inv, Typed, GuiAt, pipeVars, childVars
  <1>4. Pipes' /\ Ends'
    BY <1>2, PipesFrame DEF Inv, Ends, pipeVars
  <1>5. Conversation'
    BY <1>1, <1>2 DEF Conversation
  <1>6. Refusal'
    BY <1>2 DEF Refusal
  <1> QED BY <1>3, <1>4, <1>5, <1>6 DEF Inv

LEMMA JoinedInv == Inv /\ Joined => Inv'
  <1> SUFFICES ASSUME Inv, Joined PROVE Inv'
    OBVIOUS
  <1> USE DEF Joined
  <1>1. Joining /\ state = "closed"
    BY DEF Inv, Conversation
  <1>2. Typed'
    BY DEF Inv, Typed, GuiAt, workerVars, pipeVars, childVars
  <1>3. Pipes' /\ Ends'
    BY PipesFrame DEF Inv, Ends, workerVars, pipeVars
  <1>4. Conversation'
    BY <1>1 DEF Conversation, Joining, Idle, workerVars, childVars
  <1>5. Refusal'
    BY DEF Refusal
  <1> QED BY <1>2, <1>3, <1>4, <1>5 DEF Inv

\* Once the GUI is dead, only what the pipes hold matters.
LEMMA DeadInv ==
  ASSUME Inv, GuiDies, UNCHANGED <<toChild, fromChild, childVars, state, status, async, refused, responseQ>>,
         requestQ' \in Short(Requests)
  PROVE  Inv'
  <1> USE DEF GuiDies
  <1>1. Typed'
    BY DEF Inv, Typed, GuiAt, WorkerAt, childVars
  <1>2. Pipes'
    BY DEF Inv, Pipes, childVars
  <1>3. Ends' /\ Conversation' /\ Refusal'
    BY DEF Ends, Conversation, Refusal
  <1> QED BY <1>1, <1>2, <1>3 DEF Inv

LEMMA GuiEndsInv == Inv /\ GuiEnds => Inv'
  BY DeadInv DEF GuiEnds, Inv, Typed

-----------------------------------------------------------------------------
\* The requests that the worker may find.
LEMMA Takable ==
  ASSUME Inv, worker = "idle", requestQ # <<>>
  PROVE  \/ /\ gui = "opening" /\ requestQ = <<Open>> /\ child = "none" /\ responseQ = <<>>
         \/ gui \in {"opening", "wait", "poll"} /\ Requested(<<>>)
         \/ /\ gui = "closing" /\ Requested(<<Close>>)
            /\ stdinClosed = FALSE /\ stdoutClosed = FALSE
         \/ /\ gui = "closing" /\ requestQ = <<Close>> /\ AtRest
            /\ responseQ = <<>> \/ \E st \in Final : responseQ = <<st>>
         \/ gui = "joining" /\ requestQ = <<Shutdown>> /\ responseQ = <<>> /\ child = "exited"
  <1>1. gui # "dead" /\ gui \in GuiAt
    BY DEF Inv, Ends, Typed
  <1>2. gui \in {"opening", "wait", "poll", "closing", "joining"}
    BY <1>1 DEF Inv, Conversation, Silence, Idle, GuiAt
  <1>3. CASE gui = "opening"
    BY <1>3 DEF Inv, Conversation, Opening, UnderWay, SendingInput, Working, Answered, Idle
  <1>4. CASE gui \in {"wait", "poll"}
    BY <1>4 DEF Inv, Conversation, UnderWay, SendingInput, Working, Answered, Idle
  <1>5. CASE gui = "closing"
    <2>1. ASSUME NEW st \in Final, Rests(PromptAfter(st)) PROVE AtRest
      BY <2>1 DEF AtRest, Rests, PromptAfter
    <2> QED BY <1>5, <2>1 DEF Inv, Conversation, Closing, UnderWay, SendingInput, Working, Answered, Idle
  <1>6. CASE gui = "joining"
    BY <1>6 DEF Inv, Conversation, Joining, Idle
  <1> QED BY <1>2, <1>3, <1>4, <1>5, <1>6

LEMMA Taken ==
  ASSUME Inv, NEW op, Takes(op)
  PROVE  /\ op = "open" =>
              gui = "opening" /\ requestQ = <<Open>> /\ child = "none" /\ responseQ = <<>>
         /\ op = "send" => \/ gui \in {"opening", "wait", "poll"} /\ Requested(<<>>)
                           \/ /\ gui = "closing" /\ Requested(<<Close>>)
                              /\ stdinClosed = FALSE /\ stdoutClosed = FALSE
         /\ op = "close" => /\ gui = "closing" /\ requestQ = <<Close>> /\ AtRest
                            /\ responseQ = <<>> \/ \E st \in Final : responseQ = <<st>>
         /\ op = "shutdown" => /\ gui = "joining" /\ requestQ = <<Shutdown>>
                               /\ responseQ = <<>> /\ child = "exited"
  <1>1. worker = "idle" /\ requestQ # <<>> /\ Head(requestQ).op = op
    BY DEF Takes
  <1>2. /\ Open.op = "open" /\ Close.op = "close" /\ Shutdown.op = "shutdown"
        /\ \A l : Send(l).op = "send"
    BY DEF Open, Close, Shutdown, Send
  <1>3. \A more \in {<<>>, <<Close>>} : Requested(more) => \E l : Head(requestQ) = Send(l)
    BY Tuples DEF Requested, Idle
  <1>4. CASE requestQ = <<Open>>
    <2>1. op = "open"
      BY <1>1, <1>2, <1>4, Tuples
    <2> QED BY <2>1, <1>1, <1>2, <1>3, <1>4, Takable, Tuples, Distinct
  <1>5. CASE requestQ = <<Close>>
    <2>1. op = "close"
      BY <1>1, <1>2, <1>5, Tuples
    <2> QED BY <2>1, <1>1, <1>2, <1>3, <1>5, Takable, Tuples, Distinct
  <1>6. CASE requestQ = <<Shutdown>>
    <2>1. op = "shutdown"
      BY <1>1, <1>2, <1>6, Tuples
    <2> QED BY <2>1, <1>1, <1>2, <1>3, <1>6, Takable, Tuples, Distinct
  <1>7. CASE Requested(<<>>) \/ Requested(<<Close>>)
    <2>1. op = "send"
      BY <1>1, <1>2, <1>3, <1>7
    <2>2. Head(requestQ) # Open /\ Head(requestQ) # Close /\ Head(requestQ) # Shutdown
      BY <1>3, <1>7, Distinct
    <2> QED BY <2>1, <2>2, <1>1, Takable, Tuples
  <1> QED BY <1>1, <1>4, <1>5, <1>6, <1>7, Takable

LEMMA WorkerOpensInv == Inv /\ WorkerOpens => Inv'
  <1> SUFFICES ASSUME Inv, WorkerOpens PROVE Inv'
    OBVIOUS
  <1>1. gui = "opening" /\ requestQ = <<Open>> /\ child = "none" /\ responseQ = <<>>
    BY Taken DEF WorkerOpens
  <1> USE DEF WorkerOpens, Takes
  <1>2. requestQ' = <<>> /\ gui' = "opening" /\ state' = state /\ ~refused'
    BY <1>1, Tuples DEF guiVars, Inv, Refusal
  <1>3. /\ toChild = <<>> /\ toChild' = <<>> /\ fromChild = <<>> /\ fromChild' = <<>>
        /\ canceled' = FALSE /\ responseQ' = <<>>
    BY <1>1 DEF Inv, Pipes, Ends, Typed, pipeVars
  <1>4. Typed'
    BY <1>2, <1>3, ShortTuples DEF Inv, Typed, WorkerAt, ChildAt, guiVars, pipeVars
  <1>5. Pipes' /\ Ends'
    BY <1>1, <1>2, <1>3 DEF Inv, Pipes, Ends, pipeVars
  <1>6. Opening'
    <2>1. CASE child' = "opening" /\ worker' = "reading"
      BY <2>1, <1>2, <1>3 DEF Opening, UnderWay, Working
    <2>2. CASE child' = child /\ worker' = "ended"
      BY <2>2, <1>1, <1>2, <1>3 DEF Opening
    <2> QED BY <2>1, <2>2
  <1>7. Conversation'
    BY <1>1, <1>2, <1>6 DEF Inv, Conversation
  <1>8. Refusal'
    BY <1>1, <1>2, <1>3, Tuples DEF Refusal
  <1> QED BY <1>4, <1>5, <1>7, <1>8 DEF Inv

\* Of what is under way, the gui needs to know no more.
LEMMA UnderWayConversation ==
  ASSUME Inv, UNCHANGED <<gui, state>>,
         \/ gui \in {"opening", "wait", "poll"} /\ UnderWay(<<>>)'
         \/ /\ gui = "closing" /\ UnderWay(<<Close>>)'
            /\ stdinClosed' = FALSE /\ stdoutClosed' = FALSE
  PROVE  Conversation'
  BY DEF Inv, Conversation, Opening, Closing

LEMMA WorkerSendsInv == Inv /\ WorkerSends => Inv'
  <1> SUFFICES ASSUME Inv, WorkerSends PROVE Inv'
    OBVIOUS
  <1>1. PICK more \in {<<>>, <<Close>>} :
              /\ Requested(more)
              /\ \/ gui \in {"opening", "wait", "poll"} /\ more = <<>>
                 \/ gui = "closing" /\ more = <<Close>>
              /\ stdinClosed = FALSE /\ stdoutClosed = FALSE
    BY Taken DEF WorkerSends, Inv, Typed, Ends
  <1> USE DEF WorkerSends, Takes
  <1>2. PICK l \in Command \cup Answer :
              /\ Idle(<<Send(l)>> \o more)
              /\ child = "exited" \/ (l \in Wanted(child) /\ toChild = <<>>)
    BY <1>1 DEF Requested
  <1>3. responseQ = <<>> /\ fromChild = <<>>
    BY <1>1 DEF Requested
  <1>4. requestQ' = more /\ Head(requestQ).line = l /\ requestQ' \in Short(Requests)
    <2>1. CASE more = <<>>
      <3>1. requestQ = <<Send(l)>>
        BY <2>1, <1>2, Tuples DEF Idle
      <3> QED BY <3>1, <2>1, ShortTuples, Tuples DEF Send
    <2>2. CASE more = <<Close>>
      <3>1. requestQ = <<Send(l), Close>>
        BY <2>2, <1>2, Tuples DEF Idle
      <3> QED BY <3>1, <2>2, ShortTuples, Tuples, Distinct DEF Send
    <2> QED BY <2>1, <2>2
  <1>5. CASE child = "exited"
    BY <1>4, <1>5, DeadInv DEF Write
  <1>6. CASE child # "exited"
    <2> DEFINE next == IF l = "setup" THEN "input" ELSE "reading"
    <2>1. /\ toChild = <<>> /\ toChild' = <<l>> /\ worker' = next /\ l \in Wanted(child)
          /\ UNCHANGED <<gui, stdinClosed, stdoutClosed>>
      BY <1>2, <1>4, <1>6, Tuples DEF Write
    <2>2. child' = child /\ canceled' = canceled /\ asks' = asks /\ fromChild' = <<>> /\ responseQ' = <<>>
      BY <1>3 DEF childVars
    <2>3. Typed'
      BY <1>4, <2>1, <2>2, ShortTuples DEF Inv, Typed, WorkerAt, childVars, Line
    <2>4. Pipes'
      BY <1>1, <1>6, <2>1, <2>2, Tuples DEF Inv, Pipes, Wanted, Ends
    <2>5. Ends'
      BY <1>2, <2>1, <1>1 DEF Inv, Ends
    <2>6. UnderWay(more)'
      <3>1. CASE l = "setup"
        <4>1. child = "prompt"
          BY <3>1, <2>1, <1>6 DEF Wanted, Input
        <4> QED BY <4>1, <3>1, <1>4, <2>1, <2>2 DEF UnderWay, SendingInput
      <3>2. CASE l # "setup"
        BY <3>2, <1>4, <2>1, <2>2, Tuples DEF UnderWay, Working
      <3> QED BY <3>1, <3>2
    <2>7. Conversation'
      BY <1>1, <2>1, <2>6, UnderWayConversation
    <2>8. Refusal'
      <3>1. CASE more = <<>>
        <4>1. (refused <=> l = "q") /\ refused' = refused /\ l \in Line
          BY <3>1, <1>1, <1>2, Tuples DEF Inv, Refusal, Line, Idle
        <4>2. \A m \in Line : toChild' = <<m>> => m = l
          BY <2>1, Tuples
        <4>3. child \in {"prompt", "load", "ack", "frequency"} /\ (child \in {"prompt", "load"} => ~refused)
          BY <4>1, <2>1 DEF Wanted, Command, Input
        <4>4. /\ fromChild' = <<>> /\ responseQ' = <<>> /\ requestQ' = <<>>
              /\ gui' \in {"opening", "wait", "poll"}
          BY <3>1, <1>1, <1>4, <2>1, <2>2
        <4>5. gui' = "opening" => ~refused
          BY <2>1 DEF Inv, Refusal
        <4> QED BY SMTT(30), <4>1, <4>2, <4>3, <4>4, <4>5, <2>2, Tuples DEF Refusal
      <3>2. CASE gui = "closing"
        BY <3>2, <2>1 DEF Refusal
      <3> QED BY <1>1, <3>1, <3>2
    <2> QED BY <2>3, <2>4, <2>5, <2>7, <2>8 DEF Inv
  <1> QED BY <1>5, <1>6

LEMMA WorkerSendsInputInv == Inv /\ WorkerSendsInput => Inv'
  <1> SUFFICES ASSUME Inv, WorkerSendsInput PROVE Inv'
    OBVIOUS
  <1>1. PICK more \in {<<>>, <<Close>>} :
              /\ SendingInput(more)
              /\ \/ gui \in {"opening", "wait", "poll"} /\ more = <<>>
                 \/ gui = "closing" /\ more = <<Close>>
              /\ stdinClosed = FALSE /\ stdoutClosed = FALSE
    BY DEF WorkerSendsInput, Inv, Typed, Ends, Conversation, Opening, Closing, Joining, Silence, Idle,
           UnderWay, Requested, Working, Answered, GuiAt
  <1> USE DEF WorkerSendsInput
  <1>2. CASE child = "exited"
    BY <1>2, DeadInv DEF Write, Inv, Typed
  <1>3. CASE child # "exited"
    <2>1. /\ \/ child = "prompt" /\ toChild = <<"setup">> /\ toChild' = <<"setup", Input>>
             \/ child = "load" /\ toChild = <<>> /\ toChild' = <<Input>>
          /\ worker' = "reading" /\ requestQ' = more /\ responseQ' = <<>>
          /\ UNCHANGED <<gui, state, stdinClosed, stdoutClosed, requestQ, refused>>
      BY <1>1, <1>3, Tuples DEF SendingInput, Write
    <2>2. child' = child /\ canceled' = canceled /\ asks' = asks /\ fromChild' = fromChild
      BY DEF childVars
    <2>3. Typed'
      BY <2>1, <2>2, ShortTuples DEF Inv, Typed, WorkerAt, childVars, Line, Command
    <2>4. fromChild = <<>>
      BY <1>1, <1>3, <2>1, Tuples DEF Inv, Pipes, Ends
    <2>5. Pipes'
      BY <1>1, <1>3, <2>1, <2>2, <2>4, Tuples DEF Inv, Pipes, Wanted
    <2>6. Ends'
      BY <2>1, <1>1 DEF Inv, Ends
    <2>7. UnderWay(more)'
      <3>1. \A a : <<"setup">> # <<"setup", a>>
        BY Tuples
      <3>2. <<Input>> # <<"setup">>
        BY Tuples DEF Input
      <3>3. toChild' # <<"setup">> /\ toChild' # <<>>
        BY <2>1, <3>1, <3>2, Tuples
      <3> QED BY <2>1, <2>2, <3>3 DEF UnderWay, Working
    <2>8. Conversation'
      BY <1>1, <2>1, <2>7, UnderWayConversation
    <2>9. Refusal'
      <3>1. CASE gui \in {"opening", "wait", "poll"}
        <4>1. refused = FALSE /\ refused' = FALSE
          BY <1>3, <2>1, <3>1, Tuples DEF Inv, Refusal, Typed
        <4>2. \A l \in Line : toChild' = <<l>> => l # "q"
          BY <2>1, Tuples DEF Input
        <4>3. \A l \in Line : requestQ' # <<Send(l)>>
          BY <1>1, <2>1, Tuples, Distinct
        <4>4. /\ fromChild' = <<>> /\ responseQ' = <<>> /\ child' \in {"prompt", "load"}
              /\ gui' \in {"opening", "wait", "poll"}
          BY <2>1, <2>2, <2>4, <3>1
        <4> QED BY <4>1, <4>2, <4>3, <4>4, Tuples DEF Refusal
      <3>2. CASE gui = "closing"
        BY <3>2, <2>1 DEF Refusal
      <3> QED BY <1>1, <3>1, <3>2
    <2> QED BY <2>3, <2>5, <2>6, <2>8, <2>9 DEF Inv
  <1> QED BY <1>2, <1>3

LEMMA WorkerReadsInv == Inv /\ WorkerReads => Inv'
  <1> SUFFICES ASSUME Inv, WorkerReads PROVE Inv'
    OBVIOUS
  <1>1. PICK more \in {<<>>, <<Close>>} :
              /\ Working(more)
              /\ \/ gui \in {"opening", "wait", "poll"} /\ more = <<>>
                 \/ gui = "closing" /\ more = <<Close>>
              /\ stdinClosed = FALSE /\ stdoutClosed = FALSE
    BY DEF WorkerReads, Inv, Typed, Ends, Conversation, Opening, Closing, Joining, Silence, Idle,
           UnderWay, Requested, SendingInput, Answered, GuiAt
  <1> USE DEF WorkerReads, Respond
  <1>2. UNCHANGED <<gui, state, refused, requestQ, toChild, stdinClosed, stdoutClosed, child, asks, canceled>>
    BY DEF guiVars, childVars
  <1>3. PICK st \in Final : /\ responseQ' = <<st>> /\ fromChild' = <<>>
                            /\ Rests(PromptAfter(st))'
                            /\ gui \in {"opening", "wait", "poll"} => Tells(st)
    <2>1. CASE fromChild # <<>>
      <3>1. ~stdoutClosed
        BY <1>1 DEF Inv, Ends
      <3>2. PICK st \in Status : fromChild = <<st>> /\ child \in {PromptAfter(st), "exited"}
        BY <2>1, <3>1 DEF Inv, Pipes
      <3>3. responseQ' = <<st>> /\ fromChild' = <<>>
        BY <1>1, <2>1, <3>2, Tuples DEF Working
      <3>4. child # "exited" => toChild = <<>>
        BY <2>1 DEF Inv, Pipes
      <3>5. gui \in {"opening", "wait", "poll"} => Tells(st)
        BY <3>2 DEF Inv, Refusal
      <3> QED BY <1>2, <3>2, <3>3, <3>4, <3>5 DEF Rests, Final
    <2>2. CASE fromChild = <<>>
      BY <1>1, <1>2, <2>2, Tuples DEF Working, Rests, Tells, Final
    <2> QED BY <2>1, <2>2
  <1>4. Typed'
    BY <1>2, <1>3, ShortTuples, SingleTuples DEF Inv, Typed, WorkerAt, guiVars, childVars
  <1>5. Pipes' /\ Ends'
    BY <1>1, <1>2, <1>3 DEF Inv, Pipes, Ends
  <1>6. UnderWay(more)'
    BY <1>1, <1>2, <1>3 DEF UnderWay, Answered, Idle, Working
  <1>7. Conversation'
    BY <1>1, <1>2, <1>6, UnderWayConversation
  <1>8. Refusal'
    BY <1>1, <1>2, <1>3, Tuples DEF Inv, Refusal, Tells
  <1> QED BY <1>4, <1>5, <1>7, <1>8 DEF Inv

LEMMA WorkerClosesInv == Inv /\ WorkerCloses => Inv'
  <1> SUFFICES ASSUME Inv, WorkerCloses PROVE Inv'
    OBVIOUS
  <1>1. /\ gui = "closing" /\ requestQ = <<Close>> /\ AtRest /\ state = "closed"
        /\ responseQ = <<>> \/ \E st \in Final : responseQ = <<st>>
    BY Taken DEF WorkerCloses, Inv, Conversation
  <1> USE DEF WorkerCloses, Takes
  <1>2. requestQ' = <<>> /\ gui' = gui /\ state' = state /\ child' = child
    BY <1>1, Tuples DEF guiVars, childVars
  <1>3. Typed'
    BY <1>2, ShortTuples DEF Inv, Typed, WorkerAt, guiVars, childVars
  <1>4. Pipes'
    BY <1>1 DEF Inv, Pipes, AtRest, Rests, childVars
  <1>5. Ends'
    BY <1>1, <1>2 DEF Inv, Ends
  <1>6. Conversation'
    BY <1>1, <1>2 DEF Conversation, Closing, AtRest, Rests, Inv, Pipes
  <1>7. Refusal'
    BY <1>1, <1>2 DEF Refusal
  <1> QED BY <1>3, <1>4, <1>5, <1>6, <1>7 DEF Inv

\* What the worker is at while it closes.
LEMMA ClosingOnly ==
  ASSUME Inv, worker \in {"closing", "reaping"}
  PROVE  /\ gui = "closing" /\ state = "closed" /\ requestQ = <<>> /\ child # "none"
         /\ stdinClosed
         /\ responseQ = <<>> \/ \E st \in Final : responseQ = <<st>>
  BY DEF Inv, Typed, Ends, Conversation, Opening, Closing, Joining, Silence, Idle,
         UnderWay, Requested, SendingInput, Working, Answered, GuiAt

LEMMA WorkerClosesOutputInv == Inv /\ WorkerClosesOutput => Inv'
  <1> SUFFICES ASSUME Inv, WorkerClosesOutput PROVE Inv'
    OBVIOUS
  <1> USE DEF WorkerClosesOutput
  <1>1. /\ gui = "closing" /\ state = "closed" /\ requestQ = <<>> /\ child # "none"
        /\ stdinClosed
        /\ responseQ = <<>> \/ \E st \in Final : responseQ = <<st>>
    BY ClosingOnly
  <1>2. Typed'
    BY DEF Inv, Typed, WorkerAt, guiVars, childVars
  <1>3. Pipes'
    BY DEF Inv, Pipes, childVars
  <1>4. Ends' /\ Refusal'
    BY <1>1 DEF Ends, Refusal, guiVars
  <1>5. Conversation'
    BY <1>1 DEF Conversation, Closing, guiVars, childVars
  <1> QED BY <1>2, <1>3, <1>4, <1>5 DEF Inv

LEMMA WorkerReapsInv == Inv /\ WorkerReaps => Inv'
  <1> SUFFICES ASSUME Inv, WorkerReaps PROVE Inv'
    OBVIOUS
  <1> USE DEF WorkerReaps, Respond
  <1>1. /\ gui = "closing" /\ state = "closed" /\ requestQ = <<>>
        /\ responseQ = <<>> \/ \E st \in Final : responseQ = <<st>>
    BY ClosingOnly
  <1>2. /\ responseQ' \in Short(Final \cup {"closed"})
        /\ responseQ' = <<"closed">> \/ \E st \in Final : responseQ' = <<st, "closed">>
    <2>1. CASE responseQ = <<>>
      <3>1. responseQ' = <<"closed">>
        BY <2>1, Tuples
      <3> QED BY <3>1, ShortTuples
    <2>2. ASSUME NEW st \in Final, responseQ = <<st>> PROVE /\ responseQ' = <<st, "closed">>
                                                               /\ responseQ' \in Short(Final \cup {"closed"})
      <3> DEFINE S == Final \cup {"closed"}
      <3>1. responseQ' = <<st, "closed">>
        BY <2>2, Tuples
      <3>2. <<st, "closed">> \in Short(S)
        BY ShortTuples
      <3> QED BY <3>1, <3>2
    <2> QED BY <1>1, <2>1, <2>2
  <1>3. Typed'
    BY <1>2 DEF Inv, Typed, WorkerAt, guiVars, pipeVars, childVars
  <1>4. Pipes' /\ Ends'
    BY <1>1, PipesFrame DEF Inv, Ends, guiVars, pipeVars
  <1>5. Conversation'
    BY <1>1, <1>2 DEF Conversation, Closing, Idle, guiVars, childVars
  <1>6. Refusal'
    BY <1>1 DEF Refusal, guiVars
  <1> QED BY <1>3, <1>4, <1>5, <1>6 DEF Inv

LEMMA WorkerShutsDownInv == Inv /\ WorkerShutsDown => Inv'
  <1> SUFFICES ASSUME Inv, WorkerShutsDown PROVE Inv'
    OBVIOUS
  <1>1. /\ gui = "joining" /\ requestQ = <<Shutdown>> /\ responseQ = <<>> /\ child = "exited"
        /\ state = "closed"
    BY Taken DEF WorkerShutsDown, Inv, Conversation
  <1> USE DEF WorkerShutsDown, Takes
  <1>2. requestQ' = <<>> /\ gui' = gui /\ state' = state /\ child' = child
    BY <1>1, Tuples DEF guiVars, childVars
  <1>3. Typed'
    BY <1>2, ShortTuples DEF Inv, Typed, WorkerAt, guiVars, pipeVars, childVars
  <1>4. Pipes' /\ Ends'
    BY <1>1, <1>2, PipesFrame DEF Inv, Ends, pipeVars
  <1>5. Conversation'
    BY <1>1, <1>2 DEF Conversation, Joining
  <1>6. Refusal'
    BY <1>1, <1>2 DEF Refusal
  <1> QED BY <1>3, <1>4, <1>5, <1>6 DEF Inv

-----------------------------------------------------------------------------
\* While the program does anything, its line is under way, or the worker closes
\* the pipes.
Converses(more) ==
    /\ Working(more) \/ SendingInput(more)
    /\ stdinClosed = FALSE /\ stdoutClosed = FALSE
    /\ \/ gui \in {"opening", "wait", "poll"} /\ more = <<>>
       \/ gui = "closing" /\ more = <<Close>>

Closes == gui = "closing" /\ worker \in {"closing", "reaping"}

LEMMA Active ==
  ASSUME Inv, child \notin {"none", "exited"},
         child \in {"opening", "load", "command"} \/ toChild # <<>> \/ stdinClosed
  PROVE  gui = "dead" \/ Closes \/ \E more \in {<<>>, <<Close>>} : Converses(more)
  <1> SUFFICES ASSUME gui # "dead" PROVE Closes \/ \E more \in {<<>>, <<Close>>} : Converses(more)
    OBVIOUS
  <1>1. \A at \in {"prompt", "ack", "frequency"} :
           Rests(at) => child = at /\ toChild = <<>>
    BY DEF Rests
  <1>2. \A st \in Final : Rests(PromptAfter(st)) => stdinClosed
    BY <1>1 DEF PromptAfter, Rests
  <1>3. \A more \in {<<>>, <<Close>>} : Requested(more) => stdinClosed
    BY DEF Requested, Wanted, Command, Answer, Input
  <1>4. stdinClosed => gui \in {"closing", "joining", "done"}
    BY DEF Inv, Ends
  <1>5. gui \notin {"start", "main", "callback", "ackDialog", "freqDialog", "joining", "done"}
    BY <1>1, <1>2, <1>4 DEF Inv, Conversation, Joining, Rests
  <1>6. CASE gui \in {"opening", "wait", "poll"}
    <2>1. UnderWay(<<>>)
      BY <1>6 DEF Inv, Conversation, Opening
    <2>2. Working(<<>>) \/ SendingInput(<<>>)
      BY <2>1, <1>2, <1>3, <1>4, <1>6 DEF UnderWay, Answered
    <2> QED BY <2>2, <1>4, <1>6 DEF Converses, Inv, Typed, Ends
  <1>7. CASE gui = "closing"
    <2>1. (~Rests("prompt") /\ ~Rests("ack") /\ ~Rests("frequency")) \/ stdinClosed
      BY <1>1
    <2>2. CASE Closes
      BY <2>2
    <2>3. CASE ~stdinClosed /\ ~stdoutClosed /\ UnderWay(<<Close>>)
      BY <2>3, <1>2, <1>3, <1>7 DEF Converses, UnderWay, Answered, Inv, Typed
    <2> QED BY <1>7, <2>1, <2>2, <2>3 DEF Inv, Conversation, Closing, Closes, AtRest
  <1> QED BY <1>5, <1>6, <1>7 DEF Inv, Typed, GuiAt

\* A step of the program leaves the conversation to it.
LEMMA ChildConversation ==
  ASSUME Inv, UNCHANGED <<guiVars, workerVars, stdinClosed, stdoutClosed>>, child' # "none",
         gui = "dead" \/ Closes \/ \E more \in {<<>>, <<Close>>} : Converses(more),
         \A more \in {<<>>, <<Close>>} : Working(more) => Working(more)',
         \A more \in {<<>>, <<Close>>} : SendingInput(more) => SendingInput(more)'
  PROVE  Ends' /\ Conversation'
  <1>1. Ends' /\ gui' = gui /\ state' = state
    BY DEF Inv, Ends, guiVars, workerVars
  <1>2. CASE gui = "dead"
    BY <1>1, <1>2 DEF Conversation
  <1>3. CASE Closes
    <2>1. /\ state = "closed" /\ requestQ = <<>> /\ stdinClosed
          /\ responseQ = <<>> \/ \E st \in Final : responseQ = <<st>>
      BY <1>3, ClosingOnly DEF Closes
    <2> QED BY <2>1, <1>1, <1>3 DEF Conversation, Closes, Closing, workerVars
  <1>4. ASSUME NEW more \in {<<>>, <<Close>>}, Converses(more) PROVE Conversation'
    <2>1. UnderWay(more)'
      BY <1>4 DEF Converses, UnderWay
    <2> QED BY <1>1, <1>4, <2>1, UnderWayConversation DEF Converses
  <1> QED BY <1>1, <1>2, <1>3, <1>4

\* Where a document with this status leaves the program.
LEMMA Places ==
  /\ \A st \in Status : PromptAfter(st) \in {"prompt", "ack", "frequency"}
  /\ PromptAfter("needsACK") = "ack" /\ PromptAfter("needsMeasuredF") = "frequency"
  /\ PromptAfter("ok") = "prompt" /\ PromptAfter("error") = "prompt" /\ PromptAfter("canceled") = "prompt"
  BY DEF PromptAfter, Status

\* The program writes a document where it works, with nothing in the pipes.
LEMMA DocumentInv ==
  ASSUME Inv, NEW st \in Status, NEW at \in {PromptAfter(st), "exited"},
         child \in {"opening", "command"}, Document(st, at),
         UNCHANGED <<guiVars, workerVars, toChild, stdinClosed, stdoutClosed>>,
         asks' \in {"ready", "frequency", "nothing"}, canceled' = FALSE,
         st \in {"needsACK", "needsMeasuredF"} => child = "command" /\ asks # "nothing",
         gui \in {"opening", "wait", "poll"} => Tells(st)
  PROVE  Inv'
  <1> USE DEF Document
  <1>1. toChild = <<>> /\ toChild' = <<>>
    BY DEF Inv, Pipes
  <1>2. \/ ~stdoutClosed /\ fromChild' = <<st>> /\ child' = at
        \/ stdoutClosed /\ child' = "exited" /\ fromChild' = fromChild
    BY Tuples DEF Inv, Pipes
  <1>3. at \in {"prompt", "ack", "frequency", "exited"} /\ child' \in {"prompt", "ack", "frequency", "exited"}
    BY <1>2, Places
  <1>4. Typed'
    <2>1. fromChild' \in Single(Status) /\ child' \in ChildAt
      BY <1>2, <1>3, SingleTuples DEF Inv, Typed, ChildAt
    <2>2. killed' \in BOOLEAN /\ errors' \in BOOLEAN
      BY DEF Inv, Typed
    <2> QED BY <2>1, <2>2 DEF Inv, Typed, guiVars, workerVars
  <1>5. Pipes'
    <2>1. CASE stdoutClosed
      BY <2>1, <1>1, <1>2 DEF Pipes
    <2>2. CASE ~stdoutClosed
      <3>1. stdinClosed => at \in {"prompt", "exited"}
        BY <2>2, Places DEF Inv, Pipes, Status
      <3> QED BY <2>2, <3>1, <1>1, <1>2, <1>3 DEF Pipes
    <2> QED BY <2>1, <2>2
  <1>6. Ends' /\ Conversation'
    <2>1. \A more \in {<<>>, <<Close>>} : Working(more) => Working(more)'
      BY <1>1, <1>2, Tuples DEF Working, Inv, Ends, workerVars
    <2>2. \A more \in {<<>>, <<Close>>} : ~SendingInput(more)
      BY DEF SendingInput
    <2> QED BY <1>3, <2>1, <2>2, Active, ChildConversation
  <1>7. Refusal'
    <2>1. CASE gui \in {"opening", "wait", "poll"}
      <3>1. ~stdoutClosed /\ Tells(st)' /\ fromChild' = <<st>>
        BY <2>1, <1>2 DEF Inv, Ends, Tells, guiVars
      <3>2. \A l : toChild' # <<l>>
        BY <1>1, Tuples
      <3> QED BY <2>1, <1>1, <1>3, <3>1, <3>2, Tuples DEF Inv, Refusal, Tells, guiVars, workerVars
    <2>2. CASE gui \notin {"opening", "wait", "poll"}
      BY <2>2 DEF Inv, Refusal, Tells, guiVars
    <2> QED BY <2>1, <2>2
  <1> QED BY <1>4, <1>5, <1>6, <1>7 DEF Inv

\* message_prompt: its status tells whether the operator canceled.
LEMMA MessagePromptInv ==
  ASSUME Inv, NEW failed \in BOOLEAN, NEW at \in {"prompt", "exited"},
         child \in {"opening", "command"}, MessagePrompt(failed, at),
         UNCHANGED <<guiVars, workerVars, toChild, stdinClosed, stdoutClosed>>,
         asks' = asks
  PROVE  Inv'
  <1> DEFINE st == IF failed \/ errors THEN "error" ELSE IF canceled THEN "canceled" ELSE "ok"
  <1>1. Document(st, at) /\ canceled' = FALSE
    BY DEF MessagePrompt
  <1>2. st \in Status /\ at \in {PromptAfter(st), "exited"} /\ st \notin {"needsACK", "needsMeasuredF"}
    BY Places DEF Status
  <1>3. gui \in {"opening", "wait", "poll"} => Tells(st)
    BY DEF Inv, Refusal, Pipes, Tells
  <1>4. asks' \in {"ready", "frequency", "nothing"}
    BY DEF Inv, Typed
  <1> HIDE DEF st
  <1> QED BY <1>1, <1>2, <1>3, <1>4, DocumentInv

\* The program ends, with or without reading its line.
LEMMA ExitInv ==
  ASSUME Inv, child \notin {"none", "exited"}, child' = "exited",
         \/ UNCHANGED toChild
         \/ toChild # <<>> /\ toChild' = Tail(toChild),
         UNCHANGED <<guiVars, workerVars, fromChild, stdinClosed, stdoutClosed, asks, canceled>>,
         errors' \in BOOLEAN, killed' \in BOOLEAN
  PROVE  Inv'
  <1>1. Typed'
    <2>1. toChild \in Short(Line)
      BY DEF Inv, Typed
    <2>2. \A s \in Short(Line) : s # <<>> => Tail(s) \in Short(Line)
      BY ShortTuples
    <2>3. toChild' \in Short(Line)
      BY <2>1, <2>2
    <2> QED BY <2>3 DEF Inv, Typed, ChildAt, guiVars, workerVars
  <1>2. Pipes'
    BY DEF Inv, Pipes
  <1>3. Ends'
    BY DEF Inv, Ends, guiVars, workerVars
  <1>4. \A at : Rests(at) => Rests(at)'
    BY DEF Rests
  <1>5. \A more : UnderWay(more) => UnderWay(more)'
    BY <1>4 DEF UnderWay, Requested, SendingInput, Working, Answered, Idle, workerVars
  <1>6. Conversation'
    <2>1. gui' = gui /\ state' = state /\ status' = status /\ Silence' = Silence
      BY DEF Silence, Idle, guiVars, workerVars
    <2>2. Opening => Opening'
      BY <1>5 DEF Opening
    <2>3. Closing => Closing'
      BY <1>4, <1>5 DEF Closing, AtRest, Idle, workerVars
    <2>4. Joining => Joining'
      BY DEF Joining, Idle, workerVars
    <2> QED BY <1>4, <1>5, <2>1, <2>2, <2>3, <2>4 DEF Inv, Conversation, workerVars, Rests
  <1>7. Refusal'
    <2>1. \A st : Tells(st)' = Tells(st)
      BY DEF Tells, guiVars
    <2> QED BY <2>1 DEF Inv, Refusal, guiVars, workerVars
  <1> QED BY <1>1, <1>2, <1>3, <1>6, <1>7 DEF Inv

LEMMA DiesInv == Inv /\ Dies => Inv'
  BY ExitInv DEF Dies, pipeVars, Inv, Typed

LEMMA MainInv == Inv /\ Main => Inv'
  <1> SUFFICES ASSUME Inv, Main PROVE Inv'
    OBVIOUS
  <1> USE DEF Main
  <1>1. CASE errors' = TRUE /\ child' = "exited" /\ UNCHANGED <<canceled, killed, fromChild>>
    BY <1>1, ExitInv DEF Inv, Typed
  <1>2. CASE MessagePrompt(TRUE, "exited")
    BY <1>2, MessagePromptInv
  <1>3. ASSUME NEW warned \in BOOLEAN, MessagePrompt(warned, "prompt") PROVE Inv'
    BY <1>3, MessagePromptInv
  <1> QED BY <1>1, <1>2, <1>3

LEMMA EndCommandInv == Inv /\ EndCommand => Inv'
  BY MessagePromptInv DEF EndCommand

LEMMA NeedsACKInv == Inv /\ NeedsACK => Inv'
  <1> SUFFICES ASSUME Inv, NeedsACK PROVE Inv'
    OBVIOUS
  <1>1. canceled = FALSE
    BY DEF Inv, Typed, Pipes, NeedsACK
  <1>2. gui \in {"opening", "wait", "poll"} => Tells("needsACK")
    BY <1>1 DEF Inv, Refusal, Tells, NeedsACK
  <1> QED BY <1>1, <1>2, Places, DocumentInv DEF NeedsACK, Status, Inv, Typed

LEMMA NeedsMeasuredFInv == Inv /\ NeedsMeasuredF => Inv'
  <1> SUFFICES ASSUME Inv, NeedsMeasuredF PROVE Inv'
    OBVIOUS
  <1>1. canceled = FALSE
    BY DEF Inv, Typed, Pipes, NeedsMeasuredF
  <1>2. gui \in {"opening", "wait", "poll"} => Tells("needsMeasuredF")
    BY <1>1 DEF Inv, Refusal, Tells, NeedsMeasuredF
  <1> QED BY <1>1, <1>2, Places, DocumentInv DEF NeedsMeasuredF, Status, Inv, Typed

LEMMA MessageErrorInv == Inv /\ MessageError => Inv'
  <1> SUFFICES ASSUME Inv, MessageError PROVE Inv'
    OBVIOUS
  <1> USE DEF MessageError
  <1>1. Typed' /\ Pipes'
    BY DEF Inv, Typed, Pipes, guiVars, workerVars, pipeVars
  <1>2. Ends' /\ Conversation'
    <2>1. \A more : (Working(more) => Working(more)') /\ (SendingInput(more) => SendingInput(more)')
      BY DEF Working, SendingInput, workerVars, pipeVars
    <2> QED BY <2>1, Active, ChildConversation DEF pipeVars
  <1>3. Refusal'
    BY DEF Inv, Refusal, Tells, guiVars, workerVars, pipeVars
  <1> QED BY <1>1, <1>2, <1>3 DEF Inv

\* What is read is what is wanted, or the end of the file.
LEMMA Hears ==
  ASSUME Inv, child \in {"prompt", "load", "ack", "frequency"}, ReadLine
  PROVE  \/ /\ toChild = <<Heard>> /\ toChild' = <<>> /\ fromChild = <<>>
            /\ Heard \in Wanted(child)
         \/ /\ toChild = <<"setup", Input>> /\ toChild' = <<Input>> /\ fromChild = <<>>
            /\ child = "prompt" /\ Heard = "setup"
         \/ /\ toChild = <<>> /\ toChild' = <<>> /\ Heard = EndOfFile /\ stdinClosed
            /\ child # "prompt" /\ ~stdoutClosed => fromChild = <<>>
  <1> USE DEF ReadLine, Heard
  <1>1. CASE toChild = <<>>
    BY <1>1 DEF Inv, Pipes
  <1>2. CASE \E l \in Wanted(child) : toChild = <<l>>
    BY <1>2, Tuples DEF Inv, Pipes
  <1>3. CASE child = "prompt" /\ toChild = <<"setup", Input>>
    BY <1>3, Tuples DEF Inv, Pipes
  <1> QED BY <1>1, <1>2, <1>3 DEF Inv, Pipes

\* The program reads its line and goes on, canceled or not.
LEMMA ReadsInv ==
  ASSUME Inv, child \in {"prompt", "load", "ack", "frequency"}, ReadLine,
         UNCHANGED <<guiVars, workerVars, fromChild, stdinClosed, stdoutClosed, errors, killed>>,
         \/ child' = "command" /\ Heard # "setup"
         \/ child' = "load" /\ child = "prompt" /\ Heard = "setup",
         child \in {"prompt", "load"} => toChild # <<>>,
         canceled' \in BOOLEAN, canceled' <=> Heard \in {"q", EndOfFile},
         asks' \in {"ready", "frequency", "nothing"},
         canceled' => asks' = "nothing"
  PROVE  Inv'
  <1>1. /\ EndOfFile \notin Line /\ "setup" \notin Wanted("load")
        /\ Heard \in Wanted(child) => Heard \in Line
        /\ child \in {"prompt", "load"} /\ Heard \in Wanted(child) => Heard # "q"
    BY DEF EndOfFile, Line, Command, Answer, Input, Wanted
  <1>2. Typed'
    <2>1. toChild' \in Short(Line)
      BY Hears, ShortTuples DEF Line
    <2> QED BY <2>1 DEF Inv, Typed, ChildAt, guiVars, workerVars
  <1>3. \/ child' = "command" /\ toChild' = <<>>
        \/ child' = "load" /\ toChild' = <<>> /\ toChild = <<"setup">>
        \/ child' = "load" /\ toChild' = <<Input>>
    BY Hears
  <1>4. ~stdoutClosed => fromChild = <<>>
    BY Hears, Tuples
  <1>5. stdinClosed /\ ~stdoutClosed => toChild = <<>> /\ Heard = EndOfFile
    BY DEF Inv, Pipes, Heard
  <1>6. canceled' => child' = "command"
    BY Hears DEF EndOfFile
  <1>7. Pipes'
    <2>1. toChild' # <<>> => fromChild = <<>>
      BY Hears, Tuples
    <2> QED BY <1>3, <1>4, <1>5, <1>6, <2>1, Tuples DEF Pipes, Wanted, EndOfFile
  <1>8. Ends' /\ Conversation'
    <2>1. ASSUME NEW more \in {<<>>, <<Close>>}, Working(more) PROVE Working(more)'
      <3>1. toChild' # <<"setup">>
        BY <1>3, Tuples DEF Input
      <3>2. toChild # <<"setup">>
        BY <2>1 DEF Working
      <3> QED BY <1>3, <2>1, <3>1, <3>2, Tuples DEF Working, workerVars
    <2>2. ASSUME NEW more \in {<<>>, <<Close>>}, SendingInput(more) PROVE SendingInput(more)'
      <3>1. child = "prompt" /\ toChild = <<"setup">>
        BY <2>2 DEF SendingInput
      <3>2. child' = "load" /\ toChild' = <<>>
        BY <3>1, Hears, Tuples
      <3> QED BY <2>2, <3>2 DEF SendingInput, workerVars
    <2>3. toChild # <<>> \/ stdinClosed
      BY DEF ReadLine
    <2> QED BY <2>1, <2>2, <2>3, Active, ChildConversation
  <1>9. Refusal'
    <2>1. CASE gui \in {"opening", "wait", "poll"}
      <3>1. ~stdinClosed
        BY <2>1 DEF Inv, Ends
      <3>2. CASE toChild = <<Heard>> /\ toChild' = <<>> /\ Heard \in Wanted(child)
        <4>1. refused <=> Heard = "q"
          BY <2>1, <3>2, <1>1 DEF Inv, Refusal
        <4>2. (canceled' <=> Heard = "q") /\ (child \in {"prompt", "load"} => refused = FALSE)
          BY <4>1, <3>2, <1>1
        <4>3. \A l : toChild' # <<l>>
          BY <3>2, Tuples
        <4> QED BY <2>1, <4>1, <4>2, <4>3 DEF Inv, Refusal, Tells, guiVars, workerVars
      <3>3. CASE toChild' = <<Input>> /\ child = "prompt" /\ Heard = "setup"
        <4>1. refused = FALSE /\ child' = "load"
          BY <2>1, <3>3 DEF Inv, Refusal, Typed
        <4>2. \A l : toChild' = <<l>> => l # "q"
          BY <3>3, Tuples DEF Input
        <4> QED BY <2>1, <4>1, <4>2 DEF Inv, Refusal, Tells, guiVars, workerVars
      <3> QED BY <3>1, <3>2, <3>3, Hears
    <2>2. CASE gui \notin {"opening", "wait", "poll"}
      BY <2>2 DEF Inv, Refusal, Tells, guiVars
    <2> QED BY <2>1, <2>2
  <1> QED BY <1>2, <1>7, <1>8, <1>9 DEF Inv

LEMMA CliInv == Inv /\ Cli => Inv'
  <1> SUFFICES ASSUME Inv, Cli PROVE Inv'
    OBVIOUS
  <1> USE DEF Cli
  <1>1. Heard \in Command \/ Heard = EndOfFile
    BY Hears DEF Wanted, Command
  <1>2. CASE Heard \in Command
    <2>1. Heard \notin {"q", EndOfFile} /\ toChild # <<>>
      BY <1>2 DEF Command, EndOfFile, Heard
    <2>2. canceled' = FALSE
      BY <1>2 DEF Inv, Typed, Pipes
    <2>3. asks' \in {"ready", "frequency", "nothing"}
      BY <1>2 DEF Prompts
    <2>4. \/ child' = "command" /\ Heard # "setup"
          \/ child' = "load" /\ child = "prompt" /\ Heard = "setup"
      BY <1>2 DEF Begin
    <2> QED BY <1>2, <2>1, <2>2, <2>3, <2>4, ReadsInv
  <1>3. CASE Heard = EndOfFile
    BY <1>3, ExitInv DEF EndOfFile, Command, ReadLine, Inv, Typed
  <1> QED BY <1>1, <1>2, <1>3

LEMMA LoadInv == Inv /\ Load => Inv'
  <1> SUFFICES ASSUME Inv, Load PROVE Inv'
    OBVIOUS
  <1> USE DEF Load
  <1>1. Heard = Input \/ Heard = EndOfFile
    BY Hears DEF Wanted
  <1>2. CASE Heard = Input
    <2>1. Heard \notin {"q", EndOfFile, "setup"} /\ toChild # <<>>
      BY <1>2 DEF Input, EndOfFile, Heard
    <2>2. canceled' = FALSE /\ asks' \in {"ready", "frequency", "nothing"} /\ killed' = killed
      BY <2>1, <1>2 DEF Inv, Typed, Pipes
    <2> QED BY <1>2, <2>1, <2>2, ReadsInv
  <1>3. CASE Heard = EndOfFile
    BY <1>3, ExitInv DEF EndOfFile, Input, ReadLine, Inv, Typed
  <1> QED BY <1>1, <1>2, <1>3

LEMMA PromptForReadyInv == Inv /\ PromptForReady => Inv'
  <1> SUFFICES ASSUME Inv, PromptForReady PROVE Inv'
    OBVIOUS
  <1> USE DEF PromptForReady
  <1>1. Heard \in {"", "q", EndOfFile}
    BY Hears DEF Wanted
  <1>2. /\ child' = "command" /\ Heard # "setup" /\ canceled' \in BOOLEAN
        /\ (canceled' <=> Heard \in {"q", EndOfFile})
        /\ asks' \in {"ready", "frequency", "nothing"}
        /\ canceled' => asks' = "nothing"
    BY <1>1 DEF Proceeds, Cancels, EndOfFile, Inv, Typed, Pipes
  <1> QED BY <1>2, ReadsInv

LEMMA ReadFrequencyInv == Inv /\ ReadFrequency => Inv'
  <1> SUFFICES ASSUME Inv, ReadFrequency PROVE Inv'
    OBVIOUS
  <1> USE DEF ReadFrequency
  <1>1. Heard \in {"10.0", "q", EndOfFile}
    BY Hears DEF Wanted
  <1>2. /\ child' = "command" /\ Heard # "setup" /\ canceled' \in BOOLEAN
        /\ (canceled' <=> Heard \in {"q", EndOfFile})
        /\ asks' \in {"ready", "frequency", "nothing"}
        /\ canceled' => asks' = "nothing"
    BY <1>1 DEF Proceeds, Cancels, EndOfFile, Inv, Typed, Pipes
  <1> QED BY <1>2, ReadsInv

-----------------------------------------------------------------------------
LEMMA NextInv == Inv /\ [Next]_vars => Inv'
  <1> SUFFICES ASSUME Inv, [Next]_vars PROVE Inv'
    OBVIOUS
  <1>1. CASE GuiStep
    BY <1>1, OpenVNAInv, OpenedInv, ReceiveResponseInv, RunCommandCallbackInv,
       DrainInv, JoinedInv DEF GuiStep
  <1>2. CASE Operator
    BY <1>2, RunCommandInv, AcknowledgeInv, AnswerFrequencyInv, QuitInv DEF Operator
  <1>3. CASE WorkerStep
    BY <1>3, WorkerOpensInv, WorkerSendsInv, WorkerSendsInputInv, WorkerReadsInv,
       WorkerClosesInv, WorkerClosesOutputInv, WorkerReapsInv, WorkerShutsDownInv
       DEF WorkerStep
  <1>4. CASE ChildStep
    BY <1>4, MainInv, CliInv, LoadInv, MessageErrorInv, NeedsACKInv,
       NeedsMeasuredFInv, PromptForReadyInv, ReadFrequencyInv, EndCommandInv
       DEF ChildStep
  <1>5. CASE UNCHANGED vars
    <2>1. UNCHANGED <<guiVars, workerVars, pipeVars, childVars>>
      BY <1>5 DEF vars
    <2>2. Typed' /\ Pipes' /\ Ends'
      BY <2>1 DEF Inv, Typed, Pipes, Ends, guiVars, workerVars, pipeVars, childVars
    <2>3. Conversation' <=> Conversation
      BY <2>1 DEF Conversation, Opening, Closing, Joining, Silence, Idle, AtRest, Rests, UnderWay,
                  Requested, SendingInput, Working, Answered,
                  guiVars, workerVars, pipeVars, childVars
    <2>4. Refusal'
      BY <2>1 DEF Inv, Refusal, Tells, guiVars, workerVars, pipeVars, childVars
    <2> QED BY <2>2, <2>3, <2>4 DEF Inv
  <1> QED BY <1>1, <1>2, <1>3, <1>4, <1>5, GuiEndsInv, DiesInv DEF Next

\* One thing at a time is under way between the GUI and the program, and each
\* queue and pipe holds what its reader waits for: the session as a whole, in
\* whatever order its two threads, the program, the operator and the death of
\* either side take their steps.
THEOREM Invariance == Spec => []Inv
  BY InitInv, NextInv, PTL DEF Spec

\* Every variable has its type, and the queues and pipes of the driver of the
\* GUI are as short as TypeOK says.
THEOREM TypeCorrect == Spec => []TypeOK
  <1>1. Inv => TypeOK
    <2> SUFFICES ASSUME Inv PROVE TypeOK
      OBVIOUS
    <2>1. requestQ \in Seq(Requests) /\ Len(requestQ) <= 2
      BY ShortTuples DEF Inv, Typed
    <2>2. responseQ \in Seq(Final \cup {"closed"}) /\ Len(responseQ) <= 2
      BY ShortTuples DEF Inv, Typed
    <2>3. toChild \in Seq(Line) /\ Len(toChild) <= 2
      BY ShortTuples DEF Inv, Typed
    <2>4. fromChild \in Seq(Status) /\ Len(fromChild) <= 1
      BY SingleTuples DEF Inv, Typed
    <2>5. Final \cup {"closed"} = Status \cup {"errorExit", "closed"}
      BY DEF Final
    <2>6. status \in Status \cup {NoStatus, "errorExit"}
      BY DEF Inv, Typed, Final
    <2> QED BY <2>1, <2>2, <2>3, <2>4, <2>5, <2>6 DEF Inv, Typed, TypeOK, Requests
  <1> QED BY <1>1, Invariance, PTL

\* What the GUI believes of the program is so unless it has died since.
THEOREM StaysInStep == Spec => []InStep
  <1>1. Inv => InStep
    <2> SUFFICES ASSUME Inv, gui # "dead", state \in {"ready", "needsACK", "needsMeasuredF", "exited"}
                 PROVE  /\ requestQ = <<>> /\ responseQ = <<>> /\ worker = "idle"
                        /\ child # "exited" => toChild = <<>> /\ fromChild = <<>>
                        /\ state = "ready" => child \in {"prompt", "exited"}
                        /\ state = "needsACK" => child \in {"ack", "exited"}
                        /\ state = "needsMeasuredF" => child \in {"frequency", "exited"}
                        /\ state = "exited" => child = "exited"
      BY DEF InStep
    <2>1. gui \in {"main", "callback", "ackDialog", "freqDialog"}
      BY DEF Inv, Typed, GuiAt, Conversation
    <2>2. Silence
      BY <2>1 DEF Inv, Conversation
    <2>3. CASE gui = "main"
      BY <2>2, <2>3 DEF Inv, Conversation, Silence, Idle, Rests
    <2>4. CASE gui = "callback"
      <3>1. status \in Final /\ state = StateAfter(status) /\ Rests(PromptAfter(status))
        BY <2>4 DEF Inv, Conversation
      <3> QED BY <3>1, <2>2 DEF StateAfter, PromptAfter, Rests, Silence, Idle, Final, Status
    <2>5. CASE gui \in {"ackDialog", "freqDialog"}
      BY <2>2, <2>5 DEF Inv, Conversation, Silence, Idle, Rests
    <2> QED BY <2>1, <2>3, <2>4, <2>5
  <1> QED BY <1>1, Invariance, PTL

\* Every line is read by the reader it was written for.
THEOREM LinesAreReadRight == Spec => []LinesReachReaders
  <1>1. Inv => LinesReachReaders
    <2> SUFFICES ASSUME Inv, toChild # <<>>, child # "exited" PROVE LinesReachReaders
      BY DEF LinesReachReaders
    <2>1. Head(toChild) \in Wanted(child)
      <3>1. CASE \E l \in Wanted(child) : toChild = <<l>>
        BY <3>1, Tuples
      <3>2. CASE child = "prompt" /\ toChild = <<"setup", Input>>
        BY <3>2, Tuples DEF Wanted, Command
      <3> QED BY <3>1, <3>2 DEF Inv, Pipes
    <2> QED BY <2>1 DEF LinesReachReaders, Wanted
  <1> QED BY <1>1, Invariance, PTL

\* A command is reported as canceled only if the operator canceled it, and as
\* ok only if not.
THEOREM CancelIsToldRight == Spec => []CancelIsTold
  <1>1. Inv => CancelIsTold
    BY DEF Inv, Refusal, Tells, CancelIsTold
  <1> QED BY <1>1, Invariance, PTL

-----------------------------------------------------------------------------
(***************************************************************************)
(* While the GUI waits, somebody has something to do: the guard of a step  *)
(* that nobody outside decides on.  The one exception is an open2 that     *)
(* failed: the worker has ended and openVNA waits for ever.                *)
(***************************************************************************)
ProgramMoves ==
    \/ child \in {"opening", "command"}
    \/ /\ child \in {"prompt", "load", "ack", "frequency"}
       /\ toChild # <<>> \/ stdinClosed

SomebodyMoves ==
    gui \in {"opening", "wait", "poll", "closing", "joining"} =>
        \/ responseQ # <<>>
        \/ worker = "idle" /\ requestQ # <<>>
        \/ worker \in {"input", "closing"}
        \/ worker = "reading" /\ (fromChild # <<>> \/ child = "exited" \/ ProgramMoves)
        \/ worker = "reaping" /\ (child = "exited" \/ ProgramMoves)
        \/ worker = "ended" /\ gui \in {"joining", "opening"}

\* The GUI, its worker and the program never all wait for each other: no
\* request is lost and no document read by the wrong reader, which with the
\* fairness of Spec is what SentIsAnswered and QuitEnds rest on.
THEOREM NoneWaitsForNothing == Spec => []SomebodyMoves
  <1>1. Inv => SomebodyMoves
    <2> SUFFICES ASSUME Inv, gui \in {"opening", "wait", "poll", "closing", "joining"},
                        responseQ = <<>>
                 PROVE  SomebodyMoves
      BY DEF SomebodyMoves
    <2>1. \A more \in {<<>>, <<Close>>} : Requested(more) => worker = "idle" /\ requestQ # <<>>
      BY Tuples DEF Requested, Idle
    <2>2. \A more : Working(more) =>
             worker = "reading" /\ (fromChild # <<>> \/ child = "exited" \/ ProgramMoves)
      BY DEF Working, ProgramMoves, Inv, Typed, Pipes, ChildAt
    <2>3. \A more : ~Answered(more)
      BY Tuples DEF Answered
    <2>4. \A more \in {<<>>, <<Close>>} : UnderWay(more) => SomebodyMoves
      BY <2>1, <2>2, <2>3 DEF UnderWay, SendingInput, SomebodyMoves
    <2>5. CASE gui = "closing"
      <3>1. Closing
        BY <2>5 DEF Inv, Conversation
      <3>2. CASE worker \in {"closing", "reaping"} /\ child # "none" /\ stdinClosed
        BY <3>2 DEF SomebodyMoves, ProgramMoves, Inv, Typed, ChildAt
      <3>3. CASE Idle(<<Close>>)
        BY <3>3, Tuples DEF SomebodyMoves, Idle
      <3> QED BY <3>1, <3>2, <3>3, <2>4, Tuples DEF Closing
    <2>6. CASE gui = "joining"
      BY <2>6, Tuples DEF Inv, Conversation, Joining, Idle, SomebodyMoves
    <2>7. CASE gui = "opening"
      BY <2>4, <2>7, Tuples DEF Inv, Conversation, Opening, Idle, SomebodyMoves
    <2>8. CASE gui \in {"wait", "poll"}
      BY <2>4, <2>8 DEF Inv, Conversation
    <2> QED BY <2>5, <2>6, <2>7, <2>8
  <1> QED BY <1>1, Invariance, PTL

-----------------------------------------------------------------------------
(***************************************************************************)
(* The session is a Dialogue.  Until the device is open nothing is said to *)
(* the program, and a command that reads input has no question.            *)
(***************************************************************************)
Begins ==
    /\ gui = "opening" =>
          /\ requestQ \in {<<>>, <<Open>>} /\ worker # "input"
          /\ toChild = <<>> /\ child \in {"none", "opening", "prompt", "exited"}
    /\ child = "load" => asks = "nothing"

LEMMA BeginsInv == Inv /\ Begins /\ [Next]_vars => Begins'
  <1> SUFFICES ASSUME Inv, Begins, [Next]_vars PROVE Begins'
    OBVIOUS
  <1> USE DEF guiVars, workerVars, pipeVars, childVars
  <1>1. CASE OpenVNA
    <2>1. requestQ = <<>> /\ worker = "idle" /\ child = "none" /\ toChild = <<>>
      BY <1>1 DEF OpenVNA, Inv, Conversation, Silence, Idle, Pipes
    <2> QED BY <1>1, <2>1, Tuples DEF OpenVNA, Request, Begins
  <1>2. CASE Opened \/ ReceiveResponse \/ RunCommandCallback \/ Drain \/ Joined \/ Operator
             \/ GuiEnds
    BY <1>2 DEF Opened, GuiDies, ReceiveResponse, RunCommandCallback, Drain, Joined, Operator,
       RunCommand, Acknowledge, AnswerFrequency, SendACK, Quit, GuiEnds, Begins
  <1>3. CASE WorkerOpens
    BY <1>3, Taken, Tuples DEF WorkerOpens, Takes, Begins
  <1>4. CASE WorkerSends
    <2>1. gui # "opening"
      <3>1. requestQ # <<>> /\ Head(requestQ).op = "send"
        BY <1>4 DEF WorkerSends, Takes
      <3>2. Head(<<Open>>) = Open /\ Open.op = "open"
        BY Tuples DEF Open
      <3>3. requestQ # <<Open>>
        BY <3>1, <3>2
      <3> QED BY <3>1, <3>3 DEF Begins
    <2> QED BY <1>4, <2>1 DEF WorkerSends, Write, GuiDies, Begins
  <1>5. CASE WorkerSendsInput
    BY <1>5 DEF WorkerSendsInput, Write, GuiDies, Begins
  <1>6. CASE WorkerReads
    BY <1>6 DEF WorkerReads, Begins
  <1>7. CASE WorkerCloses \/ WorkerShutsDown
    BY <1>7, Taken DEF WorkerCloses, WorkerShutsDown, Begins
  <1>8. CASE WorkerClosesOutput \/ WorkerReaps
    BY <1>8 DEF WorkerClosesOutput, WorkerReaps, Begins
  <1>9. CASE Main \/ EndCommand
    BY <1>9 DEF Main, EndCommand, MessagePrompt, Document, Begins
  <1>10. CASE Cli
    <2>1. gui = "opening" => ~stdinClosed
      BY DEF Inv, Ends
    <2>2. gui # "opening"
      BY <1>10, <2>1 DEF Cli, ReadLine, Begins
    <2>3. child' = "load" => asks' = "nothing"
      BY <1>10 DEF Cli, Begin, Prompts, MessagePrompt, Document
    <2> QED BY <1>10, <2>2, <2>3 DEF Cli, Begins
  <1>11. CASE Load \/ PromptForReady \/ ReadFrequency
    BY <1>11 DEF Load, PromptForReady, ReadFrequency, Proceeds, Cancels, Begins
  <1>12. CASE MessageError
    BY <1>12 DEF MessageError, Begins
  <1>13. CASE NeedsACK \/ NeedsMeasuredF
    BY <1>13 DEF NeedsACK, NeedsMeasuredF, Document, Begins
  <1>14. CASE Dies
    BY <1>14 DEF Dies, Begins
  <1>15. CASE UNCHANGED vars
    BY <1>15 DEF vars, Begins
  <1> QED BY <1>1, <1>2, <1>3, <1>4, <1>5, <1>6, <1>7, <1>8, <1>9, <1>10, <1>11, <1>12, <1>13,
             <1>14, <1>15 DEF Next, GuiStep, WorkerStep, ChildStep

\* The steps of the dialogue when nothing of it is left, and the one that ends it.
LEMMA Unheeded ==
  ASSUME Inv, Leaving, Leaving', Known' = Known,
         \/ child' = child
         \/ child \notin {"none", "exited"} /\ child' \in ChildAt \ {"none"}
  PROVE  Talk!RunOn \/ UNCHANGED Talk!dialogueVars
  <1>1. /\ Said = "nothing" /\ Said' = "nothing" /\ Told = "nothing" /\ Told' = "nothing"
        /\ MayAsk = "nothing" /\ MayAsk' = "nothing"
    BY DEF Said, Told, MayAsk
  <1>2. CASE child' = child
    BY <1>1, <1>2 DEF Place, Talk!dialogueVars
  <1>3. CASE child \notin {"none", "exited"} /\ child' \in ChildAt \ {"none"} /\ Known \in {"closing", "dead"}
    <2>1. Place \notin {"none", "exited"}
          /\ Place' \in {"prompt", "work", "ack", "frequency", "exited"}
      BY <1>3 DEF Place, ChildAt, Inv, Typed
    <2> QED BY <1>1, <1>3, <2>1 DEF Talk!RunOn, Talk!None
  <1>4. Known \in {"closing", "dead"} \/ child \in {"none", "exited"}
    BY DEF Known, Leaving, Inv, Conversation
  <1> QED BY <1>2, <1>3, <1>4

LEMMA Vanishes ==
  ASSUME Inv, gui # "done", gui' = "dead", child' = child
  PROVE  Talk!Vanish
  <1>1. /\ Said' = "nothing" /\ Told' = "nothing" /\ MayAsk' = "nothing"
        /\ Place' = Place /\ Known' = "dead"
    BY DEF Said, Told, MayAsk, Place, Known, Leaving
  <1>2. Known # "done"
    BY DEF Known, Inv, Typed
  <1> QED BY <1>1, <1>2 DEF Talk!Vanish, Talk!Leaves, Talk!None

\* The kinds of requests, and what is said by a queue of them.
LEMMA Kinds ==
  /\ Open.op = "open" /\ Close.op = "close" /\ Shutdown.op = "shutdown"
  /\ \A l : Send(l).op = "send" /\ Send(l).line = l
  BY DEF Open, Close, Shutdown, Send

LEMMA SaidIs ==
  ASSUME ~Leaving
  PROVE  /\ \A l : requestQ = <<Send(l)>> => Said = l
         /\ requestQ \in {<<>>, <<Open>>} =>
               /\ child = "exited" => Said = "nothing"
               /\ child = "load" => Said = "setup"
               /\ child \notin {"exited", "load"} /\ toChild = <<>> => Said = "nothing"
               /\ child \notin {"exited", "load"} =>
                     \A l : toChild = <<l>> \/ toChild = <<l, Input>> => Said = l
  <1>1. ASSUME NEW l, requestQ = <<Send(l)>> PROVE Said = l
    <2>1. requestQ # <<>> /\ Head(requestQ) = Send(l)
      BY <1>1, Tuples
    <2> QED BY <2>1, Kinds DEF Said
  <1>2. ASSUME requestQ \in {<<>>, <<Open>>}
        PROVE  Said = IF child = "exited" THEN "nothing"
                      ELSE IF child = "load" THEN "setup"
                      ELSE IF toChild # <<>> THEN Head(toChild) ELSE "nothing"
    <2>1. ~(requestQ # <<>> /\ Head(requestQ).op = "send")
      <3>1. Head(<<Open>>) = Open
        BY Tuples
      <3> QED BY <1>2, <3>1, Kinds
    <2> QED BY <2>1 DEF Said
  <1>3. \A l : /\ toChild = <<l>> => toChild # <<>> /\ Head(toChild) = l
               /\ toChild = <<l, Input>> => toChild # <<>> /\ Head(toChild) = l
    BY Tuples
  <1> QED BY <1>1, <1>2, <1>3

LEMMA SaidNext ==
  ASSUME ~Leaving'
  PROVE  /\ \A l : requestQ' = <<Send(l)>> => Said' = l
         /\ requestQ' \in {<<>>, <<Open>>} =>
               /\ child' = "exited" => Said' = "nothing"
               /\ child' = "load" => Said' = "setup"
               /\ child' \notin {"exited", "load"} /\ toChild' = <<>> => Said' = "nothing"
               /\ child' \notin {"exited", "load"} =>
                     \A l : toChild' = <<l>> \/ toChild' = <<l, Input>> => Said' = l
  <1>1. ASSUME NEW l, requestQ' = <<Send(l)>> PROVE Said' = l
    <2>1. requestQ' # <<>> /\ Head(requestQ') = Send(l)
      BY <1>1, Tuples
    <2> QED BY <2>1, Kinds DEF Said
  <1>2. ASSUME requestQ' \in {<<>>, <<Open>>}
        PROVE  Said' = IF child' = "exited" THEN "nothing"
                       ELSE IF child' = "load" THEN "setup"
                       ELSE IF toChild' # <<>> THEN Head(toChild') ELSE "nothing"
    <2>1. ~(requestQ' # <<>> /\ Head(requestQ').op = "send")
      <3>1. Head(<<Open>>) = Open
        BY Tuples
      <3> QED BY <1>2, <3>1, Kinds
    <2> QED BY <2>1 DEF Said
  <1>3. \A l : /\ toChild' = <<l>> => toChild' # <<>> /\ Head(toChild') = l
               /\ toChild' = <<l, Input>> => toChild' # <<>> /\ Head(toChild') = l
    BY Tuples
  <1> QED BY <1>1, <1>2, <1>3

\* What is told by a queue and a pipe with at most one answer.
LEMMA ToldIs ==
  /\ Leaving => Told = "nothing"
  /\ ~Leaving => /\ responseQ = <<>> /\ fromChild = <<>> => Told = "nothing"
                 /\ \A st : responseQ = <<st>> => Told = st
                 /\ \A st : responseQ = <<>> /\ fromChild = <<st>> => Told = st
  BY Tuples DEF Told

LEMMA ToldNext ==
  /\ Leaving' => Told' = "nothing"
  /\ ~Leaving' => /\ responseQ' = <<>> /\ fromChild' = <<>> => Told' = "nothing"
                  /\ \A st : responseQ' = <<st>> => Told' = st
                  /\ \A st : responseQ' = <<>> /\ fromChild' = <<st>> => Told' = st
  BY Tuples DEF Told

\* Everything that a step leaves alone.
LEMMA SameSaid ==
  ASSUME Leaving' <=> Leaving, requestQ' = requestQ, child' = child, toChild' = toChild
  PROVE  Said' = Said
  BY DEF Said

LEMMA SameTold ==
  ASSUME Leaving' <=> Leaving, responseQ' = responseQ, fromChild' = fromChild
  PROVE  Told' = Told
  BY DEF Told

LEMMA SameProgram ==
  ASSUME Leaving' <=> Leaving, UNCHANGED <<child, asks, canceled>>
  PROVE  Place' = Place /\ MayAsk' = MayAsk
  BY DEF Place, MayAsk

-----------------------------------------------------------------------------
\* The main thread of the GUI.
LEMMA OpenVNATalks == Inv /\ OpenVNA => UNCHANGED Talk!dialogueVars
  <1> SUFFICES ASSUME Inv, OpenVNA PROVE UNCHANGED Talk!dialogueVars
    OBVIOUS
  <1> USE DEF OpenVNA, Request
  <1>1. /\ requestQ = <<>> /\ requestQ' = <<Open>>
        /\ child = "none" /\ child' = "none" /\ toChild' = toChild /\ toChild = <<>>
    BY Tuples DEF Inv, Conversation, Silence, Idle, Pipes, childVars, pipeVars
  <1>2. ~Leaving /\ ~Leaving' /\ Known' = Known
    BY DEF Leaving, Known
  <1>3. Said' = Said
    BY <1>1, <1>2, SaidIs, SaidNext
  <1> QED BY <1>2, <1>3, SameTold, SameProgram DEF Talk!dialogueVars, pipeVars, childVars

LEMMA OpenedTalks == Inv /\ Begins /\ Opened => Talk!Learn
  <1> SUFFICES ASSUME Inv, Begins, Opened PROVE Talk!Learn
    OBVIOUS
  <1> USE DEF Opened, GuiDies
  <1>1. PICK st \in Final : responseQ = <<st>> /\ Rests(PromptAfter(st)) /\ Idle(<<>>)
    BY DEF Inv, Conversation, Opening, UnderWay, Requested, SendingInput, Working, Answered
  <1>2. responseQ' = <<>> /\ Head(responseQ) = st /\ fromChild = <<>> /\ fromChild' = <<>>
    BY <1>1, Tuples DEF Rests
  <1>3. /\ requestQ = <<>> /\ requestQ' = <<>> /\ toChild = <<>> /\ toChild' = <<>>
        /\ child \in {"prompt", "exited"} /\ child' = child
    BY <1>1 DEF Begins, Idle, Rests, PromptAfter, childVars
  <1>4. ~Leaving /\ Known = "closed" /\ Known' = IF st = "ok" THEN "ready" ELSE "dead"
    BY <1>2 DEF Leaving, Known, Inv, Conversation
  <1>5. Told = st /\ Told' = "nothing" /\ st # "nothing"
    BY <1>1, <1>2, <1>4, ToldIs, ToldNext DEF Final, Status
  <1>6. Said = "nothing" /\ Said' = "nothing"
    BY <1>3, <1>4, SaidIs, SaidNext DEF Said
  <1>7. Place' = Place /\ MayAsk = "nothing" /\ MayAsk' = "nothing"
    BY <1>3 DEF Place, MayAsk
  <1> HIDE DEF Opened, GuiDies
  <1> QED BY <1>4, <1>5, <1>6, <1>7 DEF Talk!Learn, Talk!None

LEMMA RunCommandTalks ==
  ASSUME Inv, NEW command \in Command, RunCommand(command)
  PROVE  Talk!Say
  <1> USE DEF RunCommand, Request
  <1>1. /\ requestQ = <<>> /\ requestQ' = <<Send(command)>>
    BY Tuples DEF Inv, Conversation, Silence, Idle
  <1>2. ~Leaving /\ ~Leaving' /\ Known = "ready" /\ Known' = "sent"
    BY DEF Leaving, Known
  <1>3. Said' = command
    BY <1>1, <1>2, SaidNext
  <1>4. Told' = Told /\ Place' = Place /\ MayAsk' = MayAsk
    BY <1>2, SameTold, SameProgram DEF pipeVars, childVars
  <1> QED BY <1>2, <1>3, <1>4 DEF Talk!Say, Talk!Offered, Command

LEMMA ReceiveResponseTalks == Inv /\ ReceiveResponse => Talk!Learn
  <1> SUFFICES ASSUME Inv, ReceiveResponse PROVE Talk!Learn
    OBVIOUS
  <1> USE DEF ReceiveResponse
  <1>1. PICK st \in Final : responseQ = <<st>> /\ Rests(PromptAfter(st)) /\ Idle(<<>>)
    BY DEF Inv, Conversation, UnderWay, Requested, SendingInput, Working, Answered
  <1>2. /\ responseQ' = <<>> /\ Head(responseQ) = st /\ fromChild = <<>> /\ fromChild' = <<>>
        /\ requestQ' = requestQ /\ child' = child /\ toChild' = toChild
    BY <1>1, Tuples DEF Rests, pipeVars, childVars
  <1>3. ~Leaving /\ ~Leaving' /\ Known = "sent" /\ Known' = StateAfter(st)
    BY <1>2 DEF Leaving, Known, Inv, Conversation
  <1>4. Told = st /\ Told' = "nothing" /\ st # "nothing"
    BY <1>1, <1>2, <1>3, ToldIs, ToldNext DEF Final, Status
  <1>5. Said' = Said /\ Place' = Place /\ MayAsk' = MayAsk
    BY <1>2, <1>3, SameSaid, SameProgram DEF childVars
  <1> QED BY <1>3, <1>4, <1>5 DEF Talk!Learn, Talk!None, StateAfter

LEMMA RunCommandCallbackTalks == RunCommandCallback => UNCHANGED Talk!dialogueVars
  <1> SUFFICES ASSUME RunCommandCallback PROVE UNCHANGED Talk!dialogueVars
    OBVIOUS
  <1>1. ~Leaving /\ ~Leaving' /\ Known' = Known
    BY DEF RunCommandCallback, Leaving, Known
  <1> QED BY <1>1, SameSaid, SameTold, SameProgram
          DEF RunCommandCallback, Talk!dialogueVars, workerVars, pipeVars, childVars

LEMMA SendACKTalks ==
  ASSUME Inv, NEW line \in Answer, Acknowledge(line) \/ AnswerFrequency(line)
  PROVE  Talk!Say
  <1> USE DEF Acknowledge, AnswerFrequency, SendACK, Request
  <1>1. requestQ = <<>> /\ requestQ' = <<Send(line)>>
    BY Tuples DEF Inv, Conversation, Silence, Idle
  <1>2. ~Leaving /\ ~Leaving' /\ Known = state /\ Known' = "sent"
    BY DEF Leaving, Known
  <1>3. line \in Talk!Offered(Known)
    BY <1>2 DEF Talk!Offered, Inv, Conversation
  <1>4. Said' = line
    BY <1>1, <1>2, SaidNext
  <1>5. Told' = Told /\ Place' = Place /\ MayAsk' = MayAsk
    BY <1>2, SameTold, SameProgram DEF pipeVars, childVars
  <1> QED BY <1>2, <1>3, <1>4, <1>5 DEF Talk!Say

LEMMA QuitTalks == Inv /\ Quit => Talk!HangUp
  <1> SUFFICES ASSUME Inv, Quit PROVE Talk!HangUp
    OBVIOUS
  <1>1. Known \in {"ready", "sent", "exited"} /\ Known' = "closing" /\ Leaving'
    BY DEF Quit, Known, Leaving, Inv, Conversation
  <1>2. Said' = "nothing" /\ Told' = "nothing" /\ MayAsk' = "nothing" /\ Place' = Place
    BY <1>1 DEF Said, Told, MayAsk, Place, Quit, childVars
  <1> QED BY <1>1, <1>2 DEF Talk!HangUp, Talk!Leaves, Talk!None

LEMMA JoinedTalks == Inv /\ Joined => Talk!Closed
  <1> SUFFICES ASSUME Inv, Joined PROVE Talk!Closed
    OBVIOUS
  <1>1. Leaving /\ Leaving' /\ Known = "closing" /\ Known' = "done"
    BY DEF Joined, Known, Leaving
  <1>2. child = "exited" /\ child' = "exited"
    BY DEF Joined, childVars, Inv, Conversation, Joining
  <1>3. /\ Said' = Said /\ Told' = Told /\ MayAsk' = MayAsk
        /\ Place = "exited" /\ Place' = "exited"
    BY <1>1, <1>2 DEF Said, Told, MayAsk, Place
  <1> QED BY <1>1, <1>3 DEF Talk!Closed

LEMMA GuiTalks ==
  ASSUME Inv, Begins, GuiStep \/ Operator \/ GuiEnds
  PROVE  Talk!DialogueNext \/ UNCHANGED Talk!dialogueVars
  <1>1. CASE Drain
    <2>1. Leaving /\ Leaving' /\ Known' = Known /\ child' = child
      BY <1>1 DEF Drain, Leaving, Known, childVars
    <2> QED BY <2>1, Unheeded DEF Talk!DialogueNext
  <1>2. CASE GuiEnds
    BY <1>2, Vanishes DEF GuiEnds, GuiDies, childVars, Talk!DialogueNext
  <1>3. CASE Operator
    BY <1>3, RunCommandTalks, SendACKTalks, QuitTalks DEF Operator, Talk!DialogueNext
  <1> QED BY <1>1, <1>2, <1>3, OpenVNATalks, OpenedTalks, ReceiveResponseTalks,
             RunCommandCallbackTalks, JoinedTalks DEF GuiStep, Talk!DialogueNext

-----------------------------------------------------------------------------
\* The worker.
LEMMA WorkerOpensTalks ==
  ASSUME Inv, WorkerOpens
  PROVE  Talk!Start \/ UNCHANGED Talk!dialogueVars
  <1>1. /\ gui = "opening" /\ requestQ = <<Open>> /\ child = "none" /\ requestQ' = <<>>
        /\ state = "closed" /\ toChild = <<>> /\ toChild' = <<>>
    <2>1. Takes("open") /\ toChild' = toChild
      BY DEF WorkerOpens, pipeVars
    <2>2. gui = "opening" /\ requestQ = <<Open>> /\ child = "none"
      BY <2>1, Taken
    <2>3. requestQ' = <<>>
      BY <2>1, <2>2, Tuples DEF Takes
    <2> QED BY <2>1, <2>2, <2>3 DEF Inv, Conversation, Pipes
  <1>2. /\ UNCHANGED <<guiVars, responseQ, fromChild>>
        /\ child' = "opening" \/ child' = "none"
    BY <1>1 DEF WorkerOpens, pipeVars
  <1>3. ~Leaving /\ ~Leaving' /\ Known = "closed" /\ Known' = "closed"
    BY <1>1, <1>2 DEF Leaving, Known, guiVars
  <1>4. Said = "nothing" /\ Said' = "nothing"
    BY <1>1, <1>2, <1>3, SaidIs, SaidNext
  <1>5. Told' = Told /\ MayAsk = "nothing" /\ MayAsk' = "nothing"
    BY <1>1, <1>2, <1>3, SameTold DEF MayAsk
  <1>6. CASE child' = "opening"
    <2>1. Place = "none" /\ Place' = "work"
      BY <1>1, <1>6 DEF Place
    <2> QED BY <1>3, <1>4, <1>5, <2>1 DEF Talk!Start
  <1>7. CASE child' = "none"
    <2>1. Place' = Place
      BY <1>1, <1>7 DEF Place
    <2> QED BY <1>3, <1>4, <1>5, <2>1 DEF Talk!dialogueVars
  <1> QED BY <1>2, <1>6, <1>7

LEMMA WorkerSendsTalks ==
  ASSUME Inv, Begins, WorkerSends
  PROVE  Talk!DialogueNext \/ UNCHANGED Talk!dialogueVars
  <1> USE DEF WorkerSends, Write
  <1>1. child' = child /\ canceled' = canceled /\ asks' = asks
    BY DEF childVars
  <1>2. \/ gui \in {"opening", "wait", "poll"} /\ Requested(<<>>)
        \/ gui = "closing" /\ Requested(<<Close>>)
    BY Taken
  <1>3. CASE child = "exited"
    BY <1>1, <1>2, <1>3, Vanishes DEF GuiDies, Talk!DialogueNext
  <1>4. CASE child # "exited" /\ gui = "closing"
    <2>1. Leaving /\ Leaving' /\ Known' = Known
      BY <1>4 DEF Leaving, Known
    <2> QED BY <1>1, <2>1, Unheeded DEF Talk!DialogueNext
  <1>5. CASE child # "exited" /\ gui \in {"opening", "wait", "poll"}
    <2>1. PICK l \in Command \cup Answer :
             requestQ = <<Send(l)>> /\ l \in Wanted(child) /\ toChild = <<>>
      BY <1>2, <1>5, Tuples DEF Requested, Idle
    <2>2. child # "load"
      BY <2>1 DEF Wanted, Command, Answer, Input
    <2>3. requestQ' = <<>> /\ toChild' = <<l>>
      <3>1. Head(requestQ) = Send(l) /\ Tail(requestQ) = <<>>
        BY <2>1, Tuples
      <3> QED BY <1>5, <2>1, <3>1, Kinds, Tuples DEF Takes
    <2>4. ~Leaving /\ ~Leaving' /\ Known' = Known
      BY <1>5 DEF Leaving, Known
    <2>5. Said = l /\ Said' = l
      BY <1>1, <1>5, <2>1, <2>2, <2>3, <2>4, SaidIs, SaidNext
    <2>6. Told' = Told /\ Place' = Place /\ MayAsk' = MayAsk
      BY <1>1, <2>4, SameTold, SameProgram
    <2> QED BY <2>4, <2>5, <2>6 DEF Talk!dialogueVars
  <1> QED BY <1>2, <1>3, <1>4, <1>5

LEMMA SendingOnly ==
  ASSUME Inv, worker = "input"
  PROVE  \/ gui \in {"opening", "wait", "poll"} /\ SendingInput(<<>>)
         \/ gui = "closing" /\ SendingInput(<<Close>>)
  BY DEF Inv, Typed, Ends, Conversation, Opening, Closing, Joining, Silence, Idle,
         UnderWay, Requested, Working, Answered, GuiAt

LEMMA WorkerSendsInputTalks ==
  ASSUME Inv, WorkerSendsInput
  PROVE  Talk!DialogueNext \/ UNCHANGED Talk!dialogueVars
  <1> USE DEF WorkerSendsInput, Write
  <1>1. child' = child /\ canceled' = canceled /\ asks' = asks
    BY DEF childVars
  <1>2. \/ gui \in {"opening", "wait", "poll"} /\ SendingInput(<<>>)
        \/ gui = "closing" /\ SendingInput(<<Close>>)
    BY SendingOnly
  <1>3. CASE child = "exited"
    BY <1>1, <1>2, <1>3, Vanishes DEF GuiDies, Talk!DialogueNext
  <1>4. CASE child # "exited" /\ gui = "closing"
    <2>1. Leaving /\ Leaving' /\ Known' = Known
      BY <1>4 DEF Leaving, Known
    <2> QED BY <1>1, <2>1, Unheeded DEF Talk!DialogueNext
  <1>5. CASE child # "exited" /\ gui \in {"opening", "wait", "poll"}
    <2>1. /\ requestQ = <<>> /\ requestQ' = <<>>
          /\ \/ child = "prompt" /\ toChild = <<"setup">>
             \/ child = "load" /\ toChild = <<>>
      BY <1>2, <1>5 DEF SendingInput
    <2>2. child = "prompt" => toChild' = <<"setup", Input>>
      <3>1. toChild' = Append(toChild, Input)
        BY <1>5
      <3>2. child = "prompt" => toChild = <<"setup">>
        BY <2>1
      <3>3. Append(<<"setup">>, Input) = <<"setup", Input>>
        BY AppendToOne
      <3> QED BY <3>1, <3>2, <3>3
    <2>3. ~Leaving /\ ~Leaving' /\ Known' = Known
      BY <1>5 DEF Leaving, Known
    <2>4. Said = "setup"
      BY <2>1, <2>3, SaidIs
    <2>5. Said' = "setup"
      BY <1>1, <2>1, <2>2, <2>3, SaidNext
    <2>6. Told' = Told /\ Place' = Place /\ MayAsk' = MayAsk
      BY <1>1, <2>3, SameTold, SameProgram
    <2> QED BY <2>3, <2>4, <2>5, <2>6 DEF Talk!dialogueVars
  <1> QED BY <1>2, <1>3, <1>4, <1>5

LEMMA ReadingOnly ==
  ASSUME Inv, worker = "reading"
  PROVE  \/ gui \in {"opening", "wait", "poll"} /\ Working(<<>>)
         \/ gui = "closing" /\ Working(<<Close>>)
  BY DEF Inv, Typed, Ends, Conversation, Opening, Closing, Joining, Silence, Idle,
         UnderWay, Requested, SendingInput, Answered, GuiAt

LEMMA WorkerReadsTalks ==
  ASSUME Inv, WorkerReads
  PROVE  Talk!DialogueNext \/ UNCHANGED Talk!dialogueVars
  <1> USE DEF WorkerReads, Respond
  <1>1. /\ gui' = gui /\ state' = state /\ child' = child /\ canceled' = canceled /\ asks' = asks
        /\ toChild' = toChild /\ requestQ' = requestQ
    BY DEF guiVars, childVars
  <1>2. \/ gui \in {"opening", "wait", "poll"} /\ Working(<<>>)
        \/ gui = "closing" /\ Working(<<Close>>)
    BY ReadingOnly
  <1>3. (Leaving' <=> Leaving) /\ Known' = Known
    BY <1>1 DEF Leaving, Known
  <1>4. CASE gui = "closing"
    <2>1. Leaving
      BY <1>4 DEF Leaving
    <2> QED BY <1>1, <1>3, <2>1, Unheeded DEF Talk!DialogueNext
  <1>5. CASE gui \in {"opening", "wait", "poll"}
    <2>1. /\ requestQ = <<>> /\ responseQ = <<>> /\ ~Leaving
          /\ Known \in {"closed", "sent"}
      BY <1>2, <1>5 DEF Working, Leaving, Known, Inv, Conversation
    <2>2. Said' = Said /\ Place' = Place /\ MayAsk' = MayAsk
      BY <1>1, <1>3, SameSaid, SameProgram
    <2>3. CASE fromChild # <<>> /\ fromChild' = Tail(fromChild) /\ responseQ' = Append(responseQ, Head(fromChild))
      <3>1. PICK st \in Status : fromChild = <<st>>
        BY <2>3 DEF Inv, Typed, Single
      <3>2. responseQ' = <<st>>
        BY <2>1, <2>3, <3>1, Tuples
      <3>3. Told = st /\ Told' = st
        BY <1>3, <2>1, <3>1, <3>2, ToldIs, ToldNext
      <3> QED BY <1>3, <2>2, <3>3 DEF Talk!dialogueVars
    <2>4. CASE fromChild = <<>> /\ child = "exited" /\ responseQ' = Append(responseQ, "errorExit")
      <3>1. responseQ' = <<"errorExit">>
        BY <2>1, <2>4, Tuples
      <3>2. Told = "nothing" /\ Told' = "errorExit"
        BY <1>3, <2>1, <2>4, <3>1, ToldIs, ToldNext
      <3>3. Said = "nothing" /\ Place = "exited"
        BY <2>1, <2>4, SaidIs DEF Place
      <3>4. Talk!TellExit
        BY <1>3, <2>1, <2>2, <3>2, <3>3 DEF Talk!TellExit, Talk!None
      <3> QED BY <3>4 DEF Talk!DialogueNext
    <2> QED BY <2>3, <2>4
  <1> QED BY <1>2, <1>4, <1>5

LEMMA WorkerTalks ==
  ASSUME Inv, Begins, WorkerStep
  PROVE  Talk!DialogueNext \/ UNCHANGED Talk!dialogueVars
  <1>1. CASE WorkerCloses \/ WorkerClosesOutput \/ WorkerReaps \/ WorkerShutsDown
    <2>1. gui \in {"closing", "joining"}
      BY <1>1, Taken, ClosingOnly
         DEF WorkerCloses, WorkerClosesOutput, WorkerReaps, WorkerShutsDown
    <2>2. gui' = gui /\ child' = child
      BY <1>1 DEF WorkerCloses, WorkerClosesOutput, WorkerReaps, WorkerShutsDown, guiVars,
         childVars
    <2>3. Leaving /\ Leaving' /\ Known' = Known
      BY <2>1, <2>2 DEF Leaving, Known
    <2> QED BY <2>2, <2>3, Unheeded DEF Talk!DialogueNext
  <1>2. CASE WorkerOpens
    BY <1>2, WorkerOpensTalks DEF Talk!DialogueNext
  <1> QED BY <1>1, <1>2, WorkerSendsTalks, WorkerSendsInputTalks, WorkerReadsTalks DEF WorkerStep

-----------------------------------------------------------------------------
\* The program.  Unless the GUI leaves, a step of it that does anything has
\* heard a line or works on one, and nothing else is under way.
LEMMA AliveOnly ==
  ASSUME Inv, ~Leaving, child \notin {"none", "exited"},
         child \in {"opening", "load", "command"} \/ toChild # <<>> \/ stdinClosed
  PROVE  /\ requestQ = <<>> /\ responseQ = <<>>
         /\ gui \in {"opening", "wait", "poll"} /\ Known \in {"closed", "sent"}
         /\ stdinClosed = FALSE /\ stdoutClosed = FALSE
  <1>1. gui \notin {"closing", "joining", "done", "dead"}
    BY DEF Leaving
  <1>2. PICK more \in {<<>>, <<Close>>} : Converses(more)
    BY <1>1, Active DEF Closes
  <1>3. more = <<>> /\ gui \in {"opening", "wait", "poll"}
    BY <1>1, <1>2 DEF Converses
  <1>4. Known = state /\ state \in {"closed", "sent"}
    BY <1>3 DEF Known, Inv, Conversation
  <1> QED BY <1>2, <1>3, <1>4 DEF Converses, Working, SendingInput

\* What a step of the program leaves to the GUI and its worker.
Own == UNCHANGED <<guiVars, workerVars, stdinClosed, stdoutClosed>>

LEMMA OwnKnown ==
  ASSUME Own
  PROVE  /\ gui' = gui /\ Known' = Known /\ (Leaving' <=> Leaving)
         /\ requestQ' = requestQ /\ responseQ' = responseQ
  BY DEF Own, guiVars, workerVars, Known, Leaving

\* When nobody listens, whatever it does is no part of the dialogue.
LEMMA Alone ==
  ASSUME Inv, Own, Leaving, child \notin {"none", "exited"}, child' \in ChildAt \ {"none"}
  PROVE  Talk!DialogueNext \/ UNCHANGED Talk!dialogueVars
  BY OwnKnown, Unheeded DEF Talk!DialogueNext

LEMMA ExitTalks ==
  ASSUME Inv, Own, ~Leaving, child \notin {"none", "exited"}, child' = "exited",
         fromChild' = fromChild
  PROVE  Talk!Exit
  <1>1. /\ ~Leaving' /\ Known' = Known /\ Told' = Told
        /\ requestQ' = requestQ
    BY OwnKnown, SameTold
  <1>2. Place \notin {"none", "exited"} /\ Place' = "exited" /\ MayAsk' = "nothing"
    BY DEF Place, MayAsk
  <1>3. Said' \in {Said, "nothing"}
    BY <1>1 DEF Said
  <1> QED BY <1>1, <1>2, <1>3 DEF Talk!Exit, Talk!None

\* A document where the program works is the one answer.
LEMMA DocumentTalks ==
  ASSUME Inv, Own, ~Leaving, child \in {"opening", "command"}, toChild' = toChild,
         NEW st \in Status, NEW at \in {"prompt", "ack", "frequency", "exited"}, Document(st, at)
  PROVE  Talk!Tell(st, at)
  <1>1. requestQ = <<>> /\ responseQ = <<>> /\ stdoutClosed = FALSE
    BY AliveOnly
  <1>2. fromChild = <<>> /\ toChild = <<>>
    BY <1>1 DEF Inv, Pipes
  <1>3. fromChild' = <<st>> /\ child' = at
    BY <1>1, <1>2, Tuples DEF Document
  <1>4. ~Leaving' /\ Known' = Known /\ requestQ' = <<>> /\ responseQ' = <<>>
    BY <1>1, OwnKnown
  <1>5. Said = "nothing"
    BY <1>1, <1>2, SaidIs
  <1>6. Said' = "nothing"
    BY <1>2, <1>3, <1>4, SaidNext
  <1>7. Told = "nothing" /\ Told' = st
    BY <1>1, <1>2, <1>3, <1>4, ToldIs, ToldNext
  <1>8. Place = "work" /\ Place' = at
    BY <1>3 DEF Place
  <1> QED BY <1>4, <1>5, <1>6, <1>7, <1>8 DEF Talk!Tell, Talk!None

LEMMA MessagePromptTalks ==
  ASSUME Inv, Own, child \in {"opening", "command"}, toChild' = toChild, asks' = asks,
         NEW failed \in BOOLEAN, NEW at \in {"prompt", "exited"}, MessagePrompt(failed, at),
         at = "exited" => failed
  PROVE  Talk!DialogueNext \/ UNCHANGED Talk!dialogueVars
  <1> DEFINE st == IF failed \/ errors THEN "error" ELSE IF canceled THEN "canceled" ELSE "ok"
  <1>1. Document(st, at) /\ st \in Status
    BY DEF MessagePrompt, Status
  <1>2. child' \in {at, "exited"}
    BY <1>1 DEF Document
  <1>3. CASE Leaving
    BY <1>2, <1>3, Alone DEF ChildAt
  <1>4. CASE ~Leaving
    <2>1. canceled => child = "command"
      BY DEF Inv, Pipes
    <2>2. st = "canceled" <=> MayAsk = "refused" /\ ~failed /\ ~errors
      BY <1>4, <2>1 DEF MayAsk
    <2>3. st = "error" \/ (at = "prompt" /\ st = IF MayAsk = "refused" THEN "canceled" ELSE "ok")
      BY <2>2
    <2> HIDE DEF st
    <2>4. Talk!Tell(st, at)
      BY <1>1, <1>4, DocumentTalks
    <2>5. MayAsk' = "nothing"
      BY <1>2 DEF MayAsk
    <2>6. Talk!Finish
      BY <2>3, <2>4, <2>5 DEF Talk!Finish, Talk!None
    <2> QED BY <2>6 DEF Talk!DialogueNext
  <1> QED BY <1>3, <1>4

LEMMA MainTalks ==
  ASSUME Inv, Main
  PROVE  Talk!DialogueNext \/ UNCHANGED Talk!dialogueVars
  <1> USE DEF Main
  <1>1. Own
    BY DEF Own
  <1>2. CASE child' = "exited" /\ UNCHANGED fromChild
    BY <1>1, <1>2, Alone, ExitTalks DEF ChildAt, Talk!DialogueNext
  <1>3. ASSUME NEW failed \in BOOLEAN, NEW at \in {"prompt", "exited"}, at = "exited" => failed,
               MessagePrompt(failed, at)
        PROVE  Talk!DialogueNext \/ UNCHANGED Talk!dialogueVars
    BY <1>1, <1>3, MessagePromptTalks
  <1> QED BY <1>2, <1>3

LEMMA EndCommandTalks ==
  ASSUME Inv, EndCommand
  PROVE  Talk!DialogueNext \/ UNCHANGED Talk!dialogueVars
  <1>1. Own
    BY DEF Own, EndCommand
  <1> QED BY <1>1, MessagePromptTalks DEF EndCommand

LEMMA AskTalks ==
  ASSUME Inv, NeedsACK \/ NeedsMeasuredF
  PROVE  Talk!DialogueNext \/ UNCHANGED Talk!dialogueVars
  <1> USE DEF NeedsACK, NeedsMeasuredF
  <1>1. Own /\ child = "command" /\ canceled = FALSE
    BY DEF Own, Inv, Typed, Pipes
  <1>2. child' \in {"ack", "frequency", "exited"}
    BY DEF Document
  <1>3. CASE Leaving
    BY <1>1, <1>2, <1>3, Alone DEF ChildAt
  <1>4. CASE ~Leaving /\ NeedsACK
    <2>1. Talk!Tell("needsACK", "ack")
      BY <1>1, <1>4, DocumentTalks DEF Status
    <2>2. ~Leaving' /\ stdoutClosed = FALSE
      BY <1>1, <1>4, OwnKnown, AliveOnly
    <2>3. child' = "ack" /\ asks' = "ready" /\ canceled' = FALSE
      BY <1>1, <1>4, <2>2 DEF Document, Inv, Pipes, Typed
    <2>4. MayAsk = "needsACK" /\ MayAsk' = "needsACK"
      BY <1>1, <1>4, <2>2, <2>3 DEF MayAsk
    <2> QED BY <2>1, <2>4 DEF Talk!Ask, Talk!DialogueNext
  <1>5. CASE ~Leaving /\ NeedsMeasuredF
    <2>1. Talk!Tell("needsMeasuredF", "frequency")
      BY <1>1, <1>5, DocumentTalks DEF Status
    <2>2. asks' = "nothing" /\ canceled' = FALSE
      BY <1>1, <1>5
    <2>3. MayAsk = "needsMeasuredF" /\ MayAsk' = "nothing"
      BY <1>1, <1>5, <2>2 DEF MayAsk
    <2> QED BY <2>1, <2>3 DEF Talk!Ask, Talk!DialogueNext, Talk!None
  <1> QED BY <1>3, <1>4, <1>5

\* A line that is read is the one said, and it is heard.
LEMMA ReadsTalks ==
  ASSUME Inv, Begins, Own, ~Leaving, child \in {"prompt", "load", "ack", "frequency"}, ReadLine,
         fromChild' = fromChild, child' = "command",
         child = "prompt" => Heard # "setup"
  PROVE  /\ Said = IF child = "load" THEN "setup" ELSE Heard
         /\ Heard \in Wanted(child) /\ Said' = "nothing" /\ Place' = "work"
         /\ Known' = Known /\ Told' = Told /\ ~Leaving'
  <1>1. /\ requestQ = <<>> /\ requestQ' = <<>> /\ ~Leaving' /\ Known' = Known
        /\ Told' = Told /\ ~stdinClosed
    BY AliveOnly, OwnKnown, SameTold DEF ReadLine
  <1>2. /\ toChild = <<Heard>> /\ toChild' = <<>> /\ Heard \in Wanted(child)
    BY <1>1, Hears
  <1>3. Said = IF child = "load" THEN "setup" ELSE Heard
    BY <1>1, <1>2, SaidIs
  <1>4. Said' = "nothing"
    BY <1>1, <1>2, SaidNext
  <1> QED BY <1>1, <1>2, <1>3, <1>4 DEF Place

LEMMA HearTalks ==
  ASSUME Inv, Begins, Own, ~Leaving, child \in {"prompt", "load", "ack", "frequency"}, ReadLine,
         fromChild' = fromChild, child' = "command",
         child = "prompt" => Heard # "setup",
         child = "prompt" => asks' = Prompts(Heard),
         child = "load" => asks' = asks,
         child \in {"prompt", "load"} => canceled' = canceled,
         child \in {"ack", "frequency"} =>
            IF Heard \in {"q", EndOfFile} THEN Cancels ELSE Proceeds
  PROVE  Talk!Hear
  <1>1. /\ Said = IF child = "load" THEN "setup" ELSE Heard
        /\ Heard \in Wanted(child) /\ Said' = "nothing" /\ Place' = "work"
        /\ Known' = Known /\ Told' = Told /\ ~Leaving'
    BY ReadsTalks
  <1>2. DOMAIN Talk!Prompt = {"ready", "needsACK", "needsMeasuredF"}
        /\ Talk!Prompt["ready"] = "prompt" /\ Talk!Prompt["needsACK"] = "ack"
        /\ Talk!Prompt["needsMeasuredF"] = "frequency"
    BY DEF Talk!Prompt
  <1>3. canceled => child \notin {"prompt", "load", "ack", "frequency"}
    BY DEF Inv, Pipes
  <1>4. ASSUME NEW st \in DOMAIN Talk!Prompt, Place = Talk!Prompt[st],
               Said \in Talk!Offered(st),
               MayAsk' = IF st = "ready" THEN Talk!Questions(Said)
                         ELSE IF Said = "q" THEN "refused" ELSE MayAsk
        PROVE  Talk!Hear
    BY <1>1, <1>4 DEF Talk!Hear, Talk!None
  <1>5. CASE child = "prompt"
    <2>1. Place = "prompt" /\ Said \in Talk!Offered("ready")
      BY <1>1, <1>5 DEF Place, Wanted, Command, Talk!Offered
    <2>2. MayAsk' = Talk!Questions(Said)
      BY <1>1, <1>3, <1>5 DEF MayAsk, Talk!Questions, Talk!None, Prompts, Inv, Typed
    <2> QED BY <1>2, <1>4, <2>1, <2>2
  <1>6. CASE child = "load"
    <2>1. Place = "prompt" /\ Said \in Talk!Offered("ready") /\ Said = "setup"
      BY <1>1, <1>6 DEF Place, Talk!Offered
    <2>2. MayAsk' = Talk!Questions(Said)
      BY <1>1, <1>3, <1>6, <2>1 DEF MayAsk, Talk!Questions, Talk!None, Begins, Inv, Typed
    <2> QED BY <1>2, <1>4, <2>1, <2>2
  <1>7. ASSUME child \in {"ack", "frequency"}
        PROVE  MayAsk' = IF Said = "q" THEN "refused" ELSE MayAsk
    <2>1. Heard # EndOfFile /\ Said = Heard
      BY <1>1, <1>7 DEF Wanted, EndOfFile
    <2>2. CASE Heard = "q"
      <3>1. canceled' = TRUE
        BY <1>7, <2>2 DEF Cancels
      <3> QED BY <1>1, <2>1, <2>2, <3>1 DEF MayAsk
    <2>3. CASE Heard # "q"
      <3>1. canceled' = canceled /\ asks' = asks
        BY <1>7, <2>1, <2>3 DEF Proceeds
      <3> QED BY <1>1, <1>7, <2>1, <2>3, <3>1 DEF MayAsk
    <2> QED BY <2>2, <2>3
  <1>8. CASE child = "ack"
    <2>1. Place = "ack" /\ Said \in Talk!Offered("needsACK")
      BY <1>1, <1>8 DEF Place, Wanted, Talk!Offered
    <2> QED BY <1>2, <1>4, <1>7, <1>8, <2>1
  <1>9. CASE child = "frequency"
    <2>1. Place = "frequency" /\ Said \in Talk!Offered("needsMeasuredF")
      BY <1>1, <1>9 DEF Place, Wanted, Talk!Offered
    <2> QED BY <1>2, <1>4, <1>7, <1>9, <2>1
  <1> QED BY <1>5, <1>6, <1>8, <1>9

LEMMA CliTalks ==
  ASSUME Inv, Begins, Cli
  PROVE  Talk!DialogueNext \/ UNCHANGED Talk!dialogueVars
  <1> USE DEF Cli
  <1>1. Own /\ (Heard \in Command \/ Heard = EndOfFile)
    BY Hears DEF Own, Wanted, Command
  <1>2. CASE Leaving
    <2>1. child' \in ChildAt \ {"none"}
      BY <1>1 DEF ChildAt, Begin, EndOfFile, Command
    <2> QED BY <1>1, <1>2, <2>1, Alone
  <1>3. ASSUME ~Leaving PROVE /\ requestQ = <<>> /\ toChild # <<>> /\ Heard \in Command
                              /\ canceled' = canceled /\ fromChild' = fromChild
    <2>1. requestQ = <<>> /\ stdinClosed = FALSE
      BY <1>3, AliveOnly DEF ReadLine
    <2>2. Heard \in Command
      BY <1>1, <2>1, Hears DEF EndOfFile, Wanted, Command
    <2> QED BY <2>1, <2>2 DEF ReadLine
  <1>4. CASE ~Leaving /\ Heard # "setup"
    <2>1. child' = "command" /\ asks' = Prompts(Heard)
      BY <1>3, <1>4 DEF Begin
    <2> QED BY <1>1, <1>3, <1>4, <2>1, HearTalks DEF Talk!DialogueNext
  <1>5. CASE ~Leaving /\ Heard = "setup"
    <2>1. child' = "load" /\ ~Leaving' /\ Known' = Known /\ requestQ' = <<>>
      BY <1>1, <1>3, <1>5, OwnKnown DEF Begin
    <2>2. toChild = <<"setup">> \/ toChild = <<"setup", Input>>
      BY <1>1, <1>3, <1>5, Hears
    <2>3. Said = "setup"
      BY <1>3, <1>5, <2>2, SaidIs
    <2>4. Said' = "setup"
      BY <2>1, SaidNext
    <2>5. Told' = Told
      BY <1>1, <1>3, <1>5, OwnKnown, SameTold
    <2>6. Place' = Place /\ MayAsk' = MayAsk
      BY <2>1 DEF Place, MayAsk
    <2> QED BY <2>1, <2>3, <2>4, <2>5, <2>6 DEF Talk!dialogueVars
  <1> QED BY <1>2, <1>4, <1>5

LEMMA LoadTalks ==
  ASSUME Inv, Begins, Load
  PROVE  Talk!DialogueNext \/ UNCHANGED Talk!dialogueVars
  <1> USE DEF Load
  <1>1. Own
    BY DEF Own
  <1>2. CASE Leaving
    BY <1>1, <1>2, Alone DEF ChildAt
  <1>3. CASE ~Leaving
    <2>1. toChild # <<>>
      BY <1>3, AliveOnly DEF ReadLine
    <2>2. Heard = Input
      <3>1. Heard \in Wanted("load")
        BY <2>1, Hears
      <3> QED BY <3>1 DEF Wanted
    <2>3. child' = "command"
      BY <2>2 DEF Input, EndOfFile
    <2> QED BY <1>1, <1>3, <2>3, HearTalks DEF Talk!DialogueNext
  <1> QED BY <1>2, <1>3

LEMMA AnswerTalks ==
  ASSUME Inv, Begins, PromptForReady \/ ReadFrequency
  PROVE  Talk!DialogueNext \/ UNCHANGED Talk!dialogueVars
  <1> USE DEF PromptForReady, ReadFrequency
  <1>1. Own /\ fromChild' = fromChild
    BY DEF Own
  <1>2. IF Heard \in {"q", EndOfFile} THEN Cancels ELSE Proceeds
    BY Hears DEF Wanted, EndOfFile
  <1>3. child' = "command"
    BY <1>2 DEF Cancels, Proceeds
  <1>4. CASE Leaving
    BY <1>1, <1>3, <1>4, Alone DEF ChildAt
  <1>5. CASE ~Leaving
    BY <1>1, <1>2, <1>3, <1>5, HearTalks DEF Talk!DialogueNext
  <1> QED BY <1>4, <1>5

LEMMA MessageErrorTalks ==
  ASSUME MessageError
  PROVE  UNCHANGED Talk!dialogueVars
  <1>1. Own /\ UNCHANGED <<toChild, fromChild, child, asks, canceled>>
    BY DEF MessageError, Own, pipeVars
  <1> QED BY <1>1, OwnKnown, SameSaid, SameTold, SameProgram DEF Talk!dialogueVars

LEMMA ChildTalks ==
  ASSUME Inv, Begins, ChildStep \/ Dies
  PROVE  Talk!DialogueNext \/ UNCHANGED Talk!dialogueVars
  <1>1. CASE Dies
    <2>1. Own /\ fromChild' = fromChild
      BY <1>1 DEF Dies, Own, pipeVars
    <2> QED BY <1>1, <2>1, Alone, ExitTalks DEF Dies, ChildAt, Talk!DialogueNext
  <1> QED BY <1>1, MainTalks, CliTalks, LoadTalks, MessageErrorTalks, AskTalks, AnswerTalks,
             EndCommandTalks DEF ChildStep

LEMMA NextTalks ==
  ASSUME Inv, Begins, [Next]_vars
  PROVE  [Talk!DialogueNext]_(Talk!dialogueVars)
  <1>1. CASE UNCHANGED vars
    <2>1. Own /\ UNCHANGED <<toChild, fromChild, child, asks, canceled>>
      BY <1>1 DEF vars, Own, pipeVars, childVars
    <2> QED BY <2>1, OwnKnown, SameSaid, SameTold, SameProgram DEF Talk!dialogueVars
  <1> QED BY <1>1, GuiTalks, WorkerTalks, ChildTalks DEF Next

\* Through two queues, two pipes and a thread that lose no line and no document
\* the GUI and the program talk as Dialogue promises: every line is heard once,
\* at the prompt it was said to, and answered once.
THEOREM ImplementsDialogue == Spec => DialogueSpec
  <1>1. Init => Talk!DialogueInit
    <2> SUFFICES ASSUME Init PROVE Talk!DialogueInit
      OBVIOUS
    <2>1. ~Leaving /\ Known = "closed"
      BY DEF Init, Leaving, Known
    <2>2. Said = "nothing" /\ Told = "nothing"
      BY <2>1, SaidIs, ToldIs DEF Init
    <2> QED BY <2>1, <2>2 DEF Init, Place, MayAsk, Talk!DialogueInit, Talk!None
  <1>2. Init => Begins
    BY DEF Init, Begins
  <1>3. Inv /\ Begins /\ [Next]_vars => [Talk!DialogueNext]_(Talk!dialogueVars)
    BY NextTalks
  <1> QED BY <1>1, <1>2, <1>3, BeginsInv, Invariance, PTL DEF Spec, DialogueSpec, Talk!DialogueSpec
===============================================================================
