----------------------------- MODULE PaneStreams -----------------------------
(***************************************************************************)
(* The two streams a pane can be observed by (control.rs, hybrid.rs): a    *)
(* control-mode client, whose lines a reader thread parses into a channel  *)
(* of events, and pipe-pane, which copies the output of a pane into a file *)
(* as long as a guard lives.                                               *)
(***************************************************************************)
EXTENDS Integers, Sequences, SequencesExt

CONSTANTS Pane,
          Text,     \* what panes write: sequences of bytes
          Utf8,     \* those that are UTF-8
          Notice,   \* the names of the other lines of the client
          Reply,    \* the one that ends the answer to a command
          Guard,    \* TmuxPipePane values
          NoGuard,  \* not a guard
          NoPane,   \* not a pane
          Timeout,  \* of a wait, in ticks
          MaxLines  \* bound: lines and events on their way

\* u8
Byte == 0..255

ASSUME StreamsAssumption ==
  /\ Utf8 \subseteq Text /\ Text \subseteq Seq(Byte)
  /\ Reply \in Notice /\ "output" \notin Notice
  /\ NoGuard \notin Guard /\ NoPane \notin Pane
  /\ Timeout \in Nat /\ MaxLines \in Nat

VARIABLES
  child,   \* the tmux client
  lines,   \* what it has written and the reader has not read
  reader,  \* the reader thread
  events,  \* the channel
  owed,    \* what the client has written and its owner has not been given
  call,    \* what the owner of the client does
  want,    \* the events its wait is for
  left,    \* the time left of it
  result,  \* of the last wait
  alive,   \* the panes alive
  guard,   \* the pane of each guard
  piped,   \* the guard whose pipe each pane has
  missed,  \* the guards whose file lacks output of their pane
  shared   \* the guards in whose life another of their pane began or ended

clientVars == <<child, lines, reader, events, owed, call, want, left, result>>
pipeVars   == <<guard, piped, missed, shared>>
vars       == <<clientVars, alive, pipeVars>>

-----------------------------------------------------------------------------
(* Lines and events.                                                       *)

Backslash == 92
Zero      == 48
IsDigit(b) == b \in Zero..Zero + 9

\* tmux writes control characters and backslashes as three octal digits.
Escaped(b) ==
  IF b >= 32 /\ b # Backslash THEN <<b>>
  ELSE <<Backslash, Zero + b \div 64, Zero + ((b \div 8) % 8), Zero + (b % 8)>>

Encode(s) == FlattenSeq([i \in DOMAIN s |-> Escaped(s[i])])

Letter(b) == CASE b = 110 -> 10 [] b = 114 -> 13 [] b = 116 -> 9 [] OTHER -> b

\* Mutant: octal escapes are not known.
Octal_Never(s, i) == FALSE

\* Three digits follow the backslash at i.
Octal(s, i) == i + 3 <= Len(s) /\ \A j \in 1..3 : IsDigit(s[i + j])

\* The loop of decode_control_payload: what a round makes of its two variables;
\* the arithmetic is that of u8.
Loop(s) ==
  [st \in [i : Nat \ {0}, decoded : Seq(Byte)] |->
    LET i == st.i
        next(n, b) == [i |-> i + n, decoded |-> Append(st.decoded, b)]
    IN  IF i > Len(s) THEN st
        ELSE IF s[i] # Backslash \/ i + 1 > Len(s) THEN next(1, s[i])
        ELSE IF Octal(s, i)
             THEN next(4, ((s[i+1] - Zero) * 64 + (s[i+2] - Zero) * 8 + s[i+3] - Zero) % 256)
        ELSE next(2, Letter(s[i+1]))]

\* Every round passes a byte, so there are no more than Len(s).
Decode(s) ==
  LET after[n \in 0..Len(s)] ==
        IF n = 0 THEN [i |-> 1, decoded |-> <<>>] ELSE Loop(s)[after[n - 1]]
  IN  after[Len(s)].decoded

\* A line is an %output with its payload, or another notification.
OutputLine(p, x) == [name |-> "output", pane |-> p, payload |-> Encode(x), utf8 |-> x \in Utf8]
NoticeLine(n)    == [name |-> n, pane |-> NoPane, payload |-> <<>>, utf8 |-> TRUE]

Lines == {OutputLine(p, x) : p \in Pane, x \in Text} \union {NoticeLine(n) : n \in Notice}

\* parse_control_event
Parsed(l) == [name |-> l.name, pane |-> l.pane, bytes |-> Decode(l.payload)]

Events == {Parsed(l) : l \in Lines}

-----------------------------------------------------------------------------
(* The control-mode client.                                                *)

Room == Len(lines) + Len(events) < MaxLines

\* The client writes a line; a reader that has stopped has closed the pipe,
\* and the write kills it.
ClientWrites(l) ==
  /\ child = "running" /\ Room
  /\ IF reader = "reading"
     THEN lines' = Append(lines, l) /\ owed' = Append(owed, l) /\ UNCHANGED child
     ELSE child' = "dead" /\ UNCHANGED <<lines, owed>>
  /\ UNCHANGED <<reader, events, call, want, left, result>>

Notifies == \E n \in Notice : ClientWrites(NoticeLine(n)) /\ UNCHANGED <<alive, pipeVars>>

\* The session ends or the server exits.
ClientExits ==
  /\ child = "running" /\ child' = "dead"
  /\ UNCHANGED <<lines, reader, events, owed, call, want, left, result, alive, pipeVars>>

\* A line that is not UTF-8 is an error of lines(), which ends the thread.
ReadLine ==
  /\ reader = "reading" /\ lines # <<>>
  /\ lines' = Tail(lines)
  /\ IF Head(lines).utf8
     THEN events' = Append(events, Parsed(Head(lines))) /\ UNCHANGED reader
     ELSE reader' = "ended" /\ UNCHANGED events
  /\ UNCHANGED <<child, owed, call, want, left, result, alive, pipeVars>>

\* Mutant: the reader ends with the client, whatever is left to read.
AtEof_Early == child = "dead"

AtEof == child = "dead" /\ lines = <<>>

ReaderEnds ==
  /\ reader = "reading" /\ AtEof
  /\ reader' = "ended"
  /\ UNCHANGED <<child, lines, events, owed, call, want, left, result, alive, pipeVars>>

\* attach_control_mode
Attach ==
  /\ call = "gone"
  /\ child' = "running" /\ reader' = "reading"
  /\ lines' = <<>> /\ events' = <<>> /\ owed' = <<>>
  /\ call' = "none" /\ want' = {} /\ left' = 0 /\ result' = "none"
  /\ UNCHANGED <<alive, pipeVars>>

\* send_command: the client answers; to one that is dead the write fails.
SendCommand ==
  /\ call = "none"
  /\ ClientWrites(NoticeLine(Reply))
  /\ UNCHANGED <<alive, pipeVars>>

\* wait_for_event; next_event_timeout waits for every event, and
\* wait_for_pane_output for outputs of one pane.
StartWait(W) ==
  /\ call = "none"
  /\ call' = "wait" /\ want' = W /\ left' = Timeout /\ result' = "none"
  /\ UNCHANGED <<child, lines, reader, events, owed, alive, pipeVars>>

Ends(r) == call' = "none" /\ want' = {} /\ left' = 0 /\ result' = r

\* Mutant: the timeout starts again with every event.
LeftAfter_Restart == Timeout

LeftAfter == left

\* An event that does not match is dropped.
Take ==
  /\ call = "wait" /\ left > 0 /\ events # <<>>
  /\ events' = Tail(events) /\ owed' = Tail(owed)
  /\ IF Head(events) \in want THEN Ends("found")
     ELSE left' = LeftAfter /\ UNCHANGED <<call, want, result>>
  /\ UNCHANGED <<child, lines, reader, alive, pipeVars>>

Expire ==
  /\ call = "wait" /\ left = 0
  /\ Ends("timeout")
  /\ UNCHANGED <<child, lines, reader, events, owed, alive, pipeVars>>

Disconnected ==
  /\ call = "wait" /\ left > 0
  /\ events = <<>> /\ reader = "ended"
  /\ Ends("error")
  /\ UNCHANGED <<child, lines, reader, events, owed, alive, pipeVars>>

Tick ==
  /\ call = "wait" /\ left > 0
  /\ left' = left - 1
  /\ UNCHANGED <<child, lines, reader, events, owed, call, want, result, alive, pipeVars>>

\* Drop: kill the client, wait for it and join the reader.
DropKills ==
  /\ call = "none"
  /\ call' = "join" /\ child' = "dead"
  /\ UNCHANGED <<lines, reader, events, owed, want, left, result, alive, pipeVars>>

DropJoins ==
  /\ call = "join" /\ reader = "ended"
  /\ call' = "gone" /\ events' = <<>> /\ owed' = <<>>
  /\ UNCHANGED <<child, lines, reader, want, left, result, alive, pipeVars>>

-----------------------------------------------------------------------------
(* pipe-pane.                                                              *)

Guards(p) == {g \in Guard : guard[g] = p}

\* Mutant: with -o, pipe-pane closes the pipe that is there.
NewPipe_Toggle(p, g) == IF piped[p] = NoGuard THEN g ELSE NoGuard

\* A pane has one pipe: the new one takes the place of the old one.
NewPipe(p, g) == g

\* start_pipe_pane_to_file; it fails when the pane does not exist.
StartPipe(g, p) ==
  /\ guard[g] = NoPane /\ p \in alive
  /\ guard' = [guard EXCEPT ![g] = p]
  /\ piped' = [piped EXCEPT ![p] = NewPipe(p, g)]
  /\ shared' = shared \union (IF Guards(p) = {} THEN {} ELSE Guards(p) \union {g})
  /\ UNCHANGED <<clientVars, alive, missed>>

Gone(g) == guard' = [guard EXCEPT ![g] = NoPane] /\ missed' = missed \ {g}

\* Dropping a guard stops the pipe of its pane, whosever it is; an error of
\* stop_pipe_pane is ignored.
DropPipe(g) ==
  /\ guard[g] # NoPane
  /\ piped' = [piped EXCEPT ![guard[g]] = NoGuard]
  /\ shared' = (shared \union Guards(guard[g])) \ {g}
  /\ Gone(g)
  /\ UNCHANGED <<clientVars, alive>>

\* The process of the guard is killed: nobody stops the pipe.
GuardLost(g) ==
  /\ guard[g] # NoPane
  /\ shared' = shared \ {g}
  /\ Gone(g)
  /\ UNCHANGED <<clientVars, alive, piped>>

\* A pane writes to the client, if one is attached, and into its pipe.
PaneWrites(p, x) ==
  /\ p \in alive
  /\ IF child = "running" THEN ClientWrites(OutputLine(p, x)) ELSE UNCHANGED clientVars
  /\ missed' = missed \union {g \in Guards(p) : piped[p] # g}
  /\ UNCHANGED <<alive, guard, piped, shared>>

PaneDies(p) ==
  /\ p \in alive /\ alive' = alive \ {p}
  /\ piped' = [piped EXCEPT ![p] = NoGuard]
  /\ UNCHANGED <<clientVars, guard, missed, shared>>

Init ==
  /\ child = "dead" /\ reader = "ended"
  /\ lines = <<>> /\ events = <<>> /\ owed = <<>>
  /\ call = "gone" /\ want = {} /\ left = 0 /\ result = "none"
  /\ alive = Pane
  /\ guard = [g \in Guard |-> NoPane] /\ piped = [p \in Pane |-> NoGuard]
  /\ missed = {} /\ shared = {}

Wants == {Events} \union {{e \in Events : e.name = "output" /\ e.pane = p} : p \in Pane}
                  \union {{e \in Events : e.name = n} : n \in Notice}

Caller == Take \/ Expire \/ Disconnected

Next ==
  \/ Notifies \/ ClientExits \/ ReadLine \/ ReaderEnds
  \/ Attach \/ SendCommand \/ (\E W \in Wants : StartWait(W)) \/ Caller \/ Tick
  \/ DropKills \/ DropJoins
  \/ \E g \in Guard : DropPipe(g) \/ GuardLost(g) \/ (\E p \in Pane : StartPipe(g, p))
  \/ \E p \in Pane : PaneDies(p) \/ (\E x \in Text : PaneWrites(p, x))

Spec == Init /\ [][Next]_vars

\* The reader, the caller of a wait or a drop, and the clock go on.
FairSpec == /\ Spec
            /\ WF_vars(ReadLine \/ ReaderEnds)
            /\ WF_vars(Caller) /\ WF_vars(Tick) /\ WF_vars(DropJoins)

-----------------------------------------------------------------------------
(* Properties.                                                             *)

\* Every variable has its type.
TypeOK ==
  /\ child \in {"running", "dead"} /\ reader \in {"reading", "ended"}
  /\ lines \in Seq(Lines) /\ events \in Seq(Events) /\ owed \in Seq(Lines)
  /\ call \in {"none", "wait", "join", "gone"}
  /\ want \subseteq Events
  /\ left \in 0..Timeout
  /\ result \in {"none", "found", "timeout", "error"}
  /\ alive \subseteq Pane
  /\ guard \in [Guard -> Pane \union {NoPane}]
  /\ piped \in [Pane -> Guard \union {NoGuard}]
  /\ missed \subseteq Guard /\ shared \subseteq Guard

\* An output event carries the bytes that the pane has written: decoding undoes
\* the escapes of tmux.
OutputIsExact ==
  \A i \in 1..Len(events) : events[i].name = "output" => events[i].bytes \in Utf8

\* A caller is given the lines of the client in their order, and is told that the
\* client is gone only when it has been given the last of them, or the last before
\* the line that is not UTF-8, at which the reader stopped.
ErrorComesLast ==
  [][call = "wait" =>
       /\ events # <<>> => owed # <<>> /\ Head(events) = Parsed(Head(owed))
       /\ call' = "none" /\ result' = "error" => owed = <<>> \/ ~Head(owed).utf8]_vars

\* A guard's file lacks output of the pane only if another guard of the same
\* pane was started or dropped during its life.
StreamIsWhole == missed \subseteq shared

\* A wait and a drop return, whatever the client writes meanwhile.
CallsReturn == /\ call = "wait" ~> call = "none"
               /\ call = "join" ~> call = "gone"

=============================================================================
