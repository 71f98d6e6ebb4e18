---------------------------- MODULE StreamParser ----------------------------
(***************************************************************************)
(* OpenAiCompatClient::complete_stream and complete                        *)
(* (core/agent/llm_client.cpp): the client connects to a provider and asks *)
(* it; the provider streams a reply as lines of server-sent events, or     *)
(* sends it whole; the network cuts them anywhere; and the client puts     *)
(* text and tool calls together again for AgentEngine.                     *)
(*                                                                         *)
(* A line travels as two halves, the second with its newline.  The text of *)
(* the reply is the numbers of its deltas.  The arguments of a call are a  *)
(* sequence of letters, because the merge of argument fragments decides by *)
(* comparing texts.  A whole reply is a body of such lines, noise in it    *)
(* being what does not parse, and has no calls (summarize asks without     *)
(* tools).  The transport is the library Mira: it hands over what the      *)
(* socket yields, and gives up at the deadline.                            *)
(***************************************************************************)
EXTENDS Integers, Sequences, FiniteSets, SequencesExt

CONSTANTS
  Letters,    \* letters of arguments
  Replies,    \* the tool calls of a reply: for each index its arguments
  MaxText,    \* bound: text deltas of a reply
  MaxNoise,   \* bound: lines that are no chunk
  Window,     \* bound: half lines on their way
  MaxEndpoints \* bound: endpoints a name resolves to

ASSUME StreamAssumption ==
  /\ Replies \subseteq Seq(Seq(Letters))
  /\ MaxText \in Nat /\ MaxNoise \in Nat /\ Window \in Nat
  /\ MaxEndpoints \in Nat

VARIABLES
  \* exchange
  whole,     \* complete, or complete_stream
  phase,     \* what exchange_task awaits
  untried,   \* resolved endpoints it has not tried yet
  status,    \* of the response; 0: none yet
  \* provider
  reply,     \* the calls it means
  form,      \* how it sends arguments: "delta" or "snapshot"
  progress,  \* letters of each call sent; -1: not even its name
  spoken,    \* text deltas sent
  noise,     \* lines of noise sent
  stage,     \* "open", "finished" (finish_reason sent), "closed", "broken"
  muted,     \* calls a chunk of which said "content": null; 0: the chunk that
             \* finishes them did, and no [DONE] makes up for it
  \* network
  wire,      \* halves of lines on their way
  \* client
  sse,       \* sse_buffer; the body of a whole reply
  acc,       \* tool_acc
  outcome,   \* "receiving", "returned", "thrown"
  text,      \* text deltas delivered
  pending    \* calls delivered, as run collects them

providerVars == <<reply, form, progress, spoken, noise, stage, muted>>
clientVars   == <<sse, acc, outcome, text, pending>>
exchangeVars == <<whole, phase, untried, status>>
vars == <<exchangeVars, providerVars, wire, clientVars>>

Calls == DOMAIN reply

Fragment(i, named, part) == [index |-> i, named |-> named, part |-> part]
NoFragment == Fragment(0, FALSE, << >>)

\* A line: what its payload is and what the chunk says.
Line(kind, delta, isNull, fragment, finish) ==
  [kind |-> kind, delta |-> delta, null |-> isNull, fragment |-> fragment,
   finish |-> finish]

NoCall == [present |-> FALSE, named |-> FALSE, args |-> << >>]

Init ==
  /\ \/ whole = FALSE /\ reply \in Replies /\ form \in {"delta", "snapshot"}
     \/ whole = TRUE /\ reply = << >> /\ form = "delta"
  /\ phase = "resolve" /\ untried = 0 /\ status = 0
  /\ progress = [i \in DOMAIN reply |-> -1]
  /\ spoken = 0 /\ noise = 0 /\ stage = "open" /\ muted = {}
  /\ wire = << >> /\ sse = << >>
  /\ acc = [i \in DOMAIN reply |-> NoCall]
  /\ outcome = "receiving" /\ text = << >> /\ pending = << >>

\* A line in the buffer is complete with its second half.
Complete == ~whole /\ Len(sse) >= 2

-----------------------------------------------------------------------------
(* The exchange up to the response                                         *)

\* A step failed or the deadline passed: complete and complete_stream throw.
GiveUp == outcome' = "thrown" /\ UNCHANGED <<phase, untried, status>>

Resolve ==
  /\ phase = "resolve"
  /\ \/ GiveUp
     \/ /\ untried' \in 1..MaxEndpoints /\ phase' = "connect"
        /\ UNCHANGED <<status, outcome>>

\* Endpoints are tried in order, and the first connection wins; behind it
\* comes TLS if the URL says so.
Connect ==
  /\ phase = "connect" /\ untried > 0
  /\ untried' = untried - 1
  /\ phase' \in {"connect", "handshake", "start"}
  /\ UNCHANGED <<status, outcome>>

ConnectFails == phase = "connect" /\ untried = 0 /\ GiveUp

Handshake ==
  /\ phase = "handshake"
  /\ \/ GiveUp
     \/ phase' = "start" /\ UNCHANGED <<untried, status, outcome>>

\* The request is sent and the head of the response arrives.
Start ==
  /\ phase = "start"
  /\ \/ GiveUp
     \/ phase' = "body" /\ status' \in {200, 500} /\ UNCHANGED <<untried, outcome>>

\* Between two chunks, whose lines are handled at once.
ReadFails == phase = "body" /\ ~Complete /\ GiveUp

Exchange ==
  /\ outcome = "receiving"
  /\ Resolve \/ Connect \/ ConnectFails \/ Handshake \/ Start \/ ReadFails
  /\ UNCHANGED <<whole, providerVars, wire, sse, acc, text, pending>>

-----------------------------------------------------------------------------
(* The provider and the network                                            *)

Answers == stage = "open" /\ status = 200

Send(line) ==
  /\ Len(wire) + 2 <= Window
  /\ wire' = wire \o << [line |-> line, last |-> FALSE], [line |-> line, last |-> TRUE] >>

SendText ==
  /\ Answers /\ spoken < MaxText
  /\ spoken' = spoken + 1
  /\ Send(Line("chunk", spoken + 1, FALSE, NoFragment, FALSE))
  /\ UNCHANGED <<progress, noise, stage, muted>>

\* The first fragment names the call; its arguments may be empty.  A chunk
\* without text may say so with null.
SendFragment(i, upto) ==
  /\ Answers
  /\ upto \in 0..Len(reply[i])
  /\ upto > progress[i]
  /\ progress' = [progress EXCEPT ![i] = upto]
  /\ LET from  == IF form = "snapshot" \/ progress[i] = -1 THEN 1 ELSE progress[i] + 1
         first == progress[i] = -1
     IN  \E isNull \in BOOLEAN :
           /\ Send(Line("chunk", 0, isNull,
                        Fragment(i, first, SubSeq(reply[i], from, upto)), FALSE))
           /\ muted' = IF isNull THEN muted \cup {i} ELSE muted
  /\ UNCHANGED <<spoken, noise, stage>>

\* A comment, an empty line, a payload that is no JSON, a line of an error.
SendNoise ==
  /\ stage = "open" /\ noise < MaxNoise
  /\ noise' = noise + 1
  /\ Send(Line("noise", 0, FALSE, NoFragment, FALSE))
  /\ UNCHANGED <<progress, spoken, stage, muted>>

AllSent == \A i \in Calls : progress[i] = Len(reply[i])

SendFinish ==
  /\ Answers /\ AllSent /\ ~whole
  /\ stage' = "finished"
  /\ \E isNull \in BOOLEAN :
       /\ Send(Line("chunk", 0, isNull, NoFragment, TRUE))
       /\ muted' = IF isNull THEN muted \cup {0} ELSE muted
  /\ UNCHANGED <<progress, spoken, noise>>

\* [DONE] ends the stream, with or without a finish_reason before it; some
\* providers leave it out behind a finish_reason.
SendDone ==
  /\ Answers \/ stage = "finished"
  /\ AllSent /\ ~whole
  /\ stage' = "closed"
  /\ \/ Send(Line("done", 0, FALSE, NoFragment, TRUE)) /\ muted' = muted \ {0}
     \/ stage = "finished" /\ UNCHANGED <<wire, muted>>
  /\ UNCHANGED <<progress, spoken, noise>>

\* The end of a whole reply, or of what an error has to say.
EndBody ==
  /\ stage = "open"
  /\ whole \/ status # 200
  /\ stage' = "closed"
  /\ UNCHANGED <<progress, spoken, noise, muted, wire>>

Break ==
  /\ stage \in {"open", "finished"}
  /\ stage' = "broken"
  /\ UNCHANGED <<progress, spoken, noise, muted, wire>>

Provider ==
  /\ phase = "body"
  /\ SendText \/ SendNoise \/ SendFinish \/ SendDone \/ EndBody \/ Break
     \/ \E i \in Calls : \E upto \in 0..Len(reply[i]) : SendFragment(i, upto)
  /\ UNCHANGED <<reply, form, clientVars, exchangeVars>>

-----------------------------------------------------------------------------
(* The client                                                              *)

\* The sink takes a body chunk of any size; complete lines are handled before
\* the next one is read.
Receive(n) ==
  /\ outcome = "receiving" /\ ~Complete
  /\ n \in 1..Len(wire)
  /\ sse' = sse \o SubSeq(wire, 1, n)
  /\ wire' = SubSeq(wire, n + 1, Len(wire))
  /\ UNCHANGED <<acc, outcome, text, pending>>

\* Mutant: fragments are put one after the other.
MergedDeltas(args, part) == args \o part

\* A fragment that continues the arguments is appended; one that begins with
\* them is a snapshot and replaces them; one they begin with adds nothing.
Merged(args, part) ==
  IF args # << >> /\ IsPrefix(args, part) THEN part
  ELSE IF IsPrefix(part, args) THEN args
  ELSE args \o part

\* The accumulator of a fragment's index.
Merge(f) ==
  IF f.index = 0 THEN acc
  ELSE [acc EXCEPT ![f.index] =
         [present |-> TRUE, named |-> @.named \/ f.named, args |-> Merged(@.args, f.part)]]

\* The calls of an accumulator in the order of their indices.
Collected(a) ==
  LET indices == {i \in DOMAIN a : a[i].present}
      rank(i) == Cardinality({j \in indices : j <= i})
  IN  [k \in 1..Cardinality(indices) |->
         LET i == CHOOSE j \in indices : rank(j) = k
         IN  [index |-> i, named |-> a[i].named, args |-> a[i].args]]

\* The event carries all calls and the accumulator is cleared.
Flush(a) == pending' = pending \o Collected(a) /\ acc' = [i \in DOMAIN a |-> NoCall]

\* The delta of the event, if the chunk has one.
TextOf(line) == IF line.delta = 0 THEN text ELSE Append(text, line.delta)

\* Mutant: [DONE] carries no calls.
DoneEmpty ==
  /\ Head(sse).line.kind = "done"
  /\ UNCHANGED <<text, acc, pending>>

Done ==
  /\ Head(sse).line.kind = "done"
  /\ Flush(acc)
  /\ UNCHANGED text

\* get<std::string>() of a null throws, and the whole chunk is skipped.
Skip ==
  /\ Head(sse).line.kind = "noise" \/ Head(sse).line.null
  /\ UNCHANGED <<text, acc, pending>>

Chunk ==
  LET line == Head(sse).line
  IN  /\ line.kind = "chunk" /\ ~line.null
      /\ text' = TextOf(line)
      /\ IF line.finish THEN Flush(Merge(line.fragment))
         ELSE acc' = Merge(line.fragment) /\ UNCHANGED pending

EmitLine ==
  /\ outcome = "receiving" /\ Complete
  /\ Done \/ Skip \/ Chunk
  /\ sse' = SubSeq(sse, 3, Len(sse))
  /\ UNCHANGED <<wire, outcome>>

\* complete_stream: an unfinished line stays in the buffer, and nothing asks
\* whether the reply came to its end.  A connection that broke may look like
\* the end of the body.
Return ==
  /\ ~whole /\ ~Complete
  /\ \/ status = 200 /\ outcome' = "returned"
     \/ (stage = "broken" \/ status # 200) /\ outcome' = "thrown"
  /\ UNCHANGED text

\* complete: the body is parsed when all of it is there.
ReturnWhole ==
  LET lines == [k \in 1..(Len(sse) \div 2) |-> sse[2 * k].line]
      sound == \A k \in DOMAIN lines : lines[k].kind = "chunk"
  IN  /\ whole
      /\ IF stage = "closed" /\ status = 200 /\ sound
         THEN /\ outcome' = "returned"
              /\ text' = [k \in DOMAIN lines |-> lines[k].delta]
         ELSE outcome' = "thrown" /\ UNCHANGED text

BodyEnds ==
  /\ outcome = "receiving" /\ wire = << >> /\ stage \in {"closed", "broken"}
  /\ Return \/ ReturnWhole
  /\ UNCHANGED <<wire, sse, acc, pending>>

Client ==
  /\ EmitLine \/ BodyEnds \/ \E n \in 1..Len(wire) : Receive(n)
  /\ UNCHANGED <<providerVars, exchangeVars>>

\* The exchange is over.
Rest == outcome # "receiving" /\ UNCHANGED vars

Next == Exchange \/ Provider \/ Client \/ Rest

Spec == Init /\ [][Next]_vars

-----------------------------------------------------------------------------
(* Properties                                                              *)

\* A call the way the provider means it.
Meant(i) == [index |-> i, named |-> TRUE, args |-> reply[i]]

\* A delta that begins with the letter the arguments begin with may be taken
\* for a snapshot of them, or for a part of what is there.
Repeats(i) == form = "delta" /\ \E k \in 2..Len(reply[i]) : reply[i][k] = reply[i][1]

\* The two cases in which the parser mistakes a call.
Mistaken(i) == i \in muted \/ Repeats(i)

\* Fragments are merged by their index, in the two forms providers use
\* (llm_client.cpp:373-374, 422-424).  Calls reach the engine when all are
\* sent, each once and in the order of their indices; and a call arrives with
\* its name and its whole arguments, except in the two cases in which the code
\* mistakes it: one of its chunks said null content, where get<std::string>()
\* throws and the chunk is dropped (399), or it came in deltas one of which
\* repeats the opening of the arguments (425-429).
CallsWhole ==
  pending # << >> =>
    /\ AllSent
    /\ \A j, k \in DOMAIN pending : j < k => pending[j].index < pending[k].index
    /\ \A i \in Calls : Mistaken(i) \/ Meant(i) \in ToSet(pending)

\* Text is delivered once, in order and without a gap, however the network
\* cuts the lines (449-464).  What returns without an error was delivered to
\* its end, except behind a connection whose break looked like the end of the
\* body, because nothing asks for the end of the reply (471-479): all its text,
\* and every call that is not mistaken, unless the chunk that finishes the
\* calls said null content and no [DONE] followed (385-393, 399, 434-440).
\* An answer that is an error delivers nothing and never returns (475-478).
NothingMissing ==
  /\ text = [k \in 1..Len(text) |-> k] /\ Len(text) <= spoken
  /\ outcome = "returned" /\ stage = "closed" =>
       /\ Len(text) = spoken
       /\ 0 \in muted \/ \A i \in Calls : Mistaken(i) \/ Meant(i) \in ToSet(pending)
  /\ status = 500 => outcome # "returned" /\ pending = << >> /\ text = << >>
=============================================================================
