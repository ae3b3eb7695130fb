--------------------------------- MODULE Tunnel ----------------------------------
(***************************************************************************)
(* One CONNECT from Hijack to the return of the handler                    *)
(* (internal/server/httpproxy/proxy.go:202-273): the client, the upstream  *)
(* (with the target behind it), and the two copiers between them.          *)
(* Requests has how the upstream is chosen; here a dial succeeds or fails  *)
(* as the environment likes.                                               *)
(*                                                                         *)
(* A byte is its number in the stream of its sender.  Each end, "client"   *)
(* or "upstream", is open, has ended what it sends (a half-close), or is   *)
(* gone; it takes up what it receives when it likes, and no more than      *)
(* Window bytes wait for it.                                               *)
(***************************************************************************)
EXTENDS Integers, Sequences

CONSTANTS
  Retries,   \* selection.retries
  MaxBytes,  \* bytes an end sends: a bound for TLC
  Window     \* bytes written to an end that it has not taken up

ASSUME TunnelAssumption ==
  /\ Retries \in Nat
  /\ MaxBytes \in Nat
  /\ Window \in Nat \ {0}

VARIABLES
  handler,  \* where handleConnect is
  attempt,  \* dials that failed
  peer,     \* end -> "open", "ended", "gone"
  sent,     \* end -> number of bytes it has sent
  arrived,  \* end -> the bytes from it that nobody has read
  open,     \* end -> the handler's connection to it is open
  got,      \* end -> what has been written to it, 0 the answer to CONNECT
  taken,    \* end -> how much of that it has taken up
  copier,   \* destination -> where the io.Copy to it is
  chunk,    \* destination -> what that has read and not written
  early     \* bytes of the client that had arrived when it was hijacked

ends == <<peer, sent, taken>>
vars == <<handler, attempt, ends, arrived, open, got, copier, chunk, early>>

Ends == {"client", "upstream"}
Source(to) == IF to = "client" THEN "upstream" ELSE "client"
Answer == 0

Both(x) == [e \in Ends |-> x]

Init ==
  /\ handler = "request" /\ attempt = 0
  /\ peer = Both("open") /\ sent = Both(0) /\ taken = Both(0)
  /\ arrived = Both(<<>>) /\ got = Both(<<>>)
  /\ open = [e \in Ends |-> e = "client"]
  /\ copier = Both("none") /\ chunk = Both(<<>>)
  /\ early = 0

-----------------------------------------------------------------------------
(* The ends, until the handler closes the connection to them: what they send *)
(* after that nobody reads.                                                  *)

Send(e) ==
  /\ open[e] /\ peer[e] = "open" /\ sent[e] < MaxBytes
  /\ sent' = [sent EXCEPT ![e] = @ + 1]
  /\ arrived' = [arrived EXCEPT ![e] = Append(@, sent[e] + 1)]
  /\ UNCHANGED <<handler, attempt, peer, taken, open, got, copier, chunk, early>>

End(e) ==
  /\ open[e] /\ peer[e] = "open"
  /\ peer' = [peer EXCEPT ![e] = "ended"]
  /\ UNCHANGED <<handler, attempt, sent, taken, arrived, open, got, copier, chunk, early>>

Leave(e) ==
  /\ open[e] /\ peer[e] # "gone"
  /\ peer' = [peer EXCEPT ![e] = "gone"]
  /\ UNCHANGED <<handler, attempt, sent, taken, arrived, open, got, copier, chunk, early>>

TakeUp(e) ==
  /\ peer[e] # "gone" /\ taken[e] < Len(got[e])
  /\ taken' = [taken EXCEPT ![e] = @ + 1]
  /\ UNCHANGED <<handler, attempt, peer, sent, arrived, open, got, copier, chunk, early>>

-----------------------------------------------------------------------------
(* handleConnect.                                                            *)

\* The reader that Hijack returns is dropped, and with it what the server had
\* read beyond the request.
Hijack ==
  /\ handler = "request"
  /\ \E lost \in 0 .. Len(arrived["client"]) :
       arrived' = [arrived EXCEPT !["client"] = SubSeq(@, lost + 1, Len(@))]
  /\ early' = sent["client"]
  /\ handler' = "trying"
  /\ UNCHANGED <<attempt, ends, open, got, copier, chunk>>

\* The deferred clientConn.Close.
Return ==
  /\ open' = [open EXCEPT !["client"] = FALSE]
  /\ handler' = "returned"

\* No upstream, or not the one that was asked for.  What http.Error writes
\* after Hijack reaches nobody.
Refuse ==
  /\ handler = "trying"
  /\ Return
  /\ UNCHANGED <<attempt, ends, arrived, got, copier, chunk, early>>

\* Mutant: one dial too many.
DialFails_OneMore ==
  /\ handler = "trying"
  /\ attempt' = attempt + 1
  /\ IF attempt > Retries THEN Return ELSE UNCHANGED <<handler, open>>
  /\ UNCHANGED <<ends, arrived, got, copier, chunk, early>>

DialFails ==
  /\ handler = "trying"
  /\ attempt' = attempt + 1
  /\ IF attempt = Retries THEN Return ELSE UNCHANGED <<handler, open>>
  /\ UNCHANGED <<ends, arrived, got, copier, chunk, early>>

\* Mutant: the copying begins before the answer.
DialSucceeds_Copies ==
  /\ handler = "trying"
  /\ open' = [open EXCEPT !["upstream"] = TRUE]
  /\ handler' = "answer"
  /\ copier' = Both("reading")
  /\ UNCHANGED <<attempt, ends, arrived, got, chunk, early>>

DialSucceeds ==
  /\ handler = "trying"
  /\ open' = [open EXCEPT !["upstream"] = TRUE]
  /\ handler' = "answer"
  /\ UNCHANGED <<attempt, ends, arrived, got, copier, chunk, early>>

\* An error of this write is ignored.
WriteAnswer ==
  /\ handler = "answer"
  /\ got' = IF peer["client"] = "gone" THEN got
            ELSE [got EXCEPT !["client"] = Append(@, Answer)]
  /\ copier' = Both("reading")
  /\ handler' = "copying"
  /\ UNCHANGED <<attempt, ends, arrived, open, chunk, early>>

\* Mutant: the upstream stays open.
FirstEnded_LeavesOpen ==
  /\ handler = "copying" /\ \E to \in Ends : copier[to] = "ended"
  /\ handler' = "closing"
  /\ UNCHANGED <<attempt, ends, arrived, open, got, copier, chunk, early>>

\* The first <-errc.
FirstEnded ==
  /\ handler = "copying" /\ \E to \in Ends : copier[to] = "ended"
  /\ open' = [open EXCEPT !["upstream"] = FALSE]
  /\ handler' = "closing"
  /\ UNCHANGED <<attempt, ends, arrived, got, copier, chunk, early>>

\* Mutant: it does not wait for the second.
SecondEnded_Early ==
  /\ handler = "closing"
  /\ Return
  /\ UNCHANGED <<attempt, ends, arrived, got, copier, chunk, early>>

SecondEnded ==
  /\ handler = "closing" /\ \A to \in Ends : copier[to] = "ended"
  /\ Return
  /\ UNCHANGED <<attempt, ends, arrived, got, copier, chunk, early>>

-----------------------------------------------------------------------------
(* io.Copy.                                                                  *)

\* A read returns some of what has arrived.
Read(to) ==
  /\ copier[to] = "reading" /\ open[Source(to)] /\ arrived[Source(to)] # <<>>
  /\ \E n \in 1 .. Len(arrived[Source(to)]) :
       /\ chunk' = [chunk EXCEPT ![to] = SubSeq(arrived[Source(to)], 1, n)]
       /\ arrived' = [arrived EXCEPT ![Source(to)] = SubSeq(@, n + 1, Len(@))]
  /\ copier' = [copier EXCEPT ![to] = "writing"]
  /\ UNCHANGED <<handler, attempt, ends, open, got, early>>

\* Mutant: the end of the stream is seen before what came ahead of it.
ReadEnds_TooSoon(to) ==
  /\ copier[to] = "reading"
  /\ ~ open[Source(to)] \/ peer[Source(to)] # "open"
  /\ copier' = [copier EXCEPT ![to] = "ended"]
  /\ UNCHANGED <<handler, attempt, ends, arrived, open, got, chunk, early>>

\* The end of the stream, a connection closed here, or a reset there, which
\* drops what was not read.
ReadEnds(to) ==
  /\ copier[to] = "reading"
  /\ \/ ~ open[Source(to)]
     \/ peer[Source(to)] = "ended" /\ arrived[Source(to)] = <<>>
     \/ peer[Source(to)] = "gone"
  /\ copier' = [copier EXCEPT ![to] = "ended"]
  /\ UNCHANGED <<handler, attempt, ends, arrived, open, got, chunk, early>>

Full(e) == Len(got[e]) - taken[e] >= Window

Write(to) ==
  /\ copier[to] = "writing" /\ open[to] /\ peer[to] # "gone" /\ ~ Full(to)
  /\ got' = [got EXCEPT ![to] = Append(@, Head(chunk[to]))]
  /\ chunk' = [chunk EXCEPT ![to] = Tail(@)]
  /\ copier' = IF Tail(chunk[to]) = <<>> THEN [copier EXCEPT ![to] = "reading"] ELSE copier
  /\ UNCHANGED <<handler, attempt, ends, arrived, open, early>>

\* The kernel may still take what is written to an end that has gone.
WriteIsLost(to) ==
  /\ copier[to] = "writing" /\ open[to] /\ peer[to] = "gone"
  /\ chunk' = [chunk EXCEPT ![to] = <<>>]
  /\ copier' = [copier EXCEPT ![to] = "reading"]
  /\ UNCHANGED <<handler, attempt, ends, arrived, open, got, early>>

WriteFails(to) ==
  /\ copier[to] = "writing"
  /\ ~ open[to] \/ peer[to] = "gone"
  /\ chunk' = [chunk EXCEPT ![to] = <<>>]
  /\ copier' = [copier EXCEPT ![to] = "ended"]
  /\ UNCHANGED <<handler, attempt, ends, arrived, open, got, early>>

-----------------------------------------------------------------------------
Handler ==
  Hijack \/ Refuse \/ DialFails \/ DialSucceeds \/ WriteAnswer \/ FirstEnded \/ SecondEnded

Copy(to) == Read(to) \/ ReadEnds(to) \/ Write(to) \/ WriteIsLost(to) \/ WriteFails(to)

Next ==
  \/ Handler
  \/ \E e \in Ends : Copy(e) \/ Send(e) \/ End(e) \/ Leave(e) \/ TakeUp(e)

\* The goroutines run; the ends do what they like.
Spec == Init /\ [][Next]_vars /\ WF_vars(Handler) /\ \A to \in Ends : WF_vars(Copy(to))

-----------------------------------------------------------------------------
(* Properties.                                                               *)

TypeOK ==
  /\ handler \in {"request", "trying", "answer", "copying", "closing", "returned"}
  /\ attempt \in 0 .. Retries + 1
  /\ \A e \in Ends :
       /\ peer[e] \in {"open", "ended", "gone"}
       /\ sent[e] \in 0 .. MaxBytes /\ taken[e] \in 0 .. Len(got[e])
       /\ Len(got[e]) - taken[e] <= Window
       /\ copier[e] \in {"none", "reading", "writing", "ended"}
       /\ chunk[e] # <<>> <=> copier[e] = "writing"

Run(first, n) == [i \in 1 .. n |-> first + i - 1]

(* The client reads the answer and then the upstream's bytes, each once and  *)
(* in order; the upstream reads the client's, without a gap, and at the      *)
(* latest from the first one that arrived after the hijack: those before it  *)
(* may be lost, because the reader that Hijack returns is dropped            *)
(* (proxy.go:202, 253-263).                                                  *)
Relayed ==
  /\ got["client"] = Run(Answer, Len(got["client"]))
  /\ \E first \in 1 .. early + 1 : got["upstream"] = Run(first, Len(got["upstream"]))

(* When the handler has returned, neither connection is open and neither     *)
(* copier runs (proxy.go:207, 265-267).                                      *)
NothingLeftOpen ==
  handler = "returned" => \A e \in Ends : ~ open[e] /\ copier[e] \in {"none", "ended"}

(* All an upstream has sent before it ended reaches a client that has not    *)
(* ended its own side; one that has may get less, because the end of the     *)
(* first copy closes the upstream (proxy.go:265-266).                        *)
Untruncated ==
  handler = "returned" /\ peer["upstream"] = "ended" /\ peer["client"] = "open"
    => got["client"] = Run(Answer, sent["upstream"] + 1)

\* The upstream takes up nothing, so that the copier to it waits.
Stalled == copier["upstream"] = "writing" /\ open["upstream"] /\ Full("upstream")

(* When the client goes the handler returns and lets go of the upstream      *)
(* (proxy.go:265-267), unless the copier that would notice waits for the     *)
(* upstream to take something up: there is no deadline on that write.        *)
TunnelEnds ==
  [](peer["client"] = "gone" /\ handler \in {"answer", "copying", "closing"}
       => <>(handler = "returned" \/ []Stalled))

=============================================================================
