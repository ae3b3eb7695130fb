------------------------------ MODULE TunnelProofs -------------------------------
(***************************************************************************)
(* One CONNECT, for any number of retries, any window and any number of    *)
(* bytes: the bytes arrive in order and none is lost, none is kept back    *)
(* from a client that listens, and nothing stays open.                     *)
(*                                                                         *)
(* The bytes of a sender that a copier has read, that it is about to write *)
(* and that it has written are runs of numbers, each beginning where the   *)
(* one before it ends.  Where they meet is arithmetic on their lengths.    *)
(***************************************************************************)
EXTENDS Tunnel, SequenceTheorems, TLAPS

ShapeOK ==
  /\ peer \in [Ends -> {"open", "ended", "gone"}]
  /\ sent \in [Ends -> 0 .. MaxBytes]
  /\ taken \in [Ends -> Nat]
  /\ arrived \in [Ends -> Seq(Nat)]
  /\ open \in [Ends -> BOOLEAN]
  /\ got \in [Ends -> Seq(Nat)]
  /\ copier \in [Ends -> {"none", "reading", "writing", "ended"}]
  /\ chunk \in [Ends -> Seq(Nat)]
  /\ early \in Nat

-----------------------------------------------------------------------------
(* Where the handler is, and what it has open and running.                   *)

Idle == \A e \in Ends : copier[e] = "none"

ControlInv ==
  /\ handler # "returned" => attempt <= Retries
  /\ open["client"] <=> handler # "returned"
  /\ open["upstream"] <=> handler \in {"answer", "copying"}
  /\ handler \in {"request", "trying", "answer"} => Idle
  /\ handler \in {"copying", "closing"} => \A e \in Ends : copier[e] # "none"
  /\ handler = "returned" => Idle \/ \A e \in Ends : copier[e] = "ended"
  /\ Idle /\ handler # "answer" => peer["upstream"] = "open"

\* What nobody has read or written yet.
IdleInv ==
  Idle =>
    /\ \A e \in Ends : got[e] = <<>>
    /\ Len(arrived["upstream"]) = sent["upstream"]
    /\ sent["client"] - Len(arrived["client"]) <= early

-----------------------------------------------------------------------------
(* The bytes.                                                                *)

\* Bytes to this end that its copier has read, and those before its chunk.
ReadTo(to) == sent[Source(to)] - Len(arrived[Source(to)])
Behind(to) == ReadTo(to) - Len(chunk[to])

Ordered(to) ==
  /\ ReadTo(to) >= 0 /\ Behind(to) >= 0
  /\ \A i \in DOMAIN arrived[Source(to)] : arrived[Source(to)][i] = ReadTo(to) + i
  /\ \A i \in DOMAIN chunk[to] : chunk[to][i] = Behind(to) + i

BytesInv == \A to \in Ends : Ordered(to)

\* Where what is written to an end may begin.
Firsts(to) == IF to = "client" THEN {Answer} ELSE 1 .. early + 1

Copies(to) == copier[to] \in {"reading", "writing"} /\ peer[to] # "gone"

\* What was written is a run; while it is copied the chunk follows on it.
Follows(to, first) ==
  /\ \A i \in DOMAIN got[to] : got[to][i] = first + i - 1
  /\ Copies(to) => first + Len(got[to]) = Behind(to) + 1

Relays(to) == \E first \in Firsts(to) : Follows(to, first)

RelayInv == \A to \in Ends : Relays(to)

-----------------------------------------------------------------------------
(* While the client listens and the upstream is there, it is the upstream's  *)
(* end that ends the first copy, and with all its bytes written.             *)
ListensInv ==
  peer["client"] = "open" /\ peer["upstream"] # "gone" =>
    /\ handler = "copying" => copier["upstream"] # "ended"
    /\ handler = "closing" => copier["client"] = "ended"
    /\ copier["client"] = "ended" =>
         peer["upstream"] = "ended" /\ Len(got["client"]) = sent["upstream"] + 1

TunnelInv ==
  /\ TypeOK /\ ShapeOK /\ ControlInv /\ IdleInv /\ BytesInv /\ RelayInv /\ ListensInv

-----------------------------------------------------------------------------
(* Pieces of what has arrived.                                               *)

LEMMA Cut ==
  ASSUME NEW s \in Seq(Nat), NEW n, n \in 0 .. Len(s)
  PROVE  /\ SubSeq(s, 1, n) \in Seq(Nat) /\ Len(SubSeq(s, 1, n)) = n
         /\ \A i \in 1 .. n : SubSeq(s, 1, n)[i] = s[i]
         /\ SubSeq(s, n + 1, Len(s)) \in Seq(Nat)
         /\ Len(SubSeq(s, n + 1, Len(s))) = Len(s) - n
         /\ \A i \in 1 .. Len(s) - n : SubSeq(s, n + 1, Len(s))[i] = s[n + i]
<1>1. Len(s) \in Nat
  OBVIOUS
<1>2. /\ SubSeq(s, 1, n) \in Seq(Nat) /\ Len(SubSeq(s, 1, n)) = n
      /\ \A i \in 1 .. n : SubSeq(s, 1, n)[i] = s[i]
  BY <1>1, SubSeqProperties
<1>3. /\ SubSeq(s, n + 1, Len(s)) \in Seq(Nat)
      /\ Len(SubSeq(s, n + 1, Len(s))) = Len(s) - n
      /\ \A i \in 1 .. Len(s) - n : SubSeq(s, n + 1, Len(s))[i] = s[n + i]
  BY <1>1, SubSeqProperties
<1>4. QED
  BY <1>2, <1>3

LEMMA ShapeStep ==
  ASSUME TypeOK, ShapeOK, [Next]_vars
  PROVE  ShapeOK'
<1> USE DEF ShapeOK, ends
<1>1. CASE Hijack
  <2>1. PICK lost \in 0 .. Len(arrived["client"]) :
          arrived' = [arrived EXCEPT !["client"] = SubSeq(@, lost + 1, Len(@))]
    BY <1>1 DEF Hijack
  <2>2. arrived' \in [Ends -> Seq(Nat)]
    BY <2>1, Cut DEF Ends
  <2>3. early' \in Nat
    BY <1>1, TunnelAssumption DEF Hijack, Ends
  <2>4. QED
    BY <1>1, <2>2, <2>3 DEF Hijack
<1>2. CASE Refuse \/ DialFails \/ SecondEnded
  BY <1>2 DEF Refuse, DialFails, SecondEnded, Return
<1>3. CASE DialSucceeds \/ FirstEnded
  BY <1>3 DEF DialSucceeds, FirstEnded
<1>4. CASE WriteAnswer
  <2>1. got' \in [Ends -> Seq(Nat)]
    BY <1>4, AppendProperties DEF WriteAnswer, Answer, Ends
  <2>2. copier' \in [Ends -> {"none", "reading", "writing", "ended"}]
    BY <1>4 DEF WriteAnswer, Both
  <2>3. QED
    BY <1>4, <2>1, <2>2 DEF WriteAnswer
<1>5. ASSUME NEW e \in Ends, Read(e) PROVE ShapeOK'
  <2>1. Source(e) \in Ends
    BY DEF Source, Ends
  <2>2. PICK n \in 1 .. Len(arrived[Source(e)]) :
          /\ chunk' = [chunk EXCEPT ![e] = SubSeq(arrived[Source(e)], 1, n)]
          /\ arrived' = [arrived EXCEPT ![Source(e)] = SubSeq(@, n + 1, Len(@))]
    BY <1>5 DEF Read
  <2>3. arrived' \in [Ends -> Seq(Nat)] /\ chunk' \in [Ends -> Seq(Nat)]
    <3>1. /\ n \in 0 .. Len(arrived[Source(e)])
          /\ arrived[Source(e)] \in Seq(Nat)
      BY <2>1
    <3>2. /\ SubSeq(arrived[Source(e)], 1, n) \in Seq(Nat)
          /\ SubSeq(arrived[Source(e)], n + 1, Len(arrived[Source(e)])) \in Seq(Nat)
      BY <3>1, Cut
    <3>3. QED
      BY <2>1, <2>2, <3>2
  <2>4. QED
    BY <1>5, <2>3 DEF Read
<1>6. ASSUME NEW e \in Ends, Write(e) PROVE ShapeOK'
  <2>1. Head(chunk[e]) \in Nat /\ Tail(chunk[e]) \in Seq(Nat)
    <3>1. chunk[e] \in Seq(Nat) /\ chunk[e] # <<>>
      BY <1>6 DEF Write, TypeOK
    <3>2. QED
      BY <3>1, HeadTailProperties
  <2>2. got' \in [Ends -> Seq(Nat)] /\ chunk' \in [Ends -> Seq(Nat)]
    BY <1>6, <2>1, AppendProperties DEF Write
  <2>3. QED
    BY <1>6, <2>2 DEF Write
<1>7. ASSUME NEW e \in Ends, ReadEnds(e) \/ WriteIsLost(e) \/ WriteFails(e) PROVE ShapeOK'
  <2>1. CASE ReadEnds(e)
    BY <2>1 DEF ReadEnds
  <2>2. CASE WriteIsLost(e) \/ WriteFails(e)
    <3>1. chunk' = [chunk EXCEPT ![e] = <<>>] /\ <<>> \in Seq(Nat)
      BY <2>2, EmptySeq DEF WriteIsLost, WriteFails
    <3>2. chunk' \in [Ends -> Seq(Nat)]
      BY <3>1
    <3>3. copier' \in [Ends -> {"none", "reading", "writing", "ended"}]
      BY <2>2 DEF WriteIsLost, WriteFails
    <3>4. QED
      BY <2>2, <3>2, <3>3 DEF WriteIsLost, WriteFails
  <2>3. QED
    BY <1>7, <2>1, <2>2
<1>8. ASSUME NEW e \in Ends, Send(e) PROVE ShapeOK'
  <2>1. sent' \in [Ends -> 0 .. MaxBytes] /\ sent[e] + 1 \in Nat
    BY <1>8, TunnelAssumption DEF Send
  <2>2. arrived' \in [Ends -> Seq(Nat)]
    BY <1>8, <2>1, AppendProperties DEF Send
  <2>3. QED
    BY <1>8, <2>1, <2>2 DEF Send
<1>9. ASSUME NEW e \in Ends, End(e) \/ Leave(e) PROVE ShapeOK'
  BY <1>9 DEF End, Leave
<1>10. ASSUME NEW e \in Ends, TakeUp(e) PROVE ShapeOK'
  <2>1. taken' = [taken EXCEPT ![e] = taken[e] + 1]
    BY <1>10 DEF TakeUp
  <2>2. taken' \in [Ends -> Nat]
    BY <2>1
  <2>3. QED
    BY <1>10, <2>2 DEF TakeUp
<1>11. CASE UNCHANGED vars
  BY <1>11 DEF vars
<1>12. QED
  BY <1>1, <1>2, <1>3, <1>4, <1>5, <1>6, <1>7, <1>8, <1>9, <1>10, <1>11 DEF Next, Handler, Copy

(* What a copier leaves alone.                                               *)
LEMMA CopyFrame ==
  ASSUME ShapeOK, NEW to \in Ends, Copy(to)
  PROVE  /\ UNCHANGED <<handler, attempt, open, peer, sent, taken, early>>
         /\ copier[to] \in {"reading", "writing"}
         /\ copier'[to] \in {"reading", "writing", "ended"}
         /\ \A e \in Ends :
              e # to => UNCHANGED <<copier[e], chunk[e], got[e], arrived[Source(e)]>>
<1>1. \A e \in Ends : e # to => Source(e) # Source(to) /\ Source(e) \in Ends
  BY DEF Source, Ends
<1>2. CASE Read(to)
  BY <1>1, <1>2 DEF Read, ShapeOK, ends
<1>3. CASE ReadEnds(to)
  BY <1>3 DEF ReadEnds, ShapeOK, ends
<1>4. CASE Write(to)
  BY <1>4 DEF Write, ShapeOK, ends
<1>5. CASE WriteIsLost(to)
  BY <1>5 DEF WriteIsLost, ShapeOK, ends
<1>6. CASE WriteFails(to)
  BY <1>6 DEF WriteFails, ShapeOK, ends
<1>7. QED
  BY <1>2, <1>3, <1>4, <1>5, <1>6 DEF Copy

LEMMA ControlStep ==
  ASSUME TypeOK, ShapeOK, ControlInv, [Next]_vars
  PROVE  ControlInv'
<1> USE DEF ShapeOK, ControlInv, Idle, Ends
<1>1. CASE UNCHANGED <<handler, attempt, open, copier>> /\ (peer' = peer \/ open["upstream"])
  BY <1>1
<1>2. CASE Hijack
  BY <1>2 DEF Hijack, ends
<1>3. CASE Refuse \/ DialFails
  <2>1. CASE Refuse
    BY <2>1 DEF Refuse, Return, ends
  <2>2. CASE DialFails
    BY <2>2, TunnelAssumption, SMTT(30) DEF DialFails, Return, ends, TypeOK
  <2>3. QED
    BY <1>3, <2>1, <2>2
<1>4. CASE DialSucceeds \/ WriteAnswer
  BY <1>4 DEF DialSucceeds, WriteAnswer, Both, ends
<1>5. CASE FirstEnded \/ SecondEnded
  BY <1>5 DEF FirstEnded, SecondEnded, Return, ends
<1>6. ASSUME NEW e \in Ends, Copy(e) PROVE ControlInv'
  <2>1. /\ UNCHANGED <<handler, attempt, open, peer>> /\ copier[e] \in {"reading", "writing"}
        /\ copier'[e] \in {"reading", "writing", "ended"}
        /\ \A q \in Ends : q # e => copier'[q] = copier[q]
    BY <1>6, CopyFrame
  <2>2. handler \in {"copying", "closing"}
    BY <2>1 DEF TypeOK
  <2>3. QED
    BY <2>1, <2>2
<1>7. ASSUME NEW e \in Ends, Send(e) \/ End(e) \/ Leave(e) \/ TakeUp(e)
      PROVE  ControlInv'
  <2>1. UNCHANGED <<handler, attempt, open, copier>>
    BY <1>7 DEF Send, End, Leave, TakeUp
  <2>2. peer'["upstream"] = peer["upstream"] \/ open["upstream"]
    BY <1>7 DEF Send, End, Leave, TakeUp
  <2>3. QED
    BY <2>1, <2>2
<1>8. CASE UNCHANGED vars
  BY <1>8 DEF vars, ends
<1>9. QED
  BY <1>2, <1>3, <1>4, <1>5, <1>6, <1>7, <1>8 DEF Next, Handler

-----------------------------------------------------------------------------
(* What each action does to the bytes.                                       *)

LEMMA SendBytes ==
  ASSUME ShapeOK, NEW e \in Ends, Send(e)
  PROVE  /\ UNCHANGED <<handler, copier, chunk, got, early, peer, open>>
         /\ peer[e] = "open" /\ open[e]
         /\ sent'[e] = sent[e] + 1 /\ Len(arrived'[e]) = Len(arrived[e]) + 1
         /\ arrived'[e][Len(arrived[e]) + 1] = sent[e] + 1
         /\ \A i \in 1 .. Len(arrived[e]) : arrived'[e][i] = arrived[e][i]
         /\ \A q \in Ends : q # e => UNCHANGED <<sent[q], arrived[q]>>
<1>1. arrived[e] \in Seq(Nat) /\ sent[e] + 1 \in Nat
  BY TunnelAssumption DEF ShapeOK
<1>2. arrived'[e] = Append(arrived[e], sent[e] + 1)
  BY DEF Send, ShapeOK
<1>3. QED
  BY <1>1, <1>2, AppendProperties DEF Send, ShapeOK

LEMMA ReadBytes ==
  ASSUME TypeOK, ShapeOK, NEW to \in Ends, Read(to)
  PROVE  \E n \in 1 .. Len(arrived[Source(to)]) :
           /\ copier[to] = "reading" /\ copier'[to] = "writing"
           /\ chunk[to] = <<>> /\ Len(chunk'[to]) = n
           /\ \A i \in 1 .. n : chunk'[to][i] = arrived[Source(to)][i]
           /\ Len(arrived'[Source(to)]) = Len(arrived[Source(to)]) - n
           /\ \A i \in 1 .. Len(arrived[Source(to)]) - n :
                arrived'[Source(to)][i] = arrived[Source(to)][n + i]
           /\ got' = got
<1> DEFINE s == Source(to)
<1>1. s \in Ends /\ arrived[s] \in Seq(Nat)
  BY DEF Source, Ends, ShapeOK
<1>2. PICK n \in 1 .. Len(arrived[s]) :
        /\ chunk' = [chunk EXCEPT ![to] = SubSeq(arrived[s], 1, n)]
        /\ arrived' = [arrived EXCEPT ![s] = SubSeq(@, n + 1, Len(@))]
  BY DEF Read
<1>3. /\ copier[to] = "reading" /\ copier'[to] = "writing" /\ got' = got
      /\ chunk[to] = <<>>
  BY DEF Read, TypeOK, ShapeOK
<1>4. /\ chunk'[to] = SubSeq(arrived[s], 1, n)
      /\ arrived'[s] = SubSeq(arrived[s], n + 1, Len(arrived[s]))
      /\ n \in 0 .. Len(arrived[s])
  BY <1>1, <1>2 DEF ShapeOK
<1> HIDE DEF s
<1>5. /\ Len(chunk'[to]) = n /\ \A i \in 1 .. n : chunk'[to][i] = arrived[s][i]
      /\ Len(arrived'[s]) = Len(arrived[s]) - n
      /\ \A i \in 1 .. Len(arrived[s]) - n : arrived'[s][i] = arrived[s][n + i]
  BY <1>1, <1>4, Cut
<1>6. QED
  BY <1>3, <1>5 DEF s

LEMMA WriteBytes ==
  ASSUME TypeOK, ShapeOK, NEW to \in Ends, Write(to)
  PROVE  /\ copier[to] = "writing" /\ copier'[to] \in {"reading", "writing"}
         /\ peer[to] # "gone" /\ Len(got[to]) - taken[to] < Window
         /\ Len(chunk[to]) \in Nat \ {0} /\ Len(chunk'[to]) = Len(chunk[to]) - 1
         /\ \A i \in 1 .. Len(chunk[to]) - 1 : chunk'[to][i] = chunk[to][i + 1]
         /\ chunk'[to] # <<>> <=> copier'[to] = "writing"
         /\ Len(got'[to]) = Len(got[to]) + 1
         /\ got'[to][Len(got[to]) + 1] = chunk[to][1]
         /\ \A i \in 1 .. Len(got[to]) : got'[to][i] = got[to][i]
         /\ arrived' = arrived
<1>1. chunk[to] \in Seq(Nat) /\ chunk[to] # <<>> /\ got[to] \in Seq(Nat)
  BY DEF Write, TypeOK, ShapeOK
<1>2. /\ Head(chunk[to]) = chunk[to][1] /\ Head(chunk[to]) \in Nat
      /\ Tail(chunk[to]) \in Seq(Nat) /\ Len(Tail(chunk[to])) = Len(chunk[to]) - 1
      /\ Len(chunk[to]) \in Nat \ {0}
      /\ \A i \in 1 .. Len(chunk[to]) - 1 : Tail(chunk[to])[i] = chunk[to][i + 1]
  BY <1>1, HeadTailProperties, EmptySeq
<1>3. /\ chunk'[to] = Tail(chunk[to]) /\ got'[to] = Append(got[to], Head(chunk[to]))
      /\ copier[to] = "writing" /\ peer[to] # "gone" /\ ~ Full(to) /\ arrived' = arrived
  BY DEF Write, ShapeOK
<1>4. /\ Len(got'[to]) = Len(got[to]) + 1
      /\ got'[to][Len(got[to]) + 1] = chunk[to][1]
      /\ \A i \in 1 .. Len(got[to]) : got'[to][i] = got[to][i]
  BY <1>1, <1>2, <1>3, AppendProperties
<1>5. /\ copier'[to] \in {"reading", "writing"}
      /\ chunk'[to] # <<>> <=> copier'[to] = "writing"
  BY <1>3 DEF Write, ShapeOK
<1>6. Len(got[to]) - taken[to] < Window
  BY <1>1, <1>3, TunnelAssumption DEF Full, ShapeOK
<1>7. QED
  BY <1>2, <1>3, <1>4, <1>5, <1>6

\* A copier that stops, or loses what it writes.
LEMMA DropBytes ==
  ASSUME TypeOK, ShapeOK, NEW to \in Ends, ReadEnds(to) \/ WriteIsLost(to) \/ WriteFails(to)
  PROVE  /\ arrived' = arrived /\ got' = got
         /\ chunk'[to] = <<>> /\ copier'[to] \in {"reading", "ended"}
         /\ ~ Copies(to)'
<1>1. CASE ReadEnds(to)
  BY <1>1 DEF ReadEnds, TypeOK, ShapeOK, Copies
<1>2. CASE WriteIsLost(to)
  BY <1>2 DEF WriteIsLost, ShapeOK, Copies, ends
<1>3. CASE WriteFails(to)
  BY <1>3 DEF WriteFails, ShapeOK, Copies
<1>4. QED
  BY <1>1, <1>2, <1>3

LEMMA HijackBytes ==
  ASSUME ShapeOK, ControlInv, Hijack
  PROVE  \E lost \in 0 .. Len(arrived["client"]) :
           /\ Len(arrived'["client"]) = Len(arrived["client"]) - lost
           /\ \A i \in 1 .. Len(arrived["client"]) - lost :
                arrived'["client"][i] = arrived["client"][lost + i]
           /\ arrived'["upstream"] = arrived["upstream"]
           /\ early' = sent["client"] /\ Idle
           /\ UNCHANGED <<sent, got, chunk, copier, peer>>
<1>1. PICK lost \in 0 .. Len(arrived["client"]) :
        arrived' = [arrived EXCEPT !["client"] = SubSeq(@, lost + 1, Len(@))]
  BY DEF Hijack
<1>2. /\ arrived'["client"] = SubSeq(arrived["client"], lost + 1, Len(arrived["client"]))
      /\ arrived'["upstream"] = arrived["upstream"]
      /\ arrived["client"] \in Seq(Nat)
  BY <1>1 DEF ShapeOK, Ends
<1>3. early' = sent["client"] /\ Idle /\ UNCHANGED <<sent, got, chunk, copier, peer>>
  BY DEF Hijack, ControlInv, ends
<1>4. /\ Len(arrived'["client"]) = Len(arrived["client"]) - lost
      /\ \A i \in 1 .. Len(arrived["client"]) - lost :
           arrived'["client"][i] = arrived["client"][lost + i]
  BY <1>2, Cut
<1>5. QED
  BY <1>2, <1>3, <1>4

-----------------------------------------------------------------------------
(* The invariant, step by step.                                              *)

LEMMA Lengths ==
  ASSUME ShapeOK
  PROVE  \A e \in Ends :
           /\ Source(e) \in Ends /\ Source(Source(e)) = e
           /\ arrived[e] \in Seq(Nat) /\ chunk[e] \in Seq(Nat) /\ got[e] \in Seq(Nat)
           /\ Len(arrived[e]) \in Nat /\ Len(chunk[e]) \in Nat /\ Len(got[e]) \in Nat
           /\ DOMAIN arrived[e] = 1 .. Len(arrived[e])
           /\ DOMAIN chunk[e] = 1 .. Len(chunk[e])
           /\ DOMAIN got[e] = 1 .. Len(got[e])
           /\ sent[e] \in Nat
BY TunnelAssumption DEF ShapeOK, Source, Ends

LEMMA IdleStep ==
  ASSUME TypeOK, ShapeOK, ControlInv, IdleInv, [Next]_vars
  PROVE  IdleInv'
<1>1. CASE UNCHANGED <<copier, got, arrived, sent, early>>
  BY <1>1 DEF IdleInv, Idle
<1>2. CASE Hijack
  <2>1. PICK lost \in 0 .. Len(arrived["client"]) :
          /\ Len(arrived'["client"]) = Len(arrived["client"]) - lost
          /\ arrived'["upstream"] = arrived["upstream"]
          /\ early' = sent["client"] /\ Idle
          /\ UNCHANGED <<sent, got>>
    BY <1>2, HijackBytes
  <2>2. Len(arrived["client"]) \in Nat /\ sent["client"] \in Nat
    BY Lengths DEF Ends
  <2>3. sent'["client"] - Len(arrived'["client"]) <= early'
    BY <2>1, <2>2
  <2>4. QED
    BY <2>1, <2>3 DEF IdleInv
<1>3. CASE WriteAnswer
  <2>1. ~ Idle'
    BY <1>3 DEF WriteAnswer, Both, Idle, Ends
  <2>2. QED
    BY <2>1 DEF IdleInv
<1>4. ASSUME NEW to \in Ends, Copy(to) PROVE IdleInv'
  <2>1. ~ Idle'
    BY <1>4, CopyFrame DEF Idle
  <2>2. QED
    BY <2>1 DEF IdleInv
<1>5. ASSUME NEW e \in Ends, Send(e) PROVE IdleInv'
  <2>1. /\ UNCHANGED <<copier, got, early>>
        /\ sent'[e] = sent[e] + 1 /\ Len(arrived'[e]) = Len(arrived[e]) + 1
        /\ \A q \in Ends : q # e => UNCHANGED <<sent[q], arrived[q]>>
    BY <1>5, SendBytes
  <2>2. /\ Len(arrived[e]) \in Nat /\ sent[e] \in Nat
        /\ "client" \in Ends /\ "upstream" \in Ends
    BY Lengths DEF Ends
  <2>3. sent'[e] - Len(arrived'[e]) = sent[e] - Len(arrived[e])
    BY <2>1, <2>2, SMTT(30)
  <2>4. CASE e = "client"
    BY <2>1, <2>2, <2>3, <2>4 DEF IdleInv, Idle
  <2>5. CASE e = "upstream"
    BY <2>1, <2>2, <2>5 DEF IdleInv, Idle
  <2>6. QED
    BY <2>4, <2>5 DEF Ends
<1>6. CASE Refuse \/ DialFails \/ DialSucceeds \/ FirstEnded \/ SecondEnded
  BY <1>1, <1>6 DEF Refuse, DialFails, DialSucceeds, FirstEnded, SecondEnded, ends
<1>7. ASSUME NEW e \in Ends, End(e) \/ Leave(e) \/ TakeUp(e) PROVE IdleInv'
  BY <1>1, <1>7 DEF End, Leave, TakeUp
<1>8. CASE UNCHANGED vars
  BY <1>1, <1>8 DEF vars, ends
<1>9. QED
  BY <1>2, <1>3, <1>4, <1>5, <1>6, <1>7, <1>8 DEF Next, Handler

LEMMA OrderedRead ==
  ASSUME TypeOK, ShapeOK, NEW to \in Ends, Ordered(to), ShapeOK', Read(to)
  PROVE  /\ Ordered(to)' /\ Behind(to)' = Behind(to)
<1>1. PICK n \in 1 .. Len(arrived[Source(to)]) :
        /\ chunk[to] = <<>> /\ Len(chunk'[to]) = n
        /\ \A i \in 1 .. n : chunk'[to][i] = arrived[Source(to)][i]
        /\ Len(arrived'[Source(to)]) = Len(arrived[Source(to)]) - n
        /\ \A i \in 1 .. Len(arrived[Source(to)]) - n :
             arrived'[Source(to)][i] = arrived[Source(to)][n + i]
  BY ReadBytes
<1>2. sent' = sent
  BY CopyFrame DEF Copy
<1> DEFINE s == Source(to)
<1>3. /\ s \in Ends /\ sent[s] \in Nat /\ Len(arrived[s]) \in Nat /\ Len(chunk[to]) = 0
      /\ n \in Nat /\ DOMAIN arrived[s] = 1 .. Len(arrived[s])
      /\ DOMAIN arrived'[s] = 1 .. Len(arrived[s]) - n /\ DOMAIN chunk'[to] = 1 .. n
  <2>1. s \in Ends /\ arrived'[s] \in Seq(Nat) /\ chunk'[to] \in Seq(Nat)
    BY Lengths DEF ShapeOK
  <2>2. DOMAIN arrived'[s] = 1 .. Len(arrived'[s]) /\ DOMAIN chunk'[to] = 1 .. Len(chunk'[to])
    BY <2>1
  <2>3. QED
    BY <1>1, <2>1, <2>2, Lengths
<1> HIDE DEF s
<1>4. ReadTo(to)' = ReadTo(to) + n /\ Behind(to)' = Behind(to) /\ Behind(to) = ReadTo(to)
      /\ ReadTo(to) \in Int
  <2>1. ReadTo(to) = sent[s] - Len(arrived[s]) /\ ReadTo(to)' = sent[s] - Len(arrived'[s])
    BY <1>2 DEF ReadTo, s
  <2>2. Len(arrived'[s]) = Len(arrived[s]) - n
    BY <1>1 DEF s
  <2>3. ReadTo(to)' = ReadTo(to) + n /\ ReadTo(to) \in Int
    BY <1>3, <2>1, <2>2
  <2>4. Behind(to) = ReadTo(to) - 0 /\ Behind(to)' = ReadTo(to)' - n
    BY <1>1, <1>3 DEF Behind
  <2>5. QED
    BY <1>3, <2>3, <2>4
<1>5. \A i \in 1 .. Len(arrived[s]) : arrived[s][i] = ReadTo(to) + i
  BY <1>3 DEF Ordered, s
<1>6. ASSUME NEW i \in DOMAIN arrived'[s] PROVE arrived'[s][i] = ReadTo(to) + n + i
  <2>1. i \in 1 .. Len(arrived[s]) - n /\ n + i \in 1 .. Len(arrived[s])
    BY <1>1, <1>3 DEF s
  <2>2. arrived'[s][i] = ReadTo(to) + (n + i)
    BY <1>1, <1>5, <2>1 DEF s
  <2>3. QED
    BY <1>4, <2>1, <2>2
<1>7. ASSUME NEW i \in DOMAIN chunk'[to] PROVE chunk'[to][i] = Behind(to) + i
  <2>1. i \in 1 .. n /\ i \in 1 .. Len(arrived[s])
    BY <1>1, <1>3 DEF s
  <2>2. QED
    BY <1>1, <1>4, <1>5, <2>1 DEF s
<1>8. QED
  BY <1>4, <1>6, <1>7 DEF Ordered, s

LEMMA OrderedWrite ==
  ASSUME TypeOK, ShapeOK, NEW to \in Ends, Ordered(to), ShapeOK', Write(to)
  PROVE  Ordered(to)' /\ Behind(to)' = Behind(to) + 1
<1>1. /\ Len(chunk[to]) \in Nat \ {0} /\ Len(chunk'[to]) = Len(chunk[to]) - 1
      /\ \A i \in 1 .. Len(chunk[to]) - 1 : chunk'[to][i] = chunk[to][i + 1]
      /\ arrived' = arrived /\ sent' = sent
  BY WriteBytes, CopyFrame DEF Copy
<1>2. ReadTo(to)' = ReadTo(to) /\ ReadTo(to) \in Int
  BY <1>1, Lengths DEF ReadTo
<1>3. Behind(to)' = Behind(to) + 1 /\ Behind(to) \in Int
  BY <1>1, <1>2 DEF Behind
<1>4. \A i \in 1 .. Len(chunk[to]) : chunk[to][i] = Behind(to) + i
  BY Lengths DEF Ordered
<1>5. ASSUME NEW i \in DOMAIN chunk'[to] PROVE chunk'[to][i] = Behind(to) + 1 + i
  <2>1. i \in 1 .. Len(chunk[to]) - 1 /\ i + 1 \in 1 .. Len(chunk[to])
    <3>1. chunk'[to] \in Seq(Nat)
      BY DEF ShapeOK
    <3>2. DOMAIN chunk'[to] = 1 .. Len(chunk[to]) - 1
      BY <1>1, <3>1
    <3>3. QED
      BY <1>1, <3>2
  <2>2. chunk'[to][i] = Behind(to) + (i + 1)
    BY <1>1, <1>4, <2>1
  <2>3. QED
    BY <1>3, <2>1, <2>2
<1>6. QED
  BY <1>1, <1>2, <1>3, <1>5 DEF Ordered

LEMMA OrderedStays ==
  ASSUME ShapeOK, NEW to \in Ends, Ordered(to),
         UNCHANGED <<sent[Source(to)], arrived[Source(to)]>>,
         chunk'[to] = chunk[to] \/ chunk'[to] = <<>>
  PROVE  Ordered(to)'
<1>1. ReadTo(to)' = ReadTo(to) /\ ReadTo(to) \in Int
  BY Lengths DEF ReadTo
<1>2. CASE chunk'[to] = chunk[to]
  BY <1>1, <1>2 DEF Ordered, Behind
<1>3. CASE chunk'[to] = <<>>
  <2>1. Behind(to)' = ReadTo(to) /\ DOMAIN chunk'[to] = {}
    BY <1>1, <1>3 DEF Behind
  <2>2. QED
    BY <1>1, <2>1 DEF Ordered
<1>4. QED
  BY <1>2, <1>3

LEMMA OrderedSend ==
  ASSUME ShapeOK, ShapeOK', NEW to \in Ends, Ordered(to), Send(Source(to))
  PROVE  Ordered(to)' /\ Behind(to)' = Behind(to)
<1> DEFINE s == Source(to)
<1>1. /\ chunk' = chunk /\ sent'[s] = sent[s] + 1 /\ Len(arrived'[s]) = Len(arrived[s]) + 1
      /\ arrived'[s][Len(arrived[s]) + 1] = sent[s] + 1
      /\ \A i \in 1 .. Len(arrived[s]) : arrived'[s][i] = arrived[s][i]
  BY Lengths, SendBytes
<1>2. /\ s \in Ends /\ sent[s] \in Nat /\ Len(arrived[s]) \in Nat /\ Len(chunk[to]) \in Nat
      /\ DOMAIN arrived[s] = 1 .. Len(arrived[s])
      /\ DOMAIN arrived'[s] = 1 .. Len(arrived[s]) + 1
  <2>1. s \in Ends /\ arrived'[s] \in Seq(Nat)
    BY Lengths DEF ShapeOK
  <2>2. DOMAIN arrived'[s] = 1 .. Len(arrived'[s])
    BY <2>1
  <2>3. QED
    BY <1>1, <2>1, <2>2, Lengths
<1> HIDE DEF s
<1>3. ReadTo(to)' = ReadTo(to) /\ ReadTo(to) \in Int /\ ReadTo(to) = sent[s] - Len(arrived[s])
  <2>1. ReadTo(to) = sent[s] - Len(arrived[s]) /\ ReadTo(to)' = sent'[s] - Len(arrived'[s])
    BY DEF ReadTo, s
  <2>2. QED
    BY <1>1, <1>2, <2>1, SMTT(30)
<1>4. Behind(to)' = Behind(to)
  BY <1>1, <1>3 DEF Behind
<1>5. ASSUME NEW i \in DOMAIN arrived'[s] PROVE arrived'[s][i] = ReadTo(to) + i
  <2>1. i \in 1 .. Len(arrived[s]) \/ i = Len(arrived[s]) + 1
    BY <1>1, <1>2
  <2>2. CASE i \in 1 .. Len(arrived[s])
    BY <1>1, <1>2, <2>2 DEF Ordered, s
  <2>3. CASE i = Len(arrived[s]) + 1
    BY <1>1, <1>2, <1>3, <2>3
  <2>4. QED
    BY <2>1, <2>2, <2>3
<1>6. QED
  BY <1>1, <1>3, <1>4, <1>5 DEF Ordered, s

LEMMA BytesStep ==
  ASSUME TypeOK, ShapeOK, ControlInv, BytesInv, ShapeOK', [Next]_vars
  PROVE  BytesInv'
<1> SUFFICES ASSUME NEW to \in Ends PROVE Ordered(to)'
  BY DEF BytesInv
<1>1. Ordered(to)
  BY DEF BytesInv
<1>2. CASE UNCHANGED <<arrived, chunk, sent>>
  BY <1>1, <1>2, OrderedStays
<1>3. CASE Hijack
  <2>1. PICK lost \in 0 .. Len(arrived["client"]) :
          /\ Len(arrived'["client"]) = Len(arrived["client"]) - lost
          /\ \A i \in 1 .. Len(arrived["client"]) - lost :
               arrived'["client"][i] = arrived["client"][lost + i]
          /\ arrived'["upstream"] = arrived["upstream"]
          /\ Idle
          /\ UNCHANGED <<sent, chunk>>
    BY <1>3, HijackBytes
  <2>2. CASE to = "client"
    BY <1>1, <2>1, <2>2, OrderedStays DEF Source
  <2>3. CASE to = "upstream"
    <3> DEFINE c == arrived["client"]
               d == arrived'["client"]
               read == sent["client"] - Len(c)
    <3>1. chunk[to] = <<>> /\ Source(to) = "client" /\ "client" \in Ends
      BY <2>1, <2>3 DEF Idle, TypeOK, Source, Ends
    <3>2. /\ Len(c) \in Nat /\ sent["client"] \in Nat /\ DOMAIN c = 1 .. Len(c)
          /\ DOMAIN d = 1 .. Len(c) - lost
      <4>1. d \in Seq(Nat)
        BY <3>1 DEF ShapeOK
      <4>2. DOMAIN d = 1 .. Len(d)
        BY <4>1
      <4>3. QED
        BY <2>1, <3>1, <4>2, Lengths
    <3>3. read \in Nat /\ \A i \in 1 .. Len(c) : c[i] = read + i
      BY <1>1, <3>1, <3>2 DEF Ordered, ReadTo
    <3> HIDE DEF c, d, read
    <3>4. ReadTo(to)' = read + lost
      <4>1. ReadTo(to)' = sent["client"] - (Len(c) - lost)
        BY <2>1, <3>1 DEF ReadTo, c
      <4>2. QED
        BY <3>2, <4>1 DEF read
    <3>5. Behind(to)' = ReadTo(to)' - 0 /\ DOMAIN chunk'[to] = {}
      BY <2>1, <3>1 DEF Behind
    <3>6. ASSUME NEW i \in DOMAIN d PROVE d[i] = read + lost + i
      <4>1. i \in 1 .. Len(c) - lost /\ lost + i \in 1 .. Len(c)
        BY <3>2, <2>1 DEF c
      <4>2. d[i] = read + (lost + i)
        BY <2>1, <3>3, <4>1 DEF c, d
      <4>3. QED
        BY <3>3, <4>1, <4>2
    <3>7. QED
      BY <3>1, <3>3, <3>4, <3>5, <3>6 DEF Ordered, d
  <2>4. QED
    BY <2>2, <2>3 DEF Ends
<1>4. CASE Refuse \/ DialFails \/ DialSucceeds \/ WriteAnswer \/ FirstEnded \/ SecondEnded
  <2>1. UNCHANGED <<arrived, chunk, sent>>
    BY <1>4 DEF Refuse, DialFails, DialSucceeds, WriteAnswer, FirstEnded, SecondEnded, ends
  <2>2. QED
    BY <1>2, <2>1
<1>5. ASSUME NEW e \in Ends, Copy(e) PROVE Ordered(to)'
  <2>1. CASE e # to
    <3>1. UNCHANGED <<chunk[to], arrived[Source(to)], sent>>
      BY <1>5, <2>1, CopyFrame
    <3>2. QED
      BY <1>1, <3>1, OrderedStays
  <2>2. CASE e = to /\ Read(to)
    BY <1>1, <2>2, OrderedRead
  <2>3. CASE e = to /\ Write(to)
    BY <1>1, <2>3, OrderedWrite
  <2>4. CASE e = to /\ (ReadEnds(to) \/ WriteIsLost(to) \/ WriteFails(to))
    <3>1. arrived' = arrived /\ chunk'[to] = <<>> /\ sent' = sent
      BY <1>5, <2>4, DropBytes, CopyFrame
    <3>2. QED
      BY <1>1, <3>1, OrderedStays
  <2>5. QED
    BY <1>5, <2>1, <2>2, <2>3, <2>4 DEF Copy
<1>6. ASSUME NEW e \in Ends, Send(e) PROVE Ordered(to)'
  <2>1. CASE e = Source(to)
    BY <1>1, <1>6, <2>1, OrderedSend
  <2>2. CASE e # Source(to)
    <3>1. UNCHANGED <<chunk, arrived[Source(to)], sent[Source(to)]>>
      BY <1>6, <2>2, SendBytes, Lengths
    <3>2. QED
      BY <1>1, <3>1, OrderedStays
  <2>3. QED
    BY <2>1, <2>2
<1>7. ASSUME NEW e \in Ends, End(e) \/ Leave(e) \/ TakeUp(e) PROVE Ordered(to)'
  BY <1>2, <1>7 DEF End, Leave, TakeUp
<1>8. CASE UNCHANGED vars
  BY <1>2, <1>8 DEF vars, ends
<1>9. QED
  BY <1>3, <1>4, <1>5, <1>6, <1>7, <1>8 DEF Next, Handler

LEMMA RelaysStays ==
  ASSUME NEW to \in Ends, Relays(to), UNCHANGED <<got[to], early>>,
         Copies(to)' => Copies(to) /\ Behind(to)' = Behind(to)
  PROVE  Relays(to)'
<1>1. PICK first \in Firsts(to) : Follows(to, first)
  BY DEF Relays
<1>2. first \in Firsts(to)' /\ Follows(to, first)'
  BY <1>1 DEF Firsts, Follows
<1>3. QED
  BY <1>2 DEF Relays

\* Before the answer nothing is written, and it may begin anywhere.
LEMMA RelaysIdle ==
  ASSUME NEW to \in Ends, IdleInv', Idle', ShapeOK'
  PROVE  Relays(to)'
<1>1. DOMAIN got'[to] = {} /\ ~ Copies(to)'
  BY DEF IdleInv, Idle, Copies
<1>2. \A first : Follows(to, first)'
  BY <1>1 DEF Follows
<1>3. \E first : first \in Firsts(to)'
  <2>1. early' \in Nat
    BY DEF ShapeOK
  <2>2. \A k \in Nat : 1 \in 1 .. k + 1
    OBVIOUS
  <2>3. QED
    BY <2>1, <2>2 DEF Firsts
<1>4. QED
  BY <1>2, <1>3 DEF Relays

\* What is written next follows on what was written.
LEMMA RelaysWrite ==
  ASSUME TypeOK, ShapeOK, NEW to \in Ends, Ordered(to), Relays(to), ShapeOK', Write(to)
  PROVE  Relays(to)'
<1>1. PICK first \in Firsts(to) : Follows(to, first)
  BY DEF Relays
<1>2. /\ copier[to] = "writing" /\ peer[to] # "gone"
      /\ Len(chunk[to]) \in Nat \ {0}
      /\ Len(got'[to]) = Len(got[to]) + 1
      /\ got'[to][Len(got[to]) + 1] = chunk[to][1]
      /\ \A i \in 1 .. Len(got[to]) : got'[to][i] = got[to][i]
  BY WriteBytes
<1>3. first \in Nat /\ first \in Firsts(to)'
  <2>1. early' = early
    BY CopyFrame DEF Copy
  <2>2. QED
    BY <1>1, <2>1 DEF Firsts, Answer
<1>4. Len(got[to]) \in Nat /\ DOMAIN got[to] = 1 .. Len(got[to]) /\ Behind(to) \in Int
  BY Lengths DEF Behind, ReadTo
<1>5. first + Len(got[to]) = Behind(to) + 1 /\ Behind(to)' = Behind(to) + 1
  BY <1>1, <1>2, OrderedWrite DEF Follows, Copies
<1>6. chunk[to][1] = Behind(to) + 1
  BY <1>2, Lengths DEF Ordered
<1>7. DOMAIN got'[to] = 1 .. Len(got[to]) + 1
  <2>1. got'[to] \in Seq(Nat)
    BY DEF ShapeOK
  <2>2. QED
    BY <1>2, <2>1
<1>8. ASSUME NEW i \in DOMAIN got'[to] PROVE got'[to][i] = first + i - 1
  <2>1. i \in 1 .. Len(got[to]) \/ i = Len(got[to]) + 1
    BY <1>4, <1>7
  <2>2. CASE i \in 1 .. Len(got[to])
    BY <1>1, <1>2, <1>4, <2>2 DEF Follows
  <2>3. CASE i = Len(got[to]) + 1
    BY <1>2, <1>3, <1>4, <1>5, <1>6, <2>3
  <2>4. QED
    BY <2>1, <2>2, <2>3
<1>9. first + Len(got'[to]) = Behind(to)' + 1
  BY <1>2, <1>3, <1>4, <1>5
<1>10. Follows(to, first)'
  BY <1>8, <1>9 DEF Follows
<1>11. QED
  BY <1>3, <1>10 DEF Relays

\* The answer comes first; the upstream's stream begins with the first byte
\* that the hijack left.
LEMMA RelaysAnswer ==
  ASSUME TypeOK, ShapeOK, ControlInv, IdleInv, BytesInv, NEW to \in Ends, WriteAnswer
  PROVE  Relays(to)'
<1>1. /\ Idle /\ copier' = Both("reading") /\ UNCHANGED <<peer, sent, arrived, chunk, early>>
      /\ got' = IF peer["client"] = "gone" THEN got
                ELSE [got EXCEPT !["client"] = Append(@, Answer)]
  BY DEF WriteAnswer, ControlInv, ends
<1>2. /\ \A e \in Ends : got[e] = <<>> /\ chunk[e] = <<>> /\ Len(chunk[e]) = 0
      /\ Len(arrived["upstream"]) = sent["upstream"]
      /\ sent["client"] - Len(arrived["client"]) <= early
  BY <1>1 DEF IdleInv, TypeOK, Idle
<1>3. /\ Behind(to)' = Behind(to) /\ Behind(to) = ReadTo(to) - 0 /\ ReadTo(to) >= 0
      /\ ReadTo(to) = sent[Source(to)] - Len(arrived[Source(to)])
  BY <1>1, <1>2 DEF Behind, ReadTo, BytesInv, Ordered
<1>4. /\ Len(arrived[Source(to)]) \in Nat /\ sent[Source(to)] \in Nat /\ early \in Nat
  BY Lengths DEF ShapeOK
<1>5. CASE to = "client"
  <2>1. Behind(to)' = 0
    BY <1>2, <1>3, <1>4, <1>5 DEF Source
  <2>2. CASE peer["client"] = "gone"
    <3>1. ~ Copies(to)' /\ DOMAIN got'[to] = {}
      BY <1>1, <1>2, <1>5, <2>2 DEF Copies
    <3>2. Follows(to, Answer)'
      BY <3>1 DEF Follows
    <3>3. QED
      BY <1>5, <3>2 DEF Relays, Firsts
  <2>3. CASE peer["client"] # "gone"
    <3>1. got'[to] = <<Answer>>
      <4>1. got'[to] = Append(<<>>, Answer)
        BY <1>1, <1>2, <1>5, <2>3 DEF ShapeOK
      <4>2. Append(<<>>, Answer) = <<Answer>>
        BY DEF Answer
      <4>3. QED
        BY <4>1, <4>2
    <3>2. Follows(to, Answer)'
      BY <2>1, <3>1 DEF Follows, Answer
    <3>3. QED
      BY <1>5, <3>2 DEF Relays, Firsts
  <2>4. QED
    BY <2>2, <2>3
<1>6. CASE to = "upstream"
  <2>1. PICK first : first = Behind(to) + 1 /\ first \in 1 .. early + 1
    BY <1>2, <1>3, <1>4, <1>6 DEF Source
  <2>2. DOMAIN got'[to] = {} /\ Len(got'[to]) = 0
    BY <1>1, <1>2, <1>6 DEF ShapeOK
  <2>3. first + 0 = Behind(to)' + 1
    BY <1>3, <1>4, <2>1
  <2>4. Follows(to, first)'
    BY <2>2, <2>3 DEF Follows
  <2>5. first \in Firsts(to)'
    BY <1>1, <1>6, <2>1 DEF Firsts
  <2>6. QED
    BY <2>4, <2>5 DEF Relays
<1>7. QED
  BY <1>5, <1>6 DEF Ends

LEMMA RelayStep ==
  ASSUME TypeOK, ShapeOK, ControlInv, IdleInv, BytesInv, RelayInv, [Next]_vars,
         ShapeOK', ControlInv', IdleInv'
  PROVE  RelayInv'
<1> SUFFICES ASSUME NEW to \in Ends PROVE Relays(to)'
  BY DEF RelayInv
<1>1. Relays(to) /\ Ordered(to)
  BY DEF RelayInv, BytesInv
<1>2. CASE Idle'
  BY <1>2, RelaysIdle
<1>3. CASE UNCHANGED <<copier, peer, got, early, sent, arrived, chunk>>
  BY <1>1, <1>3, RelaysStays DEF Copies, Behind, ReadTo
<1>4. CASE Hijack \/ Refuse \/ DialFails \/ DialSucceeds
  <2>1. Idle /\ copier' = copier
    BY <1>4 DEF Hijack, Refuse, DialFails, DialSucceeds, ControlInv
  <2>2. QED
    BY <1>2, <2>1 DEF Idle
<1>5. CASE WriteAnswer
  BY <1>5, RelaysAnswer
<1>6. CASE FirstEnded \/ SecondEnded
  BY <1>3, <1>6 DEF FirstEnded, SecondEnded, ends
<1>7. ASSUME NEW e \in Ends, Copy(e) PROVE Relays(to)'
  <2>1. UNCHANGED <<sent, peer, early>>
    BY <1>7, CopyFrame
  <2>2. CASE e # to
    <3>1. UNCHANGED <<copier[to], chunk[to], got[to], arrived[Source(to)]>>
      BY <1>7, <2>2, CopyFrame
    <3>2. QED
      BY <1>1, <2>1, <3>1, RelaysStays DEF Copies, Behind, ReadTo
  <2>3. CASE e = to /\ Read(to)
    <3>1. copier[to] = "reading" /\ got' = got /\ Behind(to)' = Behind(to)
      BY <1>1, <2>3, ReadBytes, OrderedRead
    <3>2. QED
      BY <1>1, <2>1, <3>1, RelaysStays DEF Copies
  <2>4. CASE e = to /\ Write(to)
    BY <1>1, <2>4, RelaysWrite
  <2>5. CASE e = to /\ (ReadEnds(to) \/ WriteIsLost(to) \/ WriteFails(to))
    BY <1>1, <2>1, <2>5, DropBytes, RelaysStays
  <2>6. QED
    BY <1>7, <2>2, <2>3, <2>4, <2>5 DEF Copy
<1>8. ASSUME NEW e \in Ends, Send(e) PROVE Relays(to)'
  <2>1. UNCHANGED <<copier, peer, got, early, chunk>>
    BY <1>8, SendBytes
  <2>2. Behind(to)' = Behind(to)
    <3>1. CASE e = Source(to)
      BY <1>1, <1>8, <3>1, OrderedSend
    <3>2. CASE e # Source(to)
      BY <1>8, <3>2, SendBytes, Lengths DEF Behind, ReadTo
    <3>3. QED
      BY <3>1, <3>2
  <2>3. QED
    BY <1>1, <2>1, <2>2, RelaysStays DEF Copies
<1>9. ASSUME NEW e \in Ends, End(e) \/ Leave(e) \/ TakeUp(e) PROVE Relays(to)'
  <2>1. UNCHANGED <<copier, got, early, sent, arrived, chunk>> /\ Behind(to)' = Behind(to)
    BY <1>9 DEF End, Leave, TakeUp, Behind, ReadTo
  <2>2. peer[to] = "gone" => peer'[to] = "gone"
    BY <1>9 DEF End, Leave, TakeUp, ShapeOK
  <2>3. QED
    BY <1>1, <2>1, <2>2, RelaysStays DEF Copies
<1>10. CASE UNCHANGED vars
  BY <1>3, <1>10 DEF vars, ends
<1>11. QED
  BY <1>4, <1>5, <1>6, <1>7, <1>8, <1>9, <1>10 DEF Next, Handler

LEMMA ListensStep ==
  ASSUME TypeOK, ShapeOK, ControlInv, IdleInv, BytesInv, RelayInv, ListensInv, [Next]_vars,
         ControlInv'
  PROVE  ListensInv'
<1> SUFFICES ASSUME peer'["client"] = "open", peer'["upstream"] # "gone"
             PROVE  /\ handler' = "copying" => copier'["upstream"] # "ended"
                    /\ handler' = "closing" => copier'["client"] = "ended"
                    /\ copier'["client"] = "ended" =>
                         /\ peer'["upstream"] = "ended"
                         /\ Len(got'["client"]) = sent'["upstream"] + 1
  BY DEF ListensInv
<1>1. "client" \in Ends /\ "upstream" \in Ends
  BY DEF Ends
<1>2. CASE Hijack \/ Refuse \/ DialFails \/ DialSucceeds
  <2>1. Idle /\ copier' = copier /\ handler' \notin {"copying", "closing"}
    BY <1>2 DEF Hijack, Refuse, DialFails, DialSucceeds, Return, ControlInv
  <2>2. QED
    BY <1>1, <2>1 DEF Idle
<1>3. CASE WriteAnswer
  BY <1>1, <1>3 DEF WriteAnswer, Both
<1>4. CASE FirstEnded \/ SecondEnded
  <2>1. UNCHANGED <<peer, sent, got, copier>>
    BY <1>4 DEF FirstEnded, SecondEnded, ends
  <2>2. CASE FirstEnded
    BY <2>1, <2>2 DEF FirstEnded, ListensInv, Ends
  <2>3. CASE SecondEnded
    BY <2>1, <2>3 DEF SecondEnded, Return, ListensInv
  <2>4. QED
    BY <1>4, <2>2, <2>3
<1>5. ASSUME Copy("client")
      PROVE  /\ handler' = "copying" => copier'["upstream"] # "ended"
             /\ handler' = "closing" => copier'["client"] = "ended"
             /\ copier'["client"] = "ended" =>
                  /\ peer'["upstream"] = "ended"
                  /\ Len(got'["client"]) = sent'["upstream"] + 1
  <2>1. /\ UNCHANGED <<handler, peer, open, sent, copier["upstream"]>>
        /\ copier["client"] \in {"reading", "writing"}
    BY <1>1, <1>5, CopyFrame
  <2>2. handler = "copying" /\ copier["upstream"] # "ended"
    BY <1>1, <2>1 DEF ListensInv, TypeOK, ControlInv, Idle
  <2>3. ASSUME copier'["client"] = "ended"
        PROVE  /\ peer'["upstream"] = "ended"
               /\ Len(got'["client"]) = sent'["upstream"] + 1
    <3>1. open["client"] /\ open["upstream"]
      BY <2>2 DEF ControlInv
    <3>2. ReadEnds("client")
      BY <1>1, <1>5, <2>1, <2>3, <3>1, ReadBytes, WriteBytes
         DEF Copy, WriteIsLost, WriteFails, ShapeOK
    <3>3. /\ peer["upstream"] = "ended" /\ arrived["upstream"] = <<>>
          /\ copier["client"] = "reading" /\ got' = got
      BY <2>1, <3>1, <3>2 DEF ReadEnds, Source
    <3>4. chunk["client"] = <<>> /\ Copies("client")
      BY <1>1, <2>1, <3>3 DEF TypeOK, Copies
    <3>5. Behind("client") = sent["upstream"]
      BY <1>1, <3>3, <3>4, Lengths DEF Behind, ReadTo, Source
    <3>6. Answer + Len(got["client"]) = Behind("client") + 1
      BY <1>1, <3>4 DEF RelayInv, Relays, Firsts, Follows
    <3>7. QED
      BY <1>1, <2>1, <3>3, <3>5, <3>6, Lengths DEF Answer
  <2>4. QED
    BY <2>1, <2>2, <2>3
<1>6. ASSUME Copy("upstream")
      PROVE  /\ handler' = "copying" => copier'["upstream"] # "ended"
             /\ handler' = "closing" => copier'["client"] = "ended"
             /\ copier'["client"] = "ended" =>
                  /\ peer'["upstream"] = "ended"
                  /\ Len(got'["client"]) = sent'["upstream"] + 1
  <2>1. UNCHANGED <<handler, peer, open, sent, copier["client"], got["client"]>>
    BY <1>1, <1>6, CopyFrame
  <2>2. ASSUME handler = "copying" PROVE copier'["upstream"] # "ended"
    <3>1. open["client"] /\ open["upstream"] /\ peer["client"] = "open"
          /\ peer["upstream"] # "gone"
      BY <2>1, <2>2 DEF ControlInv
    <3>2. ~ ReadEnds("upstream") /\ ~ WriteFails("upstream") /\ ~ WriteIsLost("upstream")
      BY <3>1 DEF ReadEnds, WriteFails, WriteIsLost, Source
    <3>3. QED
      BY <1>1, <1>6, <3>2, ReadBytes, WriteBytes DEF Copy
  <2>3. QED
    BY <2>1, <2>2 DEF ListensInv
<1>7. ASSUME NEW e \in Ends, Send(e)
      PROVE  /\ handler' = "copying" => copier'["upstream"] # "ended"
             /\ handler' = "closing" => copier'["client"] = "ended"
             /\ copier'["client"] = "ended" =>
                  /\ peer'["upstream"] = "ended"
                  /\ Len(got'["client"]) = sent'["upstream"] + 1
  <2>1. /\ UNCHANGED <<handler, copier, got, peer>> /\ peer[e] = "open"
        /\ \A q \in Ends : q # e => sent'[q] = sent[q]
    BY <1>7, SendBytes
  <2>2. QED
    BY <1>1, <2>1 DEF ListensInv
<1>8. ASSUME NEW e \in Ends, End(e) \/ Leave(e) \/ TakeUp(e)
      PROVE  /\ handler' = "copying" => copier'["upstream"] # "ended"
             /\ handler' = "closing" => copier'["client"] = "ended"
             /\ copier'["client"] = "ended" =>
                  /\ peer'["upstream"] = "ended"
                  /\ Len(got'["client"]) = sent'["upstream"] + 1
  <2>1. UNCHANGED <<handler, copier, got, sent>>
    BY <1>8 DEF End, Leave, TakeUp
  <2>2. /\ peer["client"] = "open" /\ peer["upstream"] # "gone"
        /\ peer["upstream"] = "ended" => peer'["upstream"] = "ended"
    BY <1>1, <1>8 DEF End, Leave, TakeUp, ShapeOK
  <2>3. QED
    BY <2>1, <2>2 DEF ListensInv
<1>9. CASE UNCHANGED vars
  BY <1>9 DEF vars, ends, ListensInv
<1>10. QED
  BY <1>2, <1>3, <1>4, <1>5, <1>6, <1>7, <1>8, <1>9 DEF Next, Handler, Ends

\* What TypeOK says of one end beyond its shape.
Fits(e) ==
  /\ taken[e] \in 0 .. Len(got[e])
  /\ Len(got[e]) - taken[e] <= Window
  /\ chunk[e] # <<>> <=> copier[e] = "writing"

LEMMA FitsStep ==
  ASSUME TypeOK, ShapeOK, ControlInv, IdleInv, [Next]_vars, NEW e \in Ends
  PROVE  Fits(e)'
<1>1. Fits(e) /\ Len(got[e]) \in Nat /\ taken[e] \in Nat /\ Window \in Nat \ {0}
  BY Lengths, TunnelAssumption DEF TypeOK, Fits, ShapeOK
<1>2. CASE UNCHANGED <<taken, got, chunk, copier>>
  BY <1>1, <1>2 DEF Fits
<1>3. CASE WriteAnswer
  <2>1. Idle /\ got[e] = <<>> /\ chunk[e] = <<>> /\ taken[e] = 0
    BY <1>1, <1>3 DEF WriteAnswer, ControlInv, IdleInv, Idle, Fits
  <2>2. UNCHANGED <<taken, chunk>> /\ copier'[e] = "reading"
    BY <1>3 DEF WriteAnswer, Both, ends
  <2>3. got'[e] = <<>> \/ got'[e] = <<Answer>>
    <3>1. got' = got \/ got' = [got EXCEPT !["client"] = Append(@, Answer)]
      BY <1>3 DEF WriteAnswer
    <3>2. got'[e] = got[e] \/ got'[e] = Append(got[e], Answer)
      BY <3>1 DEF ShapeOK
    <3>3. Append(<<>>, Answer) = <<Answer>>
      BY DEF Answer
    <3>4. QED
      BY <2>1, <3>2, <3>3
  <2>4. Len(got'[e]) = 0 \/ Len(got'[e]) = 1
    <3>1. Len(<<>>) = 0 /\ Len(<<Answer>>) = 1
      OBVIOUS
    <3>2. QED
      BY <2>3, <3>1
  <2>5. taken'[e] = 0 /\ 0 \in 0 .. Len(got'[e]) /\ Len(got'[e]) - 0 <= Window
    <3>1. \A k : k = 0 \/ k = 1 => 0 \in 0 .. k /\ k - 0 <= Window
      BY <1>1
    <3>2. QED
      BY <2>1, <2>2, <2>4, <3>1
  <2>6. QED
    BY <2>1, <2>2, <2>5 DEF Fits
<1>4. CASE Hijack \/ Refuse \/ DialFails \/ DialSucceeds \/ FirstEnded \/ SecondEnded
  BY <1>2, <1>4 DEF Hijack, Refuse, DialFails, DialSucceeds, FirstEnded, SecondEnded, ends
<1>5. ASSUME NEW to \in Ends, Copy(to) PROVE Fits(e)'
  <2>1. CASE to # e
    <3>1. UNCHANGED <<taken, got[e], chunk[e], copier[e]>>
      BY <1>5, <2>1, CopyFrame
    <3>2. QED
      BY <1>1, <3>1 DEF Fits
  <2>2. CASE to = e /\ Read(e)
    <3>1. /\ got' = got /\ taken' = taken /\ copier'[e] = "writing"
          /\ Len(chunk'[e]) # 0
      BY <1>5, <2>2, ReadBytes, CopyFrame
    <3>2. chunk'[e] # <<>>
      BY <3>1
    <3>3. QED
      BY <1>1, <3>1, <3>2 DEF Fits
  <2>3. CASE to = e /\ Write(e)
    <3>1. /\ taken' = taken /\ Len(got'[e]) = Len(got[e]) + 1
          /\ Len(got[e]) - taken[e] < Window
          /\ chunk'[e] # <<>> <=> copier'[e] = "writing"
      BY <1>5, <2>3, WriteBytes, CopyFrame
    <3>2. taken[e] \in 0 .. Len(got[e]) + 1 /\ Len(got[e]) + 1 - taken[e] <= Window
      BY <1>1, <3>1 DEF Fits
    <3>3. QED
      BY <3>1, <3>2 DEF Fits
  <2>4. CASE to = e /\ (ReadEnds(e) \/ WriteIsLost(e) \/ WriteFails(e))
    <3>1. got' = got /\ taken' = taken /\ chunk'[e] = <<>> /\ copier'[e] # "writing"
      BY <1>5, <2>4, DropBytes, CopyFrame
    <3>2. QED
      BY <1>1, <3>1 DEF Fits
  <2>5. QED
    BY <1>5, <2>1, <2>2, <2>3, <2>4 DEF Copy
<1>6. ASSUME NEW q \in Ends, TakeUp(q) PROVE Fits(e)'
  <2>1. UNCHANGED <<got, chunk, copier>>
    BY <1>6 DEF TakeUp
  <2>2. taken'[e] = taken[e] \/ (taken[e] < Len(got[e]) /\ taken'[e] = taken[e] + 1)
    BY <1>6 DEF TakeUp, ShapeOK
  <2>3. taken'[e] \in 0 .. Len(got[e]) /\ Len(got[e]) - taken'[e] <= Window
    BY <1>1, <2>2 DEF Fits
  <2>4. QED
    BY <1>1, <2>1, <2>3 DEF Fits
<1>7. ASSUME NEW q \in Ends, Send(q) \/ End(q) \/ Leave(q) PROVE Fits(e)'
  BY <1>2, <1>7 DEF Send, End, Leave
<1>8. CASE UNCHANGED vars
  BY <1>2, <1>8 DEF vars, ends
<1>9. QED
  BY <1>3, <1>4, <1>5, <1>6, <1>7, <1>8 DEF Next, Handler

LEMMA TypeStep ==
  ASSUME TypeOK, ShapeOK, ControlInv, IdleInv, [Next]_vars, ShapeOK'
  PROVE  TypeOK'
<1>1. /\ handler' \in {"request", "trying", "answer", "copying", "closing", "returned"}
      /\ attempt' \in 0 .. Retries + 1
  <2>1. CASE DialFails
    BY <2>1, TunnelAssumption DEF DialFails, Return, ControlInv, TypeOK
  <2>2. CASE Hijack \/ Refuse \/ DialSucceeds \/ WriteAnswer \/ FirstEnded \/ SecondEnded
    BY <2>2 DEF Hijack, Refuse, DialSucceeds, WriteAnswer, FirstEnded, SecondEnded, Return, TypeOK
  <2>3. ASSUME NEW e \in Ends, Copy(e) PROVE UNCHANGED <<handler, attempt>>
    BY <2>3, CopyFrame
  <2>4. ASSUME NEW e \in Ends, Send(e) \/ End(e) \/ Leave(e) \/ TakeUp(e)
        PROVE  UNCHANGED <<handler, attempt>>
    BY <2>4 DEF Send, End, Leave, TakeUp
  <2>5. CASE UNCHANGED vars
    BY <2>5 DEF vars, TypeOK
  <2>6. QED
    BY <2>1, <2>2, <2>3, <2>4, <2>5 DEF Next, Handler, TypeOK
<1>2. \A e \in Ends : Fits(e)'
  BY FitsStep
<1>3. QED
  BY <1>1, <1>2 DEF TypeOK, Fits, ShapeOK

LEMMA TunnelInvInit ==
  Init => TunnelInv
<1> SUFFICES ASSUME Init PROVE TunnelInv
  OBVIOUS
<1> USE DEF Init, Both
<1>1. ShapeOK
  BY TunnelAssumption DEF ShapeOK
<1>2. TypeOK
  BY TunnelAssumption DEF TypeOK
<1>3. ControlInv /\ IdleInv
  <2>1. attempt <= Retries
    BY TunnelAssumption
  <2>2. open["client"] /\ ~ open["upstream"] /\ Idle
    BY DEF Idle, Ends
  <2>3. ControlInv
    BY <2>1, <2>2 DEF ControlInv, Ends
  <2>4. IdleInv
    BY DEF IdleInv, Ends
  <2>5. QED
    BY <2>3, <2>4
<1>4. BytesInv
  BY DEF BytesInv, Ordered, ReadTo, Behind, Source, Ends
<1>5. RelayInv
  <2> SUFFICES ASSUME NEW to \in Ends PROVE Relays(to)
    BY DEF RelayInv
  <2>1. \A first : Follows(to, first)
    BY DEF Follows, Copies
  <2>2. \E first : first \in Firsts(to)
    BY DEF Firsts
  <2>3. QED
    BY <2>1, <2>2 DEF Relays
<1>6. ListensInv
  BY DEF ListensInv, Ends
<1>7. QED
  BY <1>1, <1>2, <1>3, <1>4, <1>5, <1>6 DEF TunnelInv

-----------------------------------------------------------------------------
(* The invariant, and what it gives.                                         *)

(* TunnelInv holds in every state that can be reached.                       *)
THEOREM TunnelInvariant ==
  Spec => []TunnelInv
<1>1. Init => TunnelInv
  BY TunnelInvInit
<1>2. TunnelInv /\ [Next]_vars => TunnelInv'
  <2> SUFFICES ASSUME TunnelInv, [Next]_vars PROVE TunnelInv'
    OBVIOUS
  <2> USE DEF TunnelInv
  <2>1. ShapeOK' /\ ControlInv' /\ IdleInv'
    BY ShapeStep, ControlStep, IdleStep
  <2>2. TypeOK' /\ BytesInv'
    BY <2>1, TypeStep, BytesStep
  <2>3. RelayInv' /\ ListensInv'
    BY <2>1, RelayStep, ListensStep
  <2>4. QED
    BY <2>1, <2>2, <2>3
<1>3. QED
  BY <1>1, <1>2, PTL DEF Spec

(* Types.                                                                    *)
THEOREM TypesHold ==
  Spec => []TypeOK
<1>1. TunnelInv => TypeOK
  BY DEF TunnelInv
<1>2. QED
  BY <1>1, TunnelInvariant, PTL

(* Each end reads what the other sent, each byte once and in order; only of  *)
(* the client's first bytes, those before the hijack, some may be missing    *)
(* (proxy.go:202, 253-263).                                                  *)
THEOREM BytesAreRelayed ==
  Spec => []Relayed
<1>1. ASSUME TunnelInv PROVE Relayed
  <2>1. \A to \in Ends : \A first \in Firsts(to) :
          Follows(to, first) => got[to] = Run(first, Len(got[to]))
    <3> SUFFICES ASSUME NEW to \in Ends, NEW first \in Firsts(to), Follows(to, first)
                 PROVE  got[to] = Run(first, Len(got[to]))
      OBVIOUS
    <3>1. got[to] \in Seq(Nat)
      BY <1>1 DEF TunnelInv, ShapeOK
    <3>2. got[to] = [i \in 1 .. Len(got[to]) |-> got[to][i]]
      BY <3>1
    <3>3. \A i \in 1 .. Len(got[to]) : got[to][i] = first + i - 1
      BY <3>1 DEF Follows
    <3>4. QED
      BY <3>2, <3>3 DEF Run
  <2>2. \A to \in Ends : \E first \in Firsts(to) : got[to] = Run(first, Len(got[to]))
    BY <1>1, <2>1 DEF TunnelInv, RelayInv, Relays
  <2>3. QED
    BY <2>2 DEF Relayed, Firsts, Ends
<1>2. QED
  BY <1>1, TunnelInvariant, PTL

(* A handler that has returned has closed both connections and has waited    *)
(* for both copiers (proxy.go:207, 265-267).                                 *)
THEOREM NothingIsLeftOpen ==
  Spec => []NothingLeftOpen
<1>1. TunnelInv => NothingLeftOpen
  BY DEF TunnelInv, ControlInv, Idle, NothingLeftOpen, Ends
<1>2. QED
  BY <1>1, TunnelInvariant, PTL

(* A client that has not ended its side has all that the upstream sent       *)
(* before it ended, however the copiers, the writes and the reads interleave *)
(* (proxy.go:265-266).                                                       *)
THEOREM NothingIsTruncated ==
  Spec => []Untruncated
<1>1. ASSUME TunnelInv, handler = "returned", peer["upstream"] = "ended", peer["client"] = "open"
      PROVE  got["client"] = Run(Answer, sent["upstream"] + 1)
  <2>1. copier["client"] = "ended"
    BY <1>1 DEF TunnelInv, ControlInv, Ends
  <2>2. Len(got["client"]) = sent["upstream"] + 1
    BY <1>1, <2>1 DEF TunnelInv, ListensInv
  <2>3. got["client"] \in Seq(Nat) /\ \A i \in DOMAIN got["client"] : got["client"][i] = Answer + i - 1
    BY <1>1 DEF TunnelInv, ShapeOK, RelayInv, Relays, Firsts, Follows, Ends
  <2>4. got["client"] = [i \in 1 .. Len(got["client"]) |-> got["client"][i]]
    BY <2>3
  <2>5. QED
    BY <2>2, <2>3, <2>4 DEF Run
<1>2. TunnelInv => Untruncated
  BY <1>1 DEF Untruncated
<1>3. QED
  BY <1>2, TunnelInvariant, PTL

=============================================================================
