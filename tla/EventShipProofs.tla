-------------------------- MODULE EventShipProofs ---------------------------
(***************************************************************************)
(* Proofs about EventShip, for every script of events, every size of the   *)
(* channel and of a batch, and any number of posts that fail, handlers     *)
(* that go on without their client and workers that die.                   *)
(***************************************************************************)
EXTENDS EventShip, TLAPS

Posts == [lines : Seq(Nat), step : {"apply", "publish"},
          client : {"waiting", "answered", "gone"}]

\* The types of what the order of the events depends on.
Types ==
    /\ emitted \in Nat
    /\ in \in Seq(Nat)
    /\ batch \in Seq(Nat)
    /\ applied \in Seq(Nat)
    /\ post \in Seq(Posts)

Increasing(s) == \A i, j \in 1..Len(s) : i < j => s[i] < s[j]

Below(s, t) == \A i \in 1..Len(s), j \in 1..Len(t) : s[i] < t[j]

UpTo(s, e) == \A i \in 1..Len(s) : s[i] <= e

\* The lines at s are older than everything that is still on the worker.
Shipped(s) == UpTo(s, emitted) /\ Below(s, batch) /\ Below(s, in)

\* The channel and the batch hold events in the order they were emitted.
PipeOK ==
    /\ Increasing(in) /\ Increasing(batch) /\ Below(batch, in)
    /\ UpTo(in, emitted) /\ UpTo(batch, emitted)
    /\ Shipped(applied)

\* So do the posts, each and from one to the next.
PostsOK ==
    /\ \A k \in 1..Len(post) : Increasing(post[k].lines) /\ Shipped(post[k].lines)
    /\ \A k, l \in 1..Len(post) : k < l => Below(post[k].lines, post[l].lines)

\* Line j of post k has not been applied.
Ahead(k, j) == j > 1 \/ post[k].step = "apply"

\* A line ahead of its handler is not applied.
FreshOK ==
    \A k \in 1..Len(post) : \A j \in 1..Len(post[k].lines) :
        Ahead(k, j) => \A m \in 1..Len(applied) : applied[m] # post[k].lines[j]

\* The handler of a client that waits has the last post, and nothing younger
\* than its next line is applied; that of a client that has gone has lines
\* that may come late; an answered one has none.
ClientsOK ==
    \A k \in 1..Len(post) :
        /\ post[k].step = "publish" => post[k].lines # << >>
        /\ post[k].client = "waiting" =>
             /\ k = Len(post)
             /\ \A j \in 1..Len(post[k].lines) :
                   \A m \in 1..Len(applied) : applied[m] <= post[k].lines[j]
        /\ post[k].client = "gone" =>
             \A j \in 1..Len(post[k].lines) : post[k].lines[j] \in late
        /\ post[k].client = "answered" => post[k].lines = << >>

\* The inductive invariant.
Inv ==
    /\ Types
    /\ PipeOK
    /\ PostsOK
    /\ FreshOK
    /\ ClientsOK
    /\ AppliedInOrder

-----------------------------------------------------------------------------
(***************************************************************************)
(* Sequences of events.                                                    *)
(***************************************************************************)

\* A line goes to the end of a channel, of a batch or of the history.
LEMMA AppendFacts ==
    ASSUME NEW S, NEW s \in Seq(S), NEW x \in S
    PROVE  /\ Append(s, x) \in Seq(S)
           /\ Len(s) \in Nat
           /\ Len(Append(s, x)) = Len(s) + 1
           /\ \A i \in 1..Len(s) : Append(s, x)[i] = s[i] /\ s[i] \in S
           /\ Append(s, x)[Len(s) + 1] = x
  OBVIOUS

\* A line is taken from the front.
LEMMA TailFacts ==
    ASSUME NEW S, NEW s \in Seq(S), s # << >>
    PROVE  /\ Tail(s) \in Seq(S)
           /\ Len(s) \in Nat /\ Len(s) > 0
           /\ Len(Tail(s)) = Len(s) - 1
           /\ \A i \in 1..Len(Tail(s)) : i + 1 \in 1..Len(s) /\ Tail(s)[i] = s[i + 1]
           /\ Head(s) = s[1]
           /\ Head(s) \in S
  OBVIOUS

\* Appending what is greater than all keeps a sequence increasing.
LEMMA AppendIncreasing ==
    ASSUME NEW s \in Seq(Nat), NEW x \in Nat, Increasing(s),
           \A i \in 1..Len(s) : s[i] < x
    PROVE  Increasing(Append(s, x))
<1> DEFINE t == Append(s, x)
<1>1. /\ Len(s) \in Nat /\ Len(t) = Len(s) + 1
      /\ \A i \in 1..Len(s) : t[i] = s[i] /\ s[i] \in Nat
      /\ t[Len(s) + 1] = x
  BY AppendFacts
<1> HIDE DEF t
<1>2. ASSUME NEW i \in 1..Len(t), NEW j \in 1..Len(t), i < j PROVE t[i] < t[j]
  <2>1. i \in 1..Len(s) /\ t[i] = s[i]
    BY <1>1, <1>2
  <2>2. CASE j \in 1..Len(s)
    BY <1>1, <1>2, <2>1, <2>2 DEF Increasing
  <2>3. CASE j = Len(s) + 1
    BY <1>1, <2>1, <2>3
  <2>4. j \in 1..Len(s) \/ j = Len(s) + 1
    BY <1>1
  <2> QED
    BY <2>2, <2>3, <2>4
<1> QED
  BY <1>2 DEF Increasing, t

\* Below and UpTo look at single elements.
LEMMA AppendBelow ==
    ASSUME NEW s \in Seq(Nat), NEW t \in Seq(Nat), NEW x \in Nat, NEW e
    PROVE  /\ Below(s, t) /\ (\A i \in 1..Len(s) : s[i] < x) => Below(s, Append(t, x))
           /\ Below(t, s) /\ (\A i \in 1..Len(s) : x < s[i]) => Below(Append(t, x), s)
           /\ UpTo(t, e) /\ x <= e => UpTo(Append(t, x), e)
<1> DEFINE u == Append(t, x)
<1>1. /\ Len(t) \in Nat /\ Len(u) = Len(t) + 1
      /\ \A i \in 1..Len(t) : u[i] = t[i]
      /\ u[Len(t) + 1] = x
  BY AppendFacts
<1> HIDE DEF u
<1>2. \A i \in 1..Len(u) : u[i] = x \/ \E j \in 1..Len(t) : u[i] = t[j]
  <2> SUFFICES ASSUME NEW i \in 1..Len(u)
               PROVE  u[i] = x \/ \E j \in 1..Len(t) : u[i] = t[j]
    OBVIOUS
  <2>1. i \in 1..Len(t) \/ i = Len(t) + 1
    BY <1>1
  <2> QED
    BY <1>1, <2>1
<1> QED
  BY <1>2 DEF Below, UpTo, u

\* The rest of a sequence inherits its order.
LEMMA TailKeeps ==
    ASSUME NEW s \in Seq(Nat), s # << >>, NEW t, NEW e
    PROVE  /\ Increasing(s) => Increasing(Tail(s))
           /\ Increasing(s) => \A i \in 1..Len(Tail(s)) : Head(s) < Tail(s)[i]
           /\ Below(s, t) => Below(Tail(s), t)
           /\ Below(t, s) => Below(t, Tail(s))
           /\ UpTo(s, e) => UpTo(Tail(s), e)
<1> DEFINE u == Tail(s)
<1>1. /\ Len(s) \in Nat /\ Len(s) > 0 /\ Len(u) = Len(s) - 1
      /\ \A i \in 1..Len(u) : i + 1 \in 1..Len(s) /\ u[i] = s[i + 1]
      /\ Head(s) = s[1] /\ 1 \in 1..Len(s)
  BY TailFacts
<1> HIDE DEF u
<1>2. ASSUME Increasing(s), NEW i \in 1..Len(u), NEW j \in 1..Len(u), i < j
      PROVE  u[i] < u[j]
  <2>1. i + 1 \in 1..Len(s) /\ j + 1 \in 1..Len(s)
    BY <1>1
  <2>2. i + 1 < j + 1
    BY <1>1, <1>2
  <2>3. s[i + 1] < s[j + 1]
    BY <1>2, <2>1, <2>2 DEF Increasing
  <2> QED
    BY <1>1, <2>3
<1>3. ASSUME Increasing(s), NEW i \in 1..Len(u) PROVE Head(s) < u[i]
  <2>1. i + 1 \in 1..Len(s) /\ 1 < i + 1
    BY <1>1
  <2>2. s[1] < s[i + 1]
    BY <1>1, <1>3, <2>1 DEF Increasing
  <2> QED
    BY <1>1, <2>2
<1>4. Below(s, t) => Below(u, t)
  BY <1>1 DEF Below
<1>5. Below(t, s) => Below(t, u)
  BY <1>1 DEF Below
<1>6. UpTo(s, e) => UpTo(u, e)
  BY <1>1 DEF UpTo
<1> QED
  BY <1>2, <1>3, <1>4, <1>5, <1>6 DEF Increasing, u

\* An empty sequence is in order with everything.
LEMMA EmptyKeeps ==
    ASSUME NEW t, NEW e
    PROVE  /\ Increasing(<< >>) /\ UpTo(<< >>, e)
           /\ Below(<< >>, t) /\ Below(t, << >>)
  BY DEF Increasing, UpTo, Below

\* The parts of a post.
LEMMA PostFacts ==
    ASSUME Types, NEW k \in 1..Len(post)
    PROVE  /\ DOMAIN post = 1..Len(post) /\ Len(post) \in Nat
           /\ post[k] \in Posts
           /\ post[k].lines \in Seq(Nat)
           /\ post[k].step \in {"apply", "publish"}
           /\ post[k].client \in {"waiting", "answered", "gone"}
<1>1. DOMAIN post = 1..Len(post) /\ Len(post) \in Nat /\ post[k] \in Posts
  BY DEF Types
<1> QED
  BY <1>1 DEF Posts

-----------------------------------------------------------------------------
(***************************************************************************)
(* The worker.                                                             *)
(***************************************************************************)

\* What is said of the handlers looks at the posts and the history alone.
LEMMA HandlersIdle ==
    ASSUME FreshOK, ClientsOK, AppliedInOrder, UNCHANGED <<post, applied, late>>
    PROVE  FreshOK' /\ ClientsOK' /\ AppliedInOrder'
<1>1. FreshOK'
  BY DEF FreshOK, Ahead
<1>2. ClientsOK'
  BY DEF ClientsOK
<1>3. AppliedInOrder'
  BY DEF AppliedInOrder
<1> QED
  BY <1>1, <1>2, <1>3

\* Handle emits the next event.
LEMMA HandleStep == ASSUME Inv, Handle PROVE Inv'
<1> USE DEF Inv
<1>1. /\ emitted' = emitted + 1
      /\ UNCHANGED <<batch, post, applied, late>>
      /\ in' = in \/ in' = Append(in, emitted')
  BY DEF Handle
<1>2. /\ emitted \in Nat /\ emitted' \in Nat /\ in \in Seq(Nat) /\ batch \in Seq(Nat)
      /\ applied \in Seq(Nat)
  BY <1>1 DEF Types
<1>3. ASSUME NEW s \in Seq(Nat), UpTo(s, emitted)
      PROVE  UpTo(s, emitted') /\ \A i \in 1..Len(s) : s[i] < emitted'
  BY <1>1, <1>2, <1>3 DEF UpTo
<1>4. ASSUME NEW s \in Seq(Nat), UpTo(s, emitted), Below(s, in)
      PROVE  Below(s, in')
  <2>1. CASE in' = in
    BY <1>4, <2>1
  <2>2. CASE in' = Append(in, emitted')
    <3>1. \A i \in 1..Len(s) : s[i] < emitted'
      BY <1>3, <1>4
    <3>2. Below(s, Append(in, emitted'))
      BY <1>2, <1>4, <3>1, AppendBelow
    <3> QED
      BY <2>2, <3>2
  <2> QED
    BY <1>1, <2>1, <2>2
<1>5. ASSUME NEW s \in Seq(Nat), Shipped(s) PROVE Shipped(s)'
  BY <1>1, <1>3, <1>4, <1>5 DEF Shipped
<1>6. Types'
  <2>1. Append(in, emitted') \in Seq(Nat)
    BY <1>2
  <2>2. in' \in Seq(Nat)
    BY <1>1, <1>2, <2>1
  <2> QED
    BY <1>1, <1>2, <2>2 DEF Types
<1>7. PipeOK'
  <2>1. Increasing(in') /\ UpTo(in', emitted')
    <3>1. CASE in' = in
      BY <1>2, <1>3, <3>1 DEF PipeOK
    <3>2. CASE in' = Append(in, emitted')
      BY <1>2, <1>3, <3>2, AppendIncreasing, AppendBelow DEF PipeOK
    <3> QED
      BY <1>1, <3>1, <3>2
  <2>2. Increasing(batch) /\ UpTo(batch, emitted') /\ Below(batch, in')
    BY <1>2, <1>3, <1>4 DEF PipeOK
  <2>3. Shipped(applied)'
    BY <1>1, <1>2, <1>5 DEF PipeOK, Shipped
  <2> QED
    BY <1>1, <2>1, <2>2, <2>3 DEF PipeOK
<1>8. PostsOK'
  <2>1. \A k \in 1..Len(post) : Shipped(post[k].lines)'
    BY <1>1, <1>5, PostFacts DEF PostsOK, Shipped
  <2> QED
    BY <1>1, <2>1 DEF PostsOK
<1>9. FreshOK' /\ ClientsOK' /\ AppliedInOrder'
  BY <1>1, HandlersIdle
<1> QED
  BY <1>6, <1>7, <1>8, <1>9

\* run moves the head of the channel to the end of the batch.
LEMMA TakeStep == ASSUME Inv, Take PROVE Inv'
<1> USE DEF Inv
<1> DEFINE h == Head(in)
<1>1. /\ in # << >> /\ batch' = Append(batch, h) /\ in' = Tail(in)
      /\ UNCHANGED <<emitted, post, applied, late>>
  BY DEF Take, history
<1>2. /\ emitted \in Nat /\ in \in Seq(Nat) /\ batch \in Seq(Nat)
      /\ applied \in Seq(Nat)
  BY DEF Types
<1>3. h \in Nat /\ h = in[1] /\ 1 \in 1..Len(in) /\ Tail(in) \in Seq(Nat)
  BY <1>1, <1>2, TailFacts
<1>4. \A i \in 1..Len(Tail(in)) : h < Tail(in)[i]
  BY <1>1, <1>2, TailKeeps DEF PipeOK
<1> HIDE DEF h
<1>5. ASSUME NEW s \in Seq(Nat), Shipped(s) PROVE Shipped(s)'
  <2>1. \A i \in 1..Len(s) : s[i] < h
    BY <1>3, <1>5 DEF Shipped, Below
  <2>2. Below(s, Append(batch, h))
    BY <1>2, <1>3, <1>5, <2>1, AppendBelow DEF Shipped
  <2>3. Below(s, Tail(in))
    BY <1>1, <1>2, <1>5, TailKeeps DEF Shipped
  <2> QED
    BY <1>1, <1>5, <2>2, <2>3 DEF Shipped
<1>6. Types'
  <2>1. Append(batch, h) \in Seq(Nat)
    BY <1>2, <1>3
  <2> QED
    BY <1>1, <1>2, <1>3, <2>1 DEF Types
<1>7. PipeOK'
  <2>1. Increasing(Tail(in)) /\ UpTo(Tail(in), emitted)
    BY <1>1, <1>2, TailKeeps DEF PipeOK
  <2>2. \A i \in 1..Len(batch) : batch[i] < h
    BY <1>3 DEF PipeOK, Below
  <2>3. Increasing(Append(batch, h))
    BY <1>2, <1>3, <2>2, AppendIncreasing DEF PipeOK
  <2>4. h <= emitted
    BY <1>3 DEF PipeOK, UpTo
  <2>5. UpTo(Append(batch, h), emitted)
    BY <1>2, <1>3, <2>4, AppendBelow DEF PipeOK
  <2>6. Below(batch, Tail(in))
    BY <1>1, <1>2, TailKeeps DEF PipeOK
  <2>7. Below(Append(batch, h), Tail(in))
    BY <1>2, <1>3, <1>4, <2>6, AppendBelow
  <2>8. Shipped(applied)'
    BY <1>1, <1>2, <1>5 DEF PipeOK, Shipped
  <2> QED
    BY <1>1, <2>1, <2>3, <2>5, <2>7, <2>8 DEF PipeOK
<1>8. PostsOK'
  <2>1. \A k \in 1..Len(post) : Shipped(post[k].lines)'
    BY <1>1, <1>5, PostFacts DEF PostsOK, Shipped
  <2> QED
    BY <1>1, <2>1 DEF PostsOK
<1>9. FreshOK' /\ ClientsOK' /\ AppliedInOrder'
  BY <1>1, HandlersIdle
<1> QED
  BY <1>6, <1>7, <1>8, <1>9

\* flush without an answer to wait for: the batch is lost.
LEMMA DropStep ==
    ASSUME Inv, batch' = << >>,
           UNCHANGED <<emitted, in, post, applied, late>>
    PROVE  Inv'
<1> USE DEF Inv
<1>1. ASSUME NEW s \in Seq(Nat), Shipped(s) PROVE Shipped(s)'
  BY <1>1, EmptyKeeps DEF Shipped
<1>2. Types'
  <2>1. << >> \in Seq(Nat)
    OBVIOUS
  <2> QED
    BY <2>1 DEF Types
<1>3. PipeOK'
  <2>1. Shipped(applied)'
    BY <1>1 DEF PipeOK, Types, Shipped
  <2> QED
    BY <2>1, EmptyKeeps DEF PipeOK
<1>4. PostsOK'
  <2>1. \A k \in 1..Len(post) : Shipped(post[k].lines)'
    BY <1>1, PostFacts DEF PostsOK, Shipped
  <2> QED
    BY <2>1 DEF PostsOK
<1>5. FreshOK' /\ ClientsOK' /\ AppliedInOrder'
  BY HandlersIdle
<1> QED
  BY <1>2, <1>3, <1>4, <1>5

\* flush, when the request arrives: the batch is the last post.
LEMMA PostStep ==
    ASSUME Inv, ~Posting, batch # << >>, batch' = << >>,
           post' = Append(post, [lines |-> batch, step |-> "apply",
                                 client |-> "waiting"]),
           UNCHANGED <<emitted, in, applied, late>>
    PROVE  Inv'
<1> USE DEF Inv
<1> DEFINE q == [lines |-> batch, step |-> "apply", client |-> "waiting"]
           n == Len(post) + 1
<1>1. /\ emitted \in Nat /\ in \in Seq(Nat) /\ batch \in Seq(Nat)
      /\ applied \in Seq(Nat) /\ post \in Seq(Posts) /\ q \in Posts
      /\ q.lines = batch /\ q.step = "apply" /\ q.client = "waiting"
  BY DEF Types, Posts
<1> HIDE DEF q
<1>2. post' = Append(post, q)
  BY DEF q
<1>3. /\ post' \in Seq(Posts) /\ Len(post) \in Nat /\ Len(post') = n
      /\ \A k \in 1..Len(post) : post'[k] = post[k]
      /\ post'[n] = q
  BY <1>1, <1>2, AppendFacts
<1>4. \A k \in 1..n : k \in 1..Len(post) \/ k = n
  BY <1>3
<1>5. \A k \in 1..Len(post) : post[k].client # "waiting"
  BY <1>1 DEF Posting
<1>6. ASSUME NEW s \in Seq(Nat), UpTo(s, emitted), Below(s, in) PROVE Shipped(s)'
  BY <1>6, EmptyKeeps DEF Shipped
<1>7. Types'
  BY <1>1, <1>3 DEF Types
<1>8. PipeOK'
  <2>1. Shipped(applied)'
    BY <1>1, <1>6 DEF PipeOK, Shipped
  <2> QED
    BY <2>1, EmptyKeeps DEF PipeOK
<1>9. PostsOK'
  <2>1. ASSUME NEW k \in 1..n PROVE Increasing(post'[k].lines) /\ Shipped(post[k].lines)'
    <3>1. CASE k \in 1..Len(post)
      <4>1. post[k].lines \in Seq(Nat) /\ UpTo(post[k].lines, emitted)
            /\ Below(post[k].lines, in) /\ Increasing(post[k].lines)
        BY <3>1, PostFacts DEF PostsOK, Shipped
      <4> QED
        BY <1>3, <1>6, <3>1, <4>1 DEF Shipped
    <3>2. CASE k = n
      BY <1>1, <1>3, <1>6, <3>2 DEF PipeOK, Shipped
    <3> QED
      BY <1>4, <3>1, <3>2
  <2>2. ASSUME NEW k \in 1..n, NEW l \in 1..n, k < l
        PROVE  Below(post'[k].lines, post'[l].lines)
    <3>1. k \in 1..Len(post)
      BY <1>3, <2>2
    <3>2. CASE l \in 1..Len(post)
      BY <1>3, <2>2, <3>1, <3>2 DEF PostsOK
    <3>3. CASE l = n
      BY <1>1, <1>3, <3>1, <3>3 DEF PostsOK, Shipped
    <3> QED
      BY <1>4, <3>2, <3>3
  <2> QED
    BY <1>3, <2>1, <2>2 DEF PostsOK
<1>10. \A j \in 1..Len(batch), m \in 1..Len(applied) : applied[m] < batch[j]
  BY DEF PipeOK, Shipped, Below
<1>11. FreshOK'
  <2>1. ASSUME NEW k \in 1..n, NEW j \in 1..Len(post'[k].lines), Ahead(k, j)',
               NEW m \in 1..Len(applied)
        PROVE  applied[m] # post'[k].lines[j]
    <3>1. CASE k \in 1..Len(post)
      BY <1>3, <2>1, <3>1 DEF FreshOK, Ahead
    <3>2. CASE k = n
      <4>1. applied[m] < batch[j] /\ applied[m] \in Nat /\ batch[j] \in Nat
        BY <1>1, <1>3, <1>10, <3>2
      <4> QED
        BY <1>1, <1>3, <3>2, <4>1
    <3> QED
      BY <1>4, <3>1, <3>2
  <2> QED
    BY <1>3, <2>1 DEF FreshOK
<1>12. ClientsOK'
  <2> DEFINE OK(p, k) ==
               /\ p.step = "publish" => p.lines # << >>
               /\ p.client = "waiting" =>
                    /\ k = n
                    /\ \A j \in 1..Len(p.lines) :
                          \A m \in 1..Len(applied) : applied[m] <= p.lines[j]
               /\ p.client = "gone" => \A j \in 1..Len(p.lines) : p.lines[j] \in late
               /\ p.client = "answered" => p.lines = << >>
  <2>1. ASSUME NEW k \in 1..Len(post) PROVE OK(post[k], k)
    BY <1>5 DEF ClientsOK
  <2>2. OK(q, n)
    <3>1. ASSUME NEW j \in 1..Len(batch), NEW m \in 1..Len(applied)
          PROVE  applied[m] <= batch[j]
      <4>1. applied[m] < batch[j] /\ applied[m] \in Nat /\ batch[j] \in Nat
        BY <1>1, <1>10
      <4> QED
        BY <4>1
    <3> QED
      BY <1>1, <3>1
  <2>3. \A k \in 1..n : OK(post'[k], k)
    BY <1>3, <1>4, <2>1, <2>2
  <2> QED
    BY <1>3, <2>3 DEF ClientsOK
<1>13. AppliedInOrder'
  BY DEF AppliedInOrder
<1> QED
  BY <1>7, <1>8, <1>9, <1>11, <1>12, <1>13

\* WorkerDies: whoever was waiting is gone, and what it had sent may come late.
LEMMA WorkerDiesStep == ASSUME Inv, WorkerDies PROVE Inv'
<1> USE DEF Inv
<1>1. /\ in' = << >> /\ batch' = << >>
      /\ post' = [k \in DOMAIN post |->
                    [post[k] EXCEPT !.client = IF @ = "waiting" THEN "gone" ELSE @]]
      /\ late' = late \union UNION {ToSet(post[k].lines) : k \in DOMAIN post}
      /\ UNCHANGED <<emitted, applied>>
  BY DEF WorkerDies
<1>2. post \in Seq(Posts) /\ DOMAIN post = 1..Len(post) /\ Len(post) \in Nat
  BY DEF Types
<1>3. ASSUME NEW k \in 1..Len(post)
      PROVE  /\ post'[k] \in Posts
             /\ post'[k].lines = post[k].lines /\ post'[k].step = post[k].step
             /\ post'[k].client = IF post[k].client = "waiting" THEN "gone"
                                  ELSE post[k].client
  <2>1. post[k] \in Posts
    BY <1>2
  <2>2. post'[k] = [post[k] EXCEPT !.client = IF @ = "waiting" THEN "gone" ELSE @]
    BY <1>1, <1>2
  <2> QED
    BY <2>1, <2>2 DEF Posts
<1>4. post' \in Seq(Posts) /\ Len(post') = Len(post)
  <2>1. post' \in [1..Len(post) -> Posts]
    BY <1>1, <1>2, <1>3
  <2> QED
    BY <1>2, <2>1
<1>5. ASSUME NEW s \in Seq(Nat), Shipped(s) PROVE Shipped(s)'
  BY <1>1, <1>5, EmptyKeeps DEF Shipped
<1>6. Types'
  BY <1>1, <1>4 DEF Types
<1>7. PipeOK'
  <2>1. Shipped(applied)'
    BY <1>1, <1>5 DEF PipeOK, Types, Shipped
  <2> QED
    BY <1>1, <2>1, EmptyKeeps DEF PipeOK
<1>8. PostsOK'
  <2>1. ASSUME NEW k \in 1..Len(post) PROVE Shipped(post[k].lines)'
    <3>1. post[k].lines \in Seq(Nat) /\ Shipped(post[k].lines)
      BY PostFacts DEF PostsOK
    <3> QED
      BY <1>1, <1>3, <1>5, <3>1 DEF Shipped
  <2> QED
    BY <1>3, <1>4, <2>1 DEF PostsOK
<1>9. FreshOK'
  BY <1>1, <1>3, <1>4 DEF FreshOK, Ahead
<1>10. ClientsOK'
  <2>1. ASSUME NEW k \in 1..Len(post)
        PROVE  \A j \in 1..Len(post[k].lines) : post[k].lines[j] \in late'
    <3>1. post[k].lines \in Seq(Nat)
      BY PostFacts
    <3>2. \A j \in 1..Len(post[k].lines) : post[k].lines[j] \in ToSet(post[k].lines)
      BY <3>1 DEF ToSet
    <3> QED
      BY <1>1, <1>2, <3>2
  <2>2. ASSUME NEW k \in 1..Len(post) PROVE post'[k].client # "waiting"
    BY <1>3
  <2>3. ASSUME NEW k \in 1..Len(post), post'[k].client = "answered"
        PROVE  post'[k].lines = << >>
    BY <1>3, <2>3 DEF ClientsOK
  <2>4. ASSUME NEW k \in 1..Len(post), post'[k].step = "publish"
        PROVE  post'[k].lines # << >>
    BY <1>3, <2>4 DEF ClientsOK
  <2> QED
    BY <1>3, <1>4, <2>1, <2>2, <2>3, <2>4 DEF ClientsOK
<1>11. AppliedInOrder'
  BY <1>1 DEF AppliedInOrder
<1> QED
  BY <1>6, <1>7, <1>8, <1>9, <1>10, <1>11

-----------------------------------------------------------------------------
(***************************************************************************)
(* The handlers.                                                           *)
(***************************************************************************)

\* A step that applies nothing: the handler of post k skips its first d lines,
\* or the client changes its mind.
LEMMA PostKeeps ==
    ASSUME Inv, NEW k \in 1..Len(post), NEW q \in Posts, NEW d \in {0, 1},
           post' = [post EXCEPT ![k] = q],
           UNCHANGED <<emitted, in, batch, applied>>, late \subseteq late',
           \A j \in 1..Len(q.lines) :
               /\ j + d \in 1..Len(post[k].lines)
               /\ q.lines[j] = post[k].lines[j + d]
               /\ j > 1 \/ q.step = "apply" => Ahead(k, j + d),
           q.step = "publish" => q.lines # << >>,
           q.client = "waiting" => post[k].client = "waiting",
           q.client = "gone" => \A j \in 1..Len(q.lines) : q.lines[j] \in late',
           q.client = "answered" => q.lines = << >>
    PROVE  Inv'
<1> USE DEF Inv
<1>1. /\ post \in Seq(Posts) /\ DOMAIN post = 1..Len(post) /\ Len(post) \in Nat
      /\ post' \in Seq(Posts) /\ Len(post') = Len(post)
      /\ post'[k] = q /\ \A l \in 1..Len(post) : l # k => post'[l] = post[l]
  BY DEF Types
<1>2. q.lines \in Seq(Nat) /\ post[k].lines \in Seq(Nat)
  BY PostFacts DEF Posts
<1>3. \A l \in 1..Len(post) : \A j \in 1..Len(post'[l].lines) :
        \E i \in 1..Len(post[l].lines) : post'[l].lines[j] = post[l].lines[i]
  <2> SUFFICES ASSUME NEW l \in 1..Len(post), NEW j \in 1..Len(post'[l].lines)
               PROVE  \E i \in 1..Len(post[l].lines) :
                         post'[l].lines[j] = post[l].lines[i]
    OBVIOUS
  <2>1. CASE l = k
    <3>1. j + d \in 1..Len(post[k].lines) /\ q.lines[j] = post[k].lines[j + d]
      BY <1>1, <2>1
    <3> QED
      BY <1>1, <2>1, <3>1
  <2>2. CASE l # k
    BY <1>1, <2>2
  <2> QED
    BY <2>1, <2>2
<1>4. Types'
  BY <1>1 DEF Types
<1>5. PipeOK'
  BY DEF PipeOK, Shipped
<1>6. PostsOK'
  <2>1. Increasing(q.lines)
    <3>1. ASSUME NEW i \in 1..Len(q.lines), NEW j \in 1..Len(q.lines), i < j
          PROVE  q.lines[i] < q.lines[j]
      <4>1. /\ i + d \in 1..Len(post[k].lines) /\ q.lines[i] = post[k].lines[i + d]
            /\ j + d \in 1..Len(post[k].lines) /\ q.lines[j] = post[k].lines[j + d]
        OBVIOUS
      <4>2. i + d < j + d
        BY <1>2, <3>1
      <4>3. post[k].lines[i + d] < post[k].lines[j + d]
        BY <4>1, <4>2 DEF PostsOK, Increasing
      <4> QED
        BY <4>1, <4>3
    <3> QED
      BY <3>1 DEF Increasing
  <2>2. ASSUME NEW l \in 1..Len(post) PROVE Increasing(post'[l].lines)
    BY <1>1, <2>1 DEF PostsOK
  <2>3. ASSUME NEW l \in 1..Len(post) PROVE Shipped(post[l].lines)'
    <3>1. UpTo(post[l].lines, emitted)
          /\ Below(post[l].lines, batch) /\ Below(post[l].lines, in)
      BY DEF PostsOK, Shipped
    <3>2. ASSUME NEW j \in 1..Len(post'[l].lines)
          PROVE  /\ post'[l].lines[j] <= emitted
                 /\ \A b \in 1..Len(batch) : post'[l].lines[j] < batch[b]
                 /\ \A c \in 1..Len(in) : post'[l].lines[j] < in[c]
      <4>1. PICK i \in 1..Len(post[l].lines) : post'[l].lines[j] = post[l].lines[i]
        BY <1>3
      <4> QED
        BY <3>1, <4>1 DEF UpTo, Below
    <3> QED
      BY <3>2 DEF Shipped, UpTo, Below
  <2>4. ASSUME NEW l \in 1..Len(post), NEW m \in 1..Len(post), l < m
        PROVE  Below(post'[l].lines, post'[m].lines)
    <3>1. Below(post[l].lines, post[m].lines)
      BY <2>4 DEF PostsOK
    <3>2. ASSUME NEW a \in 1..Len(post'[l].lines), NEW b \in 1..Len(post'[m].lines)
          PROVE  post'[l].lines[a] < post'[m].lines[b]
      <4>1. PICK i \in 1..Len(post[l].lines) : post'[l].lines[a] = post[l].lines[i]
        BY <1>3
      <4>2. PICK j \in 1..Len(post[m].lines) : post'[m].lines[b] = post[m].lines[j]
        BY <1>3
      <4> QED
        BY <3>1, <4>1, <4>2 DEF Below
    <3> QED
      BY <3>2 DEF Below
  <2> QED
    BY <1>1, <2>2, <2>3, <2>4 DEF PostsOK
<1>7. FreshOK'
  <2>1. ASSUME NEW l \in 1..Len(post), NEW j \in 1..Len(post'[l].lines), Ahead(l, j)'
        PROVE  \A m \in 1..Len(applied) : applied[m] # post'[l].lines[j]
    <3>1. CASE l = k
      <4>1. Ahead(k, j + d) /\ j + d \in 1..Len(post[k].lines)
            /\ q.lines[j] = post[k].lines[j + d]
        BY <1>1, <2>1, <3>1 DEF Ahead
      <4> QED
        BY <1>1, <3>1, <4>1 DEF FreshOK
    <3>2. CASE l # k
      BY <1>1, <2>1, <3>2 DEF FreshOK, Ahead
    <3> QED
      BY <3>1, <3>2
  <2> QED
    BY <1>1, <2>1 DEF FreshOK
<1>8. ClientsOK'
  <2>1. ASSUME NEW l \in 1..Len(post), post'[l].client = "waiting"
        PROVE  /\ l = Len(post)
               /\ \A j \in 1..Len(post'[l].lines) :
                     \A m \in 1..Len(applied) : applied[m] <= post'[l].lines[j]
    <3>1. post[l].client = "waiting"
      BY <1>1, <2>1
    <3> QED
      BY <1>3, <3>1 DEF ClientsOK
  <2>2. ASSUME NEW l \in 1..Len(post), post'[l].client = "gone"
        PROVE  \A j \in 1..Len(post'[l].lines) : post'[l].lines[j] \in late'
    BY <1>1, <2>2 DEF ClientsOK
  <2>3. ASSUME NEW l \in 1..Len(post)
        PROVE  /\ post'[l].client = "answered" => post'[l].lines = << >>
               /\ post'[l].step = "publish" => post'[l].lines # << >>
    BY <1>1 DEF ClientsOK
  <2> QED
    BY <1>1, <2>1, <2>2, <2>3 DEF ClientsOK
<1>9. AppliedInOrder'
  BY DEF AppliedInOrder
<1> QED
  BY <1>4, <1>5, <1>6, <1>7, <1>8, <1>9

\* The client's timeout: its handler goes on, and its lines may come late.
LEMMA GiveUpStep ==
    ASSUME Inv, NEW k \in DOMAIN post, GiveUp(k) PROVE Inv'
<1>1. Types /\ k \in 1..Len(post)
  BY DEF Inv, Types
<1> DEFINE p == post[k]
           q == [p EXCEPT !.client = "gone"]
<1>2. p \in Posts /\ p.lines \in Seq(Nat)
  BY <1>1, PostFacts
<1>3. /\ q \in Posts /\ q.lines = p.lines /\ q.step = p.step /\ q.client = "gone"
  BY <1>2 DEF Posts
<1>4. /\ post' = [post EXCEPT ![k] = q]
      /\ UNCHANGED <<emitted, in, batch, applied>> /\ late \subseteq late'
      /\ ToSet(p.lines) \subseteq late'
  BY DEF GiveUp, shipper
<1>5. \A j \in 1..Len(p.lines) : p.lines[j] \in late'
  BY <1>2, <1>4 DEF ToSet
<1>6. ASSUME NEW j \in 1..Len(q.lines)
      PROVE  /\ j + 0 \in 1..Len(p.lines) /\ q.lines[j] = p.lines[j + 0]
             /\ j > 1 \/ q.step = "apply" => Ahead(k, j + 0)
  BY <1>2, <1>3 DEF Ahead
<1>7. q.step = "publish" => q.lines # << >>
  BY <1>1, <1>3 DEF Inv, ClientsOK
<1> HIDE DEF q
<1> QED
  BY <1>1, <1>3, <1>4, <1>5, <1>6, <1>7, PostKeeps

\* The handler is done with its first line, applied or not.
LEMMA NextLineStep ==
    ASSUME Inv, NEW k \in DOMAIN post, post[k].lines # << >>, NextLine(k),
           UNCHANGED <<emitted, in, batch, applied, late>>
    PROVE  Inv'
<1>1. Types /\ k \in 1..Len(post)
  BY DEF Inv, Types
<1> DEFINE p == post[k]
           q == [p EXCEPT !.step = "apply", !.lines = Tail(@)]
<1>2. p \in Posts /\ p.lines \in Seq(Nat)
  BY <1>1, PostFacts
<1>3. /\ Tail(p.lines) \in Seq(Nat)
      /\ \A j \in 1..Len(Tail(p.lines)) :
           j + 1 \in 1..Len(p.lines) /\ Tail(p.lines)[j] = p.lines[j + 1]
  BY <1>2, TailFacts
<1>4. /\ q \in Posts /\ q.lines = Tail(p.lines) /\ q.step = "apply"
      /\ q.client = p.client
  BY <1>2, <1>3 DEF Posts
<1>5. post' = [post EXCEPT ![k] = q]
  BY DEF NextLine
<1>6. ASSUME NEW j \in 1..Len(q.lines)
      PROVE  /\ j + 1 \in 1..Len(p.lines) /\ q.lines[j] = p.lines[j + 1]
             /\ j > 1 \/ q.step = "apply" => Ahead(k, j + 1)
  BY <1>2, <1>3, <1>4 DEF Ahead
<1>7. q.client = "gone" => \A j \in 1..Len(q.lines) : q.lines[j] \in late'
  BY <1>1, <1>4, <1>6 DEF Inv, ClientsOK
<1>8. q.client # "answered"
  BY <1>1, <1>4 DEF Inv, ClientsOK
<1> HIDE DEF q
<1> QED
  BY <1>1, <1>4, <1>5, <1>6, <1>7, <1>8, PostKeeps

\* The answer reaches the client: no line is left.
LEMMA AnswerStep ==
    ASSUME Inv, NEW k \in DOMAIN post, Answer(k) PROVE Inv'
<1>1. Types /\ k \in 1..Len(post)
  BY DEF Inv, Types
<1> DEFINE p == post[k]
           q == [p EXCEPT !.client = "answered"]
<1>2. p \in Posts /\ p.lines = << >>
  BY <1>1, PostFacts DEF Answer
<1>3. q \in Posts /\ q.lines = << >> /\ q.step = p.step /\ q.client = "answered"
  BY <1>2 DEF Posts
<1>4. /\ post' = [post EXCEPT ![k] = q]
      /\ UNCHANGED <<emitted, in, batch, applied>> /\ late \subseteq late'
  BY DEF Answer, shipper, history
<1>5. q.step # "publish"
  BY <1>1, <1>2, <1>3 DEF Inv, ClientsOK
<1>6. \A j \in 1..Len(q.lines) : FALSE
  BY <1>3
<1> HIDE DEF q
<1> QED
  BY <1>1, <1>3, <1>4, <1>5, <1>6, PostKeeps

\* The body of a client that is gone ends: the lines left are not read.
LEMMA BodyEndsStep ==
    ASSUME Inv, NEW k \in DOMAIN post, BodyEnds(k) PROVE Inv'
<1>1. Types /\ k \in 1..Len(post)
  BY DEF Inv, Types
<1> DEFINE p == post[k]
           q == [p EXCEPT !.lines = << >>]
<1>2. p \in Posts /\ p.step = "apply" /\ p.client = "gone"
  BY <1>1, PostFacts DEF BodyEnds
<1>3. q \in Posts /\ q.lines = << >> /\ q.step = "apply" /\ q.client = "gone"
  <2>1. << >> \in Seq(Nat)
    OBVIOUS
  <2> QED
    BY <1>2, <2>1 DEF Posts
<1>4. /\ post' = [post EXCEPT ![k] = q]
      /\ UNCHANGED <<emitted, in, batch, applied>> /\ late \subseteq late'
  BY DEF BodyEnds, shipper, history
<1>5. \A j \in 1..Len(q.lines) : FALSE
  BY <1>3
<1> HIDE DEF q
<1> QED
  BY <1>1, <1>3, <1>4, <1>5, PostKeeps

\* Apply commits: the line is new, and it is the youngest applied unless its
\* client has gone.
LEMMA ApplyLineStep ==
    ASSUME Inv, NEW k \in DOMAIN post, ApplyLine(k) PROVE Inv'
<1> USE DEF Inv
<1> DEFINE p == post[k]
           q == [p EXCEPT !.step = "publish"]
           i == Head(p.lines)
           n == Len(applied) + 1
<1>1. Types /\ k \in 1..Len(post)
  BY DEF Types
<1>2. /\ p \in Posts /\ p.lines \in Seq(Nat) /\ p.lines # << >> /\ p.step = "apply"
      /\ p.client \in {"waiting", "answered", "gone"}
  BY <1>1, PostFacts DEF ApplyLine
<1>3. i \in Nat /\ i = p.lines[1] /\ 1 \in 1..Len(p.lines)
  BY <1>2, TailFacts
<1>4. q \in Posts /\ q.lines = p.lines /\ q.step = "publish" /\ q.client = p.client
  BY <1>2 DEF Posts
<1>5. /\ post' = [post EXCEPT ![k] = q] /\ applied' = Append(applied, i)
      /\ UNCHANGED <<emitted, in, batch, late>>
  BY DEF ApplyLine, shipper
<1> HIDE DEF i, q
<1>6. /\ post \in Seq(Posts) /\ post' \in Seq(Posts) /\ Len(post') = Len(post)
      /\ Len(post) \in Nat /\ post'[k] = q
      /\ \A l \in 1..Len(post) : l # k => post'[l] = post[l]
  BY <1>1, <1>4, <1>5 DEF Types
<1>7. /\ applied \in Seq(Nat) /\ Len(applied) \in Nat
      /\ applied' \in Seq(Nat) /\ Len(applied') = n
      /\ \A m \in 1..Len(applied) : applied'[m] = applied[m] /\ applied[m] \in Nat
      /\ applied'[n] = i
  BY <1>3, <1>5, AppendFacts DEF Types
<1>8. \A m \in 1..n : m \in 1..Len(applied) \/ m = n
  BY <1>7
<1>9. \A l \in 1..Len(post) : post'[l].lines = post[l].lines /\ post'[l].client = post[l].client
  BY <1>4, <1>6
<1>10. \A m \in 1..Len(applied) : applied[m] # i
  BY <1>1, <1>2, <1>3 DEF FreshOK, Ahead
<1>11. Types'
  BY <1>5, <1>6, <1>7 DEF Types
<1>12. PipeOK'
  <2>1. Shipped(p.lines)
    BY <1>1 DEF PostsOK
  <2>2. /\ i <= emitted
        /\ \A j \in 1..Len(batch) : i < batch[j]
        /\ \A j \in 1..Len(in) : i < in[j]
    BY <1>3, <2>1 DEF Shipped, UpTo, Below
  <2>3. Shipped(applied) /\ batch \in Seq(Nat) /\ in \in Seq(Nat)
    BY DEF PipeOK, Types
  <2>4. /\ UpTo(Append(applied, i), emitted) /\ Below(Append(applied, i), batch)
        /\ Below(Append(applied, i), in)
    BY <1>3, <1>7, <2>2, <2>3, AppendBelow DEF Shipped
  <2> QED
    BY <1>5, <2>4 DEF PipeOK, Shipped
<1>13. PostsOK'
  BY <1>5, <1>6, <1>9 DEF PostsOK, Shipped
<1>14. ASSUME NEW l \in 1..Len(post), NEW j \in 1..Len(post[l].lines)
       PROVE  /\ post[l].lines[j] \in Nat
              /\ k < l => i < post[l].lines[j]
              /\ l < k => post[l].lines[j] < i
              /\ l = k /\ j > 1 => i < post[l].lines[j]
  <2>1. post[l].lines[j] \in Nat
    BY PostFacts
  <2>2. ASSUME k < l PROVE i < post[l].lines[j]
    BY <1>1, <1>3, <2>2 DEF PostsOK, Below
  <2>3. ASSUME l < k PROVE post[l].lines[j] < i
    BY <1>1, <1>3, <2>3 DEF PostsOK, Below
  <2>4. ASSUME l = k, j > 1 PROVE i < post[l].lines[j]
    BY <1>1, <1>3, <2>4 DEF PostsOK, Increasing
  <2> QED
    BY <2>1, <2>2, <2>3, <2>4
<1>15. FreshOK'
  <2>1. ASSUME NEW l \in 1..Len(post), NEW j \in 1..Len(post[l].lines), Ahead(l, j)',
               NEW m \in 1..n
        PROVE  applied'[m] # post[l].lines[j]
    <3>1. Ahead(l, j) /\ (l = k => j > 1)
      BY <1>2, <1>4, <1>6, <2>1 DEF Ahead
    <3>2. CASE m \in 1..Len(applied)
      BY <1>7, <3>1, <3>2 DEF FreshOK
    <3>3. CASE m = n
      <4>1. l < k \/ k < l \/ l = k
        BY <1>1, <1>6
      <4>2. i # post[l].lines[j]
        BY <1>3, <1>14, <3>1, <4>1
      <4> QED
        BY <1>7, <3>3, <4>2
    <3> QED
      BY <1>8, <3>2, <3>3
  <2> SUFFICES ASSUME NEW l \in 1..Len(post'), NEW j \in 1..Len(post'[l].lines),
                      Ahead(l, j)', NEW m \in 1..Len(applied')
               PROVE  applied'[m] # post'[l].lines[j]
    BY DEF FreshOK
  <2>2. l \in 1..Len(post) /\ m \in 1..n /\ post'[l].lines = post[l].lines
    BY <1>6, <1>7, <1>9
  <2> QED
    BY <2>1, <2>2
<1>16. ClientsOK'
  <2>1. ASSUME NEW l \in 1..Len(post), post[l].client = "waiting",
               NEW j \in 1..Len(post[l].lines), NEW m \in 1..n
        PROVE  applied'[m] <= post[l].lines[j]
    <3>1. CASE m \in 1..Len(applied)
      BY <1>7, <2>1, <3>1 DEF ClientsOK
    <3>2. CASE m = n
      <4>1. l = Len(post)
        BY <2>1 DEF ClientsOK
      <4>2. k < l \/ l = k
        BY <1>1, <1>6, <4>1
      <4>3. j > 1 \/ j = 1
        BY <2>1
      <4> QED
        BY <1>3, <1>7, <1>14, <3>2, <4>2, <4>3
    <3> QED
      BY <1>8, <3>1, <3>2
  <2>2. ASSUME NEW l \in 1..Len(post)
        PROVE  post'[l].step = "publish" => post'[l].lines # << >>
    BY <1>2, <1>4, <1>6 DEF ClientsOK
  <2>3. ASSUME NEW l \in 1..Len(post)
        PROVE  /\ post[l].client = "waiting" => l = Len(post)
               /\ post[l].client = "gone" =>
                    \A j \in 1..Len(post[l].lines) : post[l].lines[j] \in late
               /\ post[l].client = "answered" => post[l].lines = << >>
    BY DEF ClientsOK
  <2> QED
    BY <1>5, <1>6, <1>7, <1>9, <2>1, <2>2, <2>3 DEF ClientsOK
<1>17. AppliedInOrder'
  <2>1. ASSUME NEW m \in 1..n, NEW l \in 1..n, m < l
        PROVE  \/ applied'[m] < applied'[l]
               \/ applied'[m] # applied'[l] /\ applied'[l] \in late
    <3>1. m \in 1..Len(applied)
      BY <1>7, <2>1
    <3>2. CASE l \in 1..Len(applied)
      <4>1. m \in DOMAIN applied /\ l \in DOMAIN applied
        BY <1>7, <3>1, <3>2
      <4> QED
        BY <1>7, <2>1, <3>1, <3>2, <4>1 DEF AppliedInOrder
    <3>3. CASE l = n
      <4>1. applied'[m] = applied[m] /\ applied[m] \in Nat /\ applied'[l] = i
            /\ applied[m] # i
        BY <1>7, <1>10, <3>1, <3>3
      <4>2. CASE p.client = "waiting"
        <5>1. applied[m] <= i
          BY <1>1, <1>3, <3>1, <4>2 DEF ClientsOK
        <5> QED
          BY <1>3, <4>1, <5>1
      <4>3. CASE p.client = "gone"
        <5>1. i \in late
          BY <1>1, <1>3, <4>3 DEF ClientsOK
        <5> QED
          BY <4>1, <5>1
      <4>4. CASE p.client = "answered"
        BY <1>1, <1>2, <4>4 DEF ClientsOK
      <4> QED
        BY <1>2, <4>2, <4>3, <4>4
    <3> QED
      BY <1>8, <3>2, <3>3
  <2>2. DOMAIN applied' = 1..n
    BY <1>7
  <2> QED
    BY <1>5, <2>1, <2>2 DEF AppliedInOrder
<1> QED
  BY <1>11, <1>12, <1>13, <1>15, <1>16, <1>17

-----------------------------------------------------------------------------
(***************************************************************************)
(* The theorems.                                                           *)
(***************************************************************************)

\* Steps of the live stream and of the worker's shutdown touch none of it.
LEMMA ElsewhereStep ==
    ASSUME Inv, UNCHANGED <<emitted, in, batch, post, applied, late>> PROVE Inv'
  BY DEF Inv, Types, PipeOK, PostsOK, Shipped, FreshOK, Ahead, ClientsOK,
         AppliedInOrder

\* Every step keeps the invariant.
LEMMA InvStep == ASSUME Inv, [Next]_vars PROVE Inv'
<1>1. CASE Handle
  BY <1>1, HandleStep
<1>2. CASE Take
  BY <1>2, TakeStep
<1>3. CASE Flush
  <2>1. ~Posting /\ batch # << >> /\ batch' = << >> /\ UNCHANGED <<emitted, in, applied, late>>
    BY <1>3 DEF Flush
  <2>2. CASE UNCHANGED post
    BY <2>1, <2>2, DropStep
  <2>3. CASE post' = Append(post, [lines |-> batch, step |-> "apply", client |-> "waiting"])
    BY <2>1, <2>3, PostStep
  <2> QED
    BY <1>3, <2>2, <2>3 DEF Flush
<1>4. CASE WorkerDies
  BY <1>4, WorkerDiesStep
<1>5. ASSUME NEW k \in DOMAIN post,
             \/ GiveUp(k)
             \/ ApplyLine(k) \/ ApplyFails(k) \/ Publish(k) \/ rehydrateFails(k)
             \/ Answer(k) \/ BodyEnds(k)
      PROVE  Inv'
  <2>1. k \in 1..Len(post) /\ post[k] \in Posts
    BY DEF Inv, Types
  <2>2. CASE ApplyFails(k)
    <3>1. [post[k] EXCEPT !.lines = Tail(@)]
          = [post[k] EXCEPT !.step = "apply", !.lines = Tail(@)]
      BY <2>1, <2>2 DEF ApplyFails, Posts
    <3>2. NextLine(k) /\ post[k].lines # << >>
          /\ UNCHANGED <<emitted, in, batch, applied, late>>
      BY <2>2, <3>1 DEF ApplyFails, NextLine, shipper
    <3> QED
      BY <3>2, NextLineStep
  <2>3. CASE Publish(k) \/ rehydrateFails(k)
    <3>1. NextLine(k) /\ post[k].lines # << >>
          /\ UNCHANGED <<emitted, in, batch, applied, late>>
      BY <2>1, <2>3 DEF Publish, rehydrateFails, shipper, history, Inv, ClientsOK
    <3> QED
      BY <3>1, NextLineStep
  <2> QED
    BY <1>5, <2>2, <2>3, GiveUpStep, ApplyLineStep, AnswerStep, BodyEndsStep
<1>6. CASE Stop \/ Drained \/ ReadFrame \/ (\E b \in BOOLEAN : Subscribe(b))
           \/ UNCHANGED vars
  <2>1. UNCHANGED <<emitted, in, batch, post, applied, late>>
    BY <1>6 DEF Stop, Drained, ReadFrame, Subscribe, vars, shipper, history
  <2> QED
    BY <2>1, ElsewhereStep
<1> QED
  BY <1>1, <1>2, <1>3, <1>4, <1>5, <1>6 DEF Next

\* The invariant holds throughout: on the worker, in the posts and in the
\* projection the events keep the order in which eventShipper.Handle got them,
\* and the handler of a waiting client has the last post.
THEOREM ShipInvariance == Spec => []Inv
<1>1. Init => Inv
  <2> SUFFICES ASSUME Init PROVE Inv
    OBVIOUS
  <2>1. /\ emitted = 0 /\ in = << >> /\ batch = << >> /\ post = << >>
        /\ applied = << >>
    BY DEF Init
  <2>2. Types /\ AppliedInOrder
    BY <2>1 DEF Types, AppliedInOrder
  <2>3. PipeOK
    BY <2>1, EmptyKeeps DEF PipeOK, Shipped
  <2>4. PostsOK /\ FreshOK /\ ClientsOK
    BY <2>1 DEF PostsOK, FreshOK, ClientsOK
  <2> QED
    BY <2>2, <2>3, <2>4 DEF Inv
<1>2. Inv /\ [Next]_vars => Inv'
  BY InvStep
<1> QED
  BY <1>1, <1>2, PTL DEF Spec

\* An event is applied once at most, and after the earlier ones that are
\* applied, unless it belongs to a batch that its client gave up on (post,
\* handleIngestEvents).
THEOREM EventsInOrder == Spec => []AppliedInOrder
<1>1. Inv => AppliedInOrder
  BY DEF Inv
<1> QED
  BY <1>1, ShipInvariance, PTL

-----------------------------------------------------------------------------
(***************************************************************************)
(* What becomes of an event: the safety behind NoSilentLoss.               *)
(***************************************************************************)

Within(i, s) == \E j \in 1..Len(s) : s[j] = i

\* Event i is on its way, or has been applied, or is counted as dropped.
Accounted(i) ==
    \/ i \in counted \/ Within(i, applied)
    \/ Within(i, in) \/ Within(i, batch)
    \/ \E k \in 1..Len(post) : Within(i, post[k].lines)

\* While its worker lives, every event emitted is accounted for, and a client
\* that gave up has counted what its handler may still skip.
NothingVanishes ==
    worker # "dead" =>
        /\ \A i \in 1..emitted : Accounted(i)
        /\ \A k \in 1..Len(post) : \A j \in 1..Len(post[k].lines) :
              post[k].client = "gone" => post[k].lines[j] \in counted

\* A line of which publish is due is applied, so skipping it loses nothing.
PublishedOK ==
    \A k \in 1..Len(post) :
        post[k].step = "publish" => Within(post[k].lines[1], applied)

\* What is in a sequence when a line is appended or taken.
LEMMA WithinFacts ==
    ASSUME NEW s \in Seq(Nat), NEW x \in Nat, NEW i
    PROVE  /\ Within(i, s) => Within(i, Append(s, x))
           /\ Within(x, Append(s, x))
           /\ s # << >> /\ Within(i, s) => i = Head(s) \/ Within(i, Tail(s))
<1>1. Within(i, s) => Within(i, Append(s, x))
  <2> SUFFICES ASSUME NEW j \in 1..Len(s), s[j] = i PROVE Within(i, Append(s, x))
    BY DEF Within
  <2>1. j \in 1..Len(Append(s, x)) /\ Append(s, x)[j] = i
    BY AppendFacts
  <2> QED
    BY <2>1 DEF Within
<1>2. Within(x, Append(s, x))
  <2>1. Len(s) + 1 \in 1..Len(Append(s, x)) /\ Append(s, x)[Len(s) + 1] = x
    BY AppendFacts
  <2> QED
    BY <2>1 DEF Within
<1>3. ASSUME s # << >>, NEW j \in 1..Len(s), s[j] = i
      PROVE  i = Head(s) \/ Within(i, Tail(s))
  <2>1. CASE j = 1
    BY <1>3, <2>1, TailFacts
  <2>2. CASE j # 1
    <3>1. j - 1 \in 1..Len(Tail(s)) /\ (j - 1) + 1 = j
      BY <1>3, <2>2, TailFacts
    <3>2. Tail(s)[j - 1] = i
      BY <1>3, <3>1, TailFacts
    <3> QED
      BY <3>1, <3>2 DEF Within
  <2> QED
    BY <2>1, <2>2
<1> QED
  BY <1>1, <1>2, <1>3 DEF Within

\* A step of the handler or of the client of post k: a line that leaves the
\* post is counted or applied.
LEMMA PostAccounts ==
    ASSUME Types, NothingVanishes, NEW k \in 1..Len(post), NEW q,
           post' = [post EXCEPT ![k] = q],
           UNCHANGED <<worker, emitted, in, batch>>, counted \subseteq counted',
           \A i : Within(i, applied) => Within(i, applied'),
           \A i : Within(i, post[k].lines) =>
                     Within(i, q.lines) \/ i \in counted' \/ Within(i, applied'),
           worker # "dead" /\ q.client = "gone" =>
               \A j \in 1..Len(q.lines) : q.lines[j] \in counted'
    PROVE  NothingVanishes'
<1>1. /\ Len(post') = Len(post) /\ DOMAIN post = 1..Len(post)
      /\ post'[k] = q /\ \A l \in 1..Len(post) : l # k => post'[l] = post[l]
  BY DEF Types
<1> SUFFICES ASSUME worker # "dead"
             PROVE  /\ \A i \in 1..emitted : Accounted(i)'
                    /\ \A l \in 1..Len(post) : \A j \in 1..Len(post'[l].lines) :
                         post'[l].client = "gone" => post'[l].lines[j] \in counted'
  BY <1>1 DEF NothingVanishes
<1>2. ASSUME NEW i \in 1..emitted PROVE Accounted(i)'
  <2>1. Accounted(i)
    BY DEF NothingVanishes
  <2>2. CASE i \in counted \/ Within(i, applied)
    BY <2>2 DEF Accounted
  <2>3. CASE Within(i, in) \/ Within(i, batch)
    BY <2>3 DEF Accounted
  <2>4. ASSUME NEW l \in 1..Len(post), Within(i, post[l].lines) PROVE Accounted(i)'
    <3>1. CASE l = k
      BY <1>1, <2>4, <3>1 DEF Accounted
    <3>2. CASE l # k
      BY <1>1, <2>4, <3>2 DEF Accounted
    <3> QED
      BY <3>1, <3>2
  <2> QED
    BY <2>1, <2>2, <2>3, <2>4 DEF Accounted
<1>3. ASSUME NEW l \in 1..Len(post), NEW j \in 1..Len(post'[l].lines),
             post'[l].client = "gone"
      PROVE  post'[l].lines[j] \in counted'
  <2>1. CASE l = k
    BY <1>1, <1>3, <2>1
  <2>2. CASE l # k
    BY <1>1, <1>3, <2>2 DEF NothingVanishes
  <2> QED
    BY <2>1, <2>2
<1> QED
  BY <1>2, <1>3

\* The steps of the shipper.
LEMMA ShipperAccounts ==
    ASSUME Inv, NothingVanishes, Handle \/ Take \/ Flush PROVE NothingVanishes'
<1>1. /\ emitted \in Nat /\ in \in Seq(Nat) /\ batch \in Seq(Nat)
      /\ applied \in Seq(Nat) /\ post \in Seq(Posts) /\ Len(post) \in Nat
  BY DEF Inv, Types
<1>2. worker' = worker /\ UNCHANGED applied
  BY DEF Handle, Take, Flush, history
<1> SUFFICES ASSUME worker # "dead"
             PROVE  /\ \A i \in 1..emitted' : Accounted(i)'
                    /\ \A l \in 1..Len(post') : \A j \in 1..Len(post'[l].lines) :
                         post'[l].client = "gone" => post'[l].lines[j] \in counted'
  BY <1>2 DEF NothingVanishes
<1>3. \A i \in 1..emitted : Accounted(i)
  BY DEF NothingVanishes
<1>4. ASSUME Handle PROVE \A i \in 1..emitted' : Accounted(i)'
  <2>1. emitted' = emitted + 1 /\ UNCHANGED <<batch, post>> /\ counted \subseteq counted'
    BY <1>4 DEF Handle
  <2>2. \A i : Within(i, in) => Within(i, in')
    <3>1. in' = in \/ in' = Append(in, emitted + 1)
      BY <1>4, <2>1 DEF Handle
    <3>2. emitted + 1 \in Nat
      BY <1>1
    <3> QED
      BY <1>1, <3>1, <3>2, WithinFacts
  <2>3. Within(emitted + 1, in') \/ emitted + 1 \in counted'
    <3>1. emitted + 1 \in Nat
      BY <1>1
    <3>2. Within(emitted + 1, Append(in, emitted + 1))
      BY <1>1, <3>1, WithinFacts
    <3> QED
      BY <1>4, <2>1, <3>2 DEF Handle
  <2>4. ASSUME NEW i \in 1..emitted PROVE Accounted(i)'
    BY <1>2, <1>3, <2>1, <2>2 DEF Accounted
  <2>5. ASSUME NEW i, i = emitted + 1 PROVE Accounted(i)'
    BY <2>3, <2>5 DEF Accounted
  <2>6. \A i \in 1..emitted' : i \in 1..emitted \/ i = emitted + 1
    BY <1>1, <2>1
  <2> QED
    BY <2>4, <2>5, <2>6
<1>5. ASSUME Take PROVE \A i \in 1..emitted' : Accounted(i)'
  <2>1. /\ in # << >> /\ batch' = Append(batch, Head(in)) /\ in' = Tail(in)
        /\ UNCHANGED <<emitted, post, counted>>
    BY <1>5 DEF Take, history
  <2>2. Head(in) \in Nat
    BY <1>1, <2>1, TailFacts
  <2>3. \A i : Within(i, batch) => Within(i, batch')
    BY <1>1, <2>1, <2>2, WithinFacts
  <2>4. Within(Head(in), batch')
    BY <1>1, <2>1, <2>2, WithinFacts
  <2>5. \A i : Within(i, in) => i = Head(in) \/ Within(i, in')
    BY <1>1, <2>1, <2>2, WithinFacts
  <2> QED
    BY <1>2, <1>3, <2>1, <2>3, <2>4, <2>5 DEF Accounted
<1>6. ASSUME Flush PROVE \A i \in 1..emitted' : Accounted(i)'
  <2>1. UNCHANGED <<emitted, in>> /\ counted \subseteq counted'
    BY <1>6 DEF Flush
  <2>2. CASE post' = Append(post, [lines |-> batch, step |-> "apply", client |-> "waiting"])
    <3>1. /\ Len(post) + 1 \in 1..Len(post') /\ post'[Len(post) + 1].lines = batch
          /\ \A k \in 1..Len(post) : k \in 1..Len(post') /\ post'[k] = post[k]
      BY <1>1, <2>2
    <3> QED
      BY <1>2, <1>3, <2>1, <3>1 DEF Accounted
  <2>3. CASE UNCHANGED post /\ counted' = counted \union ToSet(batch)
    <3>1. \A i : Within(i, batch) => i \in counted'
      BY <1>1, <2>3 DEF Within, ToSet
    <3> QED
      BY <1>2, <1>3, <2>1, <2>3, <3>1 DEF Accounted
  <2> QED
    BY <1>6, <2>2, <2>3 DEF Flush
<1>7. ASSUME NEW l \in 1..Len(post'), NEW j \in 1..Len(post'[l].lines),
             post'[l].client = "gone"
      PROVE  post'[l].lines[j] \in counted'
  <2>1. counted \subseteq counted'
    BY DEF Handle, Take, Flush, history
  <2>2. CASE UNCHANGED post
    BY <1>7, <2>1, <2>2 DEF NothingVanishes
  <2>3. CASE post' = Append(post, [lines |-> batch, step |-> "apply", client |-> "waiting"])
    <3>1. l \in 1..Len(post) /\ post'[l] = post[l]
      BY <1>1, <1>7, <2>3
    <3> QED
      BY <1>7, <2>1, <3>1 DEF NothingVanishes
  <2> QED
    BY <2>2, <2>3 DEF Handle, Take, Flush
<1> QED
  BY <1>4, <1>5, <1>6, <1>7

\* The steps of a post.
LEMMA HandlerAccounts ==
    ASSUME Inv, NothingVanishes, PublishedOK, NEW k \in DOMAIN post,
           \/ GiveUp(k)
           \/ ApplyLine(k) \/ ApplyFails(k) \/ Publish(k) \/ rehydrateFails(k)
           \/ Answer(k) \/ BodyEnds(k)
    PROVE  NothingVanishes'
<1> DEFINE p == post[k]
<1>1. /\ Types /\ k \in 1..Len(post) /\ p \in Posts /\ p.lines \in Seq(Nat)
      /\ applied \in Seq(Nat)
  BY PostFacts DEF Inv, Types
<1>2. worker # "dead" /\ p.client = "gone" =>
        \A j \in 1..Len(p.lines) : p.lines[j] \in counted
  BY <1>1 DEF NothingVanishes
<1>3. CASE GiveUp(k)
  <2> DEFINE q == [p EXCEPT !.client = "gone"]
  <2>1. q.lines = p.lines
    BY <1>1 DEF Posts
  <2>2. /\ post' = [post EXCEPT ![k] = q] /\ UNCHANGED <<worker, emitted, in, batch, applied>>
        /\ counted' = counted \union ToSet(p.lines)
    BY <1>3 DEF GiveUp, shipper
  <2>3. \A j \in 1..Len(q.lines) : q.lines[j] \in counted'
    BY <1>1, <2>1, <2>2 DEF ToSet
  <2> HIDE DEF q
  <2> QED
    BY <1>1, <2>1, <2>2, <2>3, PostAccounts
<1>4. CASE ApplyLine(k)
  <2> DEFINE q == [p EXCEPT !.step = "publish"]
  <2>1. q.lines = p.lines /\ q.client = p.client
    BY <1>1 DEF Posts
  <2>2. /\ post' = [post EXCEPT ![k] = q] /\ UNCHANGED <<worker, emitted, in, batch, counted>>
        /\ applied' = Append(applied, Head(p.lines)) /\ p.lines # << >>
    BY <1>4 DEF ApplyLine, shipper
  <2>3. Head(p.lines) \in Nat
    BY <1>1, <2>2, TailFacts
  <2>4. \A i : Within(i, applied) => Within(i, applied')
    BY <1>1, <2>2, <2>3, WithinFacts
  <2> HIDE DEF q
  <2> QED
    BY <1>1, <1>2, <2>1, <2>2, <2>4, PostAccounts
<1>5. CASE ApplyFails(k) \/ Publish(k) \/ rehydrateFails(k)
  <2> DEFINE q == [p EXCEPT !.step = "apply", !.lines = Tail(@)]
  <2>1. p.lines # << >> /\ UNCHANGED <<worker, emitted, in, batch, applied>>
        /\ counted \subseteq counted'
    BY <1>1, <1>5 DEF ApplyFails, Publish, rehydrateFails, shipper, history, Inv, ClientsOK
  <2>2. q.lines = Tail(p.lines) /\ q.client = p.client
    BY <1>1 DEF Posts
  <2>3. post' = [post EXCEPT ![k] = q]
    <3>1. CASE ApplyFails(k)
      <4>1. [p EXCEPT !.lines = Tail(@)] = q
        BY <1>1, <3>1 DEF ApplyFails, Posts
      <4> QED
        BY <3>1, <4>1 DEF ApplyFails
    <3>2. CASE Publish(k) \/ rehydrateFails(k)
      BY <3>2 DEF Publish, rehydrateFails, NextLine
    <3> QED
      BY <1>5, <3>1, <3>2
  <2>4. Head(p.lines) \in counted' \/ Within(Head(p.lines), applied)
    <3>1. CASE ApplyFails(k)
      BY <3>1 DEF ApplyFails
    <3>2. CASE Publish(k) \/ rehydrateFails(k)
      <4>1. Head(p.lines) = p.lines[1]
        BY <1>1, <2>1, TailFacts
      <4> QED
        BY <1>1, <3>2, <4>1 DEF Publish, rehydrateFails, PublishedOK
    <3> QED
      BY <1>5, <3>1, <3>2
  <2>5. \A i : Within(i, p.lines) => i = Head(p.lines) \/ Within(i, Tail(p.lines))
    BY <1>1, <2>1, TailFacts, WithinFacts
  <2>6. \A j \in 1..Len(q.lines) : j + 1 \in 1..Len(p.lines) /\ q.lines[j] = p.lines[j + 1]
    BY <1>1, <2>1, <2>2, TailFacts
  <2>7. worker # "dead" /\ q.client = "gone" =>
          \A j \in 1..Len(q.lines) : q.lines[j] \in counted'
    BY <1>2, <2>1, <2>2, <2>6
  <2> HIDE DEF q
  <2> QED
    BY <1>1, <2>1, <2>2, <2>3, <2>4, <2>5, <2>7, PostAccounts
<1>6. CASE Answer(k)
  <2> DEFINE q == [p EXCEPT !.client = "answered"]
  <2>1. q.lines = p.lines /\ q.client = "answered"
    BY <1>1 DEF Posts
  <2>2. /\ post' = [post EXCEPT ![k] = q]
        /\ UNCHANGED <<worker, emitted, in, batch, applied, counted>>
    BY <1>6 DEF Answer, shipper, history
  <2> HIDE DEF q
  <2> QED
    BY <1>1, <2>1, <2>2, PostAccounts
<1>7. CASE BodyEnds(k)
  <2> DEFINE q == [p EXCEPT !.lines = << >>]
  <2>1. q.lines = << >> /\ \A j \in 1..Len(q.lines) : FALSE
    BY <1>1 DEF Posts
  <2>2. /\ post' = [post EXCEPT ![k] = q]
        /\ UNCHANGED <<worker, emitted, in, batch, applied, counted>>
        /\ p.client = "gone"
    BY <1>7 DEF BodyEnds, shipper, history
  <2> HIDE DEF q
  <2>3. CASE worker # "dead"
    <3>1. \A i : Within(i, p.lines) => i \in counted'
      BY <1>2, <2>2, <2>3 DEF Within
    <3> QED
      BY <1>1, <2>1, <2>2, <3>1, PostAccounts
  <2>4. CASE worker = "dead"
    BY <2>2, <2>4 DEF NothingVanishes
  <2> QED
    BY <2>3, <2>4
<1> QED
  BY <1>3, <1>4, <1>5, <1>6, <1>7

\* A line is published after it was applied.
LEMMA PublishedStep == ASSUME Inv, PublishedOK, [Next]_vars PROVE PublishedOK'
<1>1. /\ post \in Seq(Posts) /\ applied \in Seq(Nat) /\ Len(post) \in Nat
      /\ DOMAIN post = 1..Len(post)
  BY DEF Inv, Types
<1>2. ASSUME UNCHANGED applied,
             \A k \in 1..Len(post') :
                 post'[k].step = "publish" =>
                    /\ k \in 1..Len(post) /\ post[k].step = "publish"
                    /\ post'[k].lines = post[k].lines
      PROVE  PublishedOK'
  BY <1>2 DEF PublishedOK
<1>3. CASE Handle \/ Take \/ Stop \/ Drained \/ ReadFrame
           \/ (\E b \in BOOLEAN : Subscribe(b)) \/ UNCHANGED vars
  <2>1. UNCHANGED <<post, applied>>
    BY <1>3 DEF Handle, Take, Stop, Drained, ReadFrame, Subscribe, vars, history
  <2> QED
    BY <2>1 DEF PublishedOK
<1>4. CASE Flush
  <2>1. UNCHANGED applied
    BY <1>4 DEF Flush
  <2>2. CASE UNCHANGED post
    BY <2>1, <2>2 DEF PublishedOK
  <2>3. CASE post' = Append(post, [lines |-> batch, step |-> "apply", client |-> "waiting"])
    <3>1. \A k \in 1..Len(post') :
            \/ k \in 1..Len(post) /\ post'[k] = post[k]
            \/ post'[k].step = "apply"
      BY <1>1, <2>3
    <3> QED
      BY <1>2, <2>1, <3>1
  <2> QED
    BY <1>4, <2>2, <2>3 DEF Flush
<1>5. CASE WorkerDies
  <2>1. UNCHANGED applied /\ Len(post') = Len(post)
    BY <1>1, <1>5 DEF WorkerDies
  <2>2. ASSUME NEW k \in 1..Len(post)
        PROVE  post'[k].step = post[k].step /\ post'[k].lines = post[k].lines
    <3>1. post[k] \in Posts
          /\ post'[k] = [post[k] EXCEPT !.client = IF @ = "waiting" THEN "gone" ELSE @]
      BY <1>1, <1>5 DEF WorkerDies
    <3> QED
      BY <3>1 DEF Posts
  <2> QED
    BY <1>2, <2>1, <2>2
<1>6. ASSUME NEW k \in DOMAIN post,
             \/ GiveUp(k)
             \/ ApplyLine(k) \/ ApplyFails(k) \/ Publish(k) \/ rehydrateFails(k)
             \/ Answer(k) \/ BodyEnds(k)
      PROVE  PublishedOK'
  <2>1. k \in 1..Len(post) /\ post[k] \in Posts /\ post[k].lines \in Seq(Nat)
    BY <1>1, PostFacts DEF Inv
  <2>2. /\ Len(post') = Len(post)
        /\ \A l \in 1..Len(post) : l # k => post'[l] = post[l]
    BY <1>1, <1>6 DEF GiveUp, ApplyLine, ApplyFails, Publish, rehydrateFails, Answer,
                      BodyEnds, NextLine
  <2>3. CASE ApplyLine(k)
    <3>1. /\ post[k].lines # << >> /\ applied' = Append(applied, Head(post[k].lines))
          /\ post' = [post EXCEPT ![k].step = "publish"]
      BY <2>3 DEF ApplyLine
    <3>2. post'[k].lines = post[k].lines
      BY <1>1, <2>1, <3>1 DEF Posts
    <3>3. Head(post[k].lines) \in Nat /\ Head(post[k].lines) = post[k].lines[1]
      BY <2>1, <3>1, TailFacts
    <3>4. Within(post'[k].lines[1], applied')
      BY <1>1, <3>1, <3>2, <3>3, WithinFacts
    <3>5. \A i : Within(i, applied) => Within(i, applied')
      BY <1>1, <3>1, <3>3, WithinFacts
    <3> QED
      BY <2>2, <3>4, <3>5 DEF PublishedOK
  <2>4. CASE GiveUp(k) \/ Answer(k)
    <3>1. UNCHANGED applied
      BY <2>4 DEF GiveUp, Answer, history
    <3>2. post'[k].step = post[k].step /\ post'[k].lines = post[k].lines
      BY <1>1, <2>1, <2>4 DEF GiveUp, Answer, Posts
    <3> QED
      BY <1>2, <2>2, <3>1, <3>2
  <2>5. CASE ApplyFails(k) \/ Publish(k) \/ rehydrateFails(k) \/ BodyEnds(k)
    <3>1. UNCHANGED applied
      BY <2>5 DEF ApplyFails, Publish, rehydrateFails, BodyEnds, history
    <3>2. post'[k].step = "apply"
      BY <1>1, <2>1, <2>5 DEF ApplyFails, Publish, rehydrateFails, BodyEnds, NextLine, Posts
    <3> QED
      BY <1>2, <2>2, <3>1, <3>2
  <2> QED
    BY <1>6, <2>3, <2>4, <2>5
<1> QED
  BY <1>3, <1>4, <1>5, <1>6 DEF Next

\* No event is lost without a trace while its worker lives: it is on its way,
\* applied, or in a drop counter, wherever Handle, flush, post, Apply and the
\* handlers of abandoned batches are (the safety half of NoSilentLoss).
THEOREM EventsAreAccountedFor == Spec => []NothingVanishes
<1>1. Init => NothingVanishes /\ PublishedOK
  BY DEF Init, NothingVanishes, PublishedOK
<1>2. Inv /\ PublishedOK /\ NothingVanishes /\ [Next]_vars
        => NothingVanishes' /\ PublishedOK'
  <2> SUFFICES ASSUME Inv, PublishedOK, NothingVanishes, [Next]_vars
               PROVE  NothingVanishes'
    BY PublishedStep
  <2>1. CASE WorkerDies
    BY <2>1 DEF WorkerDies, NothingVanishes
  <2>2. CASE Stop \/ Drained \/ ReadFrame \/ (\E b \in BOOLEAN : Subscribe(b))
             \/ UNCHANGED vars
    <3>1. UNCHANGED <<emitted, in, batch, post, applied, counted>>
          /\ (worker' # "dead" => worker # "dead")
      BY <2>2 DEF Stop, Drained, ReadFrame, Subscribe, vars, shipper, history
    <3> QED
      BY <3>1 DEF NothingVanishes, Accounted
  <2> QED
    BY <2>1, <2>2, ShipperAccounts, HandlerAccounts DEF Next
<1> QED
  BY <1>1, <1>2, ShipInvariance, PTL DEF Spec

=============================================================================
