-------------------------- MODULE BlinkHostProofs --------------------------
(***************************************************************************)
(* Proofs about BlinkHost for every number of hosts, continuations,        *)
(* listeners and pending deliveries, and calls of any depth.               *)
(***************************************************************************)
EXTENDS BlinkHost, SequenceTheorems, TLAPS

Frames == [op : ProgramCalls \cup OtherCalls, host : Hosts \cup {None},
           saved : Hosts \cup {None}, left : SUBSET Listeners]

LEMMA NoneIsNoHost == None \notin Hosts
BY DEF None, Hosts

(* Calls enter and leave at the end of the stack.                          *)
LEMMA PushFacts ==
  ASSUME NEW s \in Seq(Frames), NEW f \in Frames
  PROVE  /\ Append(s, f) \in Seq(Frames) /\ Append(s, f) # <<>>
         /\ Len(s) \in Nat /\ DOMAIN s = 1..Len(s)
         /\ Len(Append(s, f)) = Len(s) + 1 /\ DOMAIN Append(s, f) = 1..(Len(s) + 1)
         /\ \A i \in 1..Len(s) : Append(s, f)[i] = s[i]
         /\ Append(s, f)[Len(s) + 1] = f /\ Last(Append(s, f)) = f
BY AppendProperties, LenProperties DEF Last

LEMMA PopFacts ==
  ASSUME NEW s \in Seq(Frames), s # <<>>
  PROVE  /\ Front(s) \in Seq(Frames) /\ Len(s) \in Nat \ {0}
         /\ Len(Front(s)) = Len(s) - 1 /\ DOMAIN Front(s) = 1..(Len(s) - 1)
         /\ DOMAIN s = 1..Len(s)
         /\ \A i \in 1..(Len(s) - 1) : Front(s)[i] = s[i]
         /\ Last(s) = s[Len(s)] /\ Last(s) \in Frames
<1>1. Len(s) \in Nat \ {0} /\ DOMAIN s = 1..Len(s)
  BY EmptySeq, LenProperties
<1>2. \A i \in 1..Len(s) : s[i] \in Frames
  BY ElementOfSeq
<1>3. PICK n \in Nat : Len(s) = n + 1
  <2>1. \A k \in Nat \ {0} : k - 1 \in Nat /\ k = (k - 1) + 1
    OBVIOUS
  <2> QED
    BY <1>1, <2>1
<1>4. Front(s) = SubSeq(s, 1, n)
  <2>1. (n + 1) - 1 = n
    OBVIOUS
  <2> QED
    BY <1>3, <2>1 DEF Front
<1>5. /\ SubSeq(s, 1, n) \in Seq(Frames)
      /\ Len(SubSeq(s, 1, n)) = IF 1 <= n THEN n - 1 + 1 ELSE 0
      /\ \A i \in 1..(n - 1 + 1) : SubSeq(s, 1, n)[i] = s[1 + i - 1]
  <2>1. \A i \in 1..n : s[i] \in Frames
    BY <1>2, <1>3
  <2> QED
    BY <2>1, SubSeqProperties
<1>6. /\ Len(s) - 1 = n
      /\ n = IF 1 <= n THEN n - 1 + 1 ELSE 0
      /\ n - 1 + 1 = n
      /\ \A i \in 1..n : 1 + i - 1 = i
  BY <1>3
<1>7. Front(s) \in Seq(Frames) /\ Len(Front(s)) = n /\ \A i \in 1..n : Front(s)[i] = s[i]
  <2>1. \A i \in 1..n : SubSeq(s, 1, n)[i] = s[i]
    BY <1>5, <1>6, Zenon
  <2>2. Len(SubSeq(s, 1, n)) = n
    BY <1>5, <1>6, Zenon
  <2> QED
    BY <1>4, <1>5, <2>1, <2>2, Zenon
<1>8. DOMAIN Front(s) = 1..n
  BY <1>7, LenProperties, Zenon
<1>9. Last(s) = s[Len(s)] /\ Last(s) \in Frames
  BY <1>1, <1>2 DEF Last
<1> QED
  BY <1>1, <1>6, <1>7, <1>8, <1>9, Zenon

(* The innermost call may be rewritten in place: a failed start becomes a  *)
(* stop, an event has one listener less to invoke.                         *)
LEMMA RewriteFacts ==
  ASSUME NEW s \in Seq(Frames), s # <<>>, NEW f \in Frames
  PROVE  LET t == [s EXCEPT ![Len(s)] = f] IN
         /\ t \in Seq(Frames) /\ Len(t) = Len(s) /\ DOMAIN t = 1..Len(s)
         /\ \A i \in 1..Len(s) : t[i] = IF i = Len(s) THEN f ELSE s[i]
<1>1. Len(s) \in 1..Len(s)
  BY EmptySeq
<1> QED
  BY <1>1, ExceptSeq, LenProperties

-----------------------------------------------------------------------------
(* What the pieces of the state know of one another.                       *)

(* A host has a realm from its construction until it is gone.              *)
HostsConsistent ==
  \A h \in Hosts :
    /\ host[h] = "none" => realm[h] = "none"
    /\ host[h] \in {"starting", "started", "stopping"} => realm[h] \in {"alive", "invalid"}

(* The one scheduler belongs to the one living realm that can stop it, and *)
(* whatever is queued and not cancelled was queued through it.             *)
SchedulerConsistent ==
  /\ stopHook = {scheduler} \ {None}
  /\ scheduler # None => realm[scheduler] = "alive"
  /\ \A j \in Jobs : job[j] = "queued" => scheduler # None /\ jobRealm[j] = scheduler

(* Who is configured has the one service, which then admits deliveries;    *)
(* a service that admits none has none.  A started host is configured, and *)
(* has the scheduler as long as its realm lives and is not invalidated.    *)
ServiceConsistent ==
  /\ \A h \in configured : service = h /\ accepting /\ host[h] \in {"starting", "started", "stopping"}
  /\ accepting => service \in configured
  /\ ~ accepting => pending = 0

Invalidating(h) == \E i \in 1..Len(stack) : stack[i].op = "invalidate" /\ stack[i].host = h

StartedServed ==
  \A h \in Hosts : host[h] = "started" =>
    h \in configured /\ (realm[h] = "alive" /\ ~ Invalidating(h) => scheduler = h)

(* Only continuations, handlers and events are nested.  A call keeps what  *)
(* was current when it entered, for the outermost one nothing; while the   *)
(* i-th call is innermost the (i+1)-th saved what is current, and an event *)
(* restores nothing because it makes nothing current.                      *)
NestedCalls == {"continuation", "handler", "event"}
CurrentAt(s, c, i) == IF i = Len(s) THEN c ELSE s[i + 1].saved

StackShape(s, c) ==
  /\ s = <<>> => c = None
  /\ s # <<>> => s[1].saved = None
  /\ \A i \in 1..Len(s) :
       /\ i > 1 => s[i].op \in NestedCalls
       /\ s[i].op = "event" => s[i].saved = CurrentAt(s, c, i)

(* The parts of a construction, of a shutdown and of an invalidation find  *)
(* their host as the part before left it.                                  *)
OutermostCalls == {"scheduler", "callbacks", "start", "rollback", "stop", "invalidate"}

CallConsistent(f) ==
  /\ f.op \in OutermostCalls => f.host \in Hosts
  /\ f.op \in {"scheduler", "callbacks", "start"} => host[f.host] = "starting" /\ realm[f.host] = "alive"
  /\ f.op \in {"callbacks", "start"} => scheduler = f.host
  /\ f.op = "start" => f.host \in configured
  /\ f.op \in {"rollback", "stop"} => host[f.host] = "stopping"
  /\ f.op = "invalidate" => realm[f.host] = "alive" /\ scheduler # f.host

StackConsistent ==
  StackShape(stack, current) /\ \A i \in 1..Len(stack) : CallConsistent(stack[i])

(* A job is in the microtask queue once, until it is run or freed.         *)
MicrotasksConsistent ==
  /\ \A i \in 1..Len(microtasks) : job[microtasks[i]] \in {"queued", "cancelled"}
  /\ \A i, k \in 1..Len(microtasks) : microtasks[i] = microtasks[k] => i = k

(* RealmPointersLive, by what holds the pointer.                           *)
Exists(h) == h = None \/ realm[h] \in {"alive", "invalid"}
ReferencesLive == (\A h \in observer : Exists(h)) /\ \A l \in Listeners : Exists(target[l])
CallsLive == Exists(current) /\ \A i \in 1..Len(stack) : Exists(stack[i].saved)

IInv ==
  /\ TypeOK /\ HostsConsistent /\ SchedulerConsistent /\ StackConsistent
  /\ MicrotasksConsistent /\ ServiceConsistent /\ StartedServed /\ ReferencesLive /\ CallsLive

-----------------------------------------------------------------------------
(* How the shape of the stack survives a call, a return and a rewriting.   *)
LEMMA PushShape ==
  ASSUME NEW s \in Seq(Frames), NEW c, StackShape(s, c), NEW d, NEW f \in Frames,
         f.saved = c, s = <<>> \/ f.op \in NestedCalls, f.op = "event" => d = c
  PROVE  StackShape(Append(s, f), d)
<1> DEFINE t == Append(s, f)
           n == Len(s)
<1>1. /\ t \in Seq(Frames) /\ t # <<>> /\ n \in Nat /\ Len(t) = n + 1
      /\ \A i \in 1..n : t[i] = s[i]
      /\ t[n + 1] = f
  BY PushFacts
<1>2. s = <<>> => n = 0
  BY EmptySeq
<1>3. s # <<>> => n > 0
  BY EmptySeq
<1>4. t[1].saved = None
  <2>1. CASE s = <<>>
    BY <1>1, <1>2, <2>1 DEF StackShape
  <2>2. CASE s # <<>>
    <3>1. 1 \in 1..n
      BY <1>1, <1>3, <2>2
    <3> QED
      BY <1>1, <2>2, <3>1, Zenon DEF StackShape
  <2> QED
    BY <2>1, <2>2
<1>5. ASSUME NEW i \in 1..(n + 1)
      PROVE  /\ i > 1 => t[i].op \in NestedCalls
             /\ t[i].op = "event" => t[i].saved = IF i = n + 1 THEN d ELSE t[i + 1].saved
  <2>1. CASE i = n + 1
    <3>1. t[i] = f
      BY <1>1, <2>1, Zenon
    <3>2. i > 1 => s # <<>>
      BY <1>1, <1>2, <2>1
    <3> QED
      BY <2>1, <3>1, <3>2
  <2>2. CASE i # n + 1
    <3>1. i \in 1..n /\ (i = n \/ i + 1 \in 1..n) /\ i # n + 1
      BY <1>1, <2>2
    <3>2. t[i] = s[i]
      BY <1>1, <3>1, Zenon
    <3>3. /\ i > 1 => s[i].op \in NestedCalls
          /\ s[i].op = "event" => s[i].saved = IF i = n THEN c ELSE s[i + 1].saved
      BY <3>1, Zenon DEF StackShape, CurrentAt
    <3>4. IF i = n THEN t[i + 1].saved = c ELSE t[i + 1].saved = s[i + 1].saved
      BY <1>1, <3>1, Zenon
    <3> QED
      BY <3>1, <3>2, <3>3, <3>4, Zenon
  <2> QED
    BY <2>1, <2>2
<1> HIDE DEF t, n
<1>6. StackShape(t, d)
  BY <1>1, <1>4, <1>5, Zenon DEF StackShape, CurrentAt
<1> QED
  BY <1>6 DEF t

LEMMA PopShape ==
  ASSUME NEW s \in Seq(Frames), s # <<>>, NEW c, StackShape(s, c)
  PROVE  StackShape(Front(s), Last(s).saved)
<1> DEFINE t == Front(s)
           n == Len(s)
<1>1. /\ t \in Seq(Frames) /\ n \in Nat \ {0} /\ Len(t) = n - 1
      /\ \A i \in 1..(n - 1) : t[i] = s[i]
      /\ Last(s) = s[n]
  BY PopFacts
<1>2. /\ s[1].saved = None
      /\ \A i \in 1..n : /\ i > 1 => s[i].op \in NestedCalls
                         /\ s[i].op = "event" => s[i].saved = IF i = n THEN c ELSE s[i + 1].saved
  BY DEF StackShape, CurrentAt
<1>3. t # <<>> => n - 1 \in Nat \ {0}
  BY <1>1, EmptySeq
<1>4. t = <<>> => n = 1
  BY <1>1, EmptySeq
<1>5. t = <<>> => Last(s).saved = None
  BY <1>1, <1>2, <1>4
<1>6. t # <<>> => t[1].saved = None
  BY <1>1, <1>2, <1>3
<1>7. ASSUME NEW i \in 1..(n - 1)
      PROVE  /\ i > 1 => t[i].op \in NestedCalls
             /\ t[i].op = "event" => t[i].saved = IF i = n - 1 THEN s[n].saved ELSE t[i + 1].saved
  <2>1. i \in 1..n /\ i # n /\ (IF i = n - 1 THEN i + 1 = n ELSE i + 1 \in 1..(n - 1))
    BY <1>1
  <2>2. t[i] = s[i] /\ (IF i = n - 1 THEN s[i + 1] = s[n] ELSE t[i + 1] = s[i + 1])
    BY <1>1, <2>1, Zenon
  <2> QED
    BY <1>2, <2>1, <2>2, Zenon
<1> HIDE DEF t, n
<1>8. StackShape(t, s[n].saved)
  BY <1>1, <1>5, <1>6, <1>7, Zenon DEF StackShape, CurrentAt
<1> QED
  BY <1>1, <1>8, Zenon DEF t

LEMMA RewriteShape ==
  ASSUME NEW s \in Seq(Frames), s # <<>>, NEW c, StackShape(s, c),
         NEW f \in Frames, f.op = Last(s).op, f.saved = Last(s).saved
  PROVE  StackShape([s EXCEPT ![Len(s)] = f], c)
<1> DEFINE t == [s EXCEPT ![Len(s)] = f]
           n == Len(s)
<1>1. t \in Seq(Frames) /\ Len(t) = n /\ \A i \in 1..n : t[i] = IF i = n THEN f ELSE s[i]
  BY RewriteFacts
<1>2. n \in Nat \ {0} /\ Last(s) = s[n] /\ n \in 1..n
  BY PopFacts
<1>3. \A i \in 1..n : t[i].op = s[i].op /\ t[i].saved = s[i].saved
  BY <1>1, <1>2, Zenon
<1>4. t # <<>> /\ 1 \in 1..n
  BY <1>1, <1>2, EmptySeq
<1>5. \A i \in 1..n : i # n => i + 1 \in 1..n
  BY <1>2
<1> HIDE DEF t, n
<1>6. StackShape(s, c) <=>
        /\ s[1].saved = None
        /\ \A i \in 1..n : /\ i > 1 => s[i].op \in NestedCalls
                           /\ s[i].op = "event" => s[i].saved = IF i = n THEN c ELSE s[i + 1].saved
  BY Zenon DEF StackShape, CurrentAt, n
<1>7. StackShape(t, c) <=>
        /\ t[1].saved = None
        /\ \A i \in 1..n : /\ i > 1 => t[i].op \in NestedCalls
                           /\ t[i].op = "event" => t[i].saved = IF i = n THEN c ELSE t[i + 1].saved
  BY <1>1, <1>4, Zenon DEF StackShape, CurrentAt
<1>8. StackShape(t, c)
  BY <1>3, <1>4, <1>5, <1>6, <1>7, Zenon
<1> QED
  BY <1>8 DEF t, n

-----------------------------------------------------------------------------
(* The invariant under the steps of the stack.                             *)
LEMMA StackTyped == TypeOK <=> TypeOK /\ stack \in Seq(Frames)
BY DEF TypeOK, Frames

LEMMA TopFacts ==
  ASSUME IInv, ~ Idle
  PROVE  /\ Top \in Frames /\ Top = stack[Len(stack)] /\ CallConsistent(Top)
         /\ stack \in Seq(Frames) /\ stack # <<>> /\ Len(stack) \in Nat \ {0}
         /\ Top.op = "event" => Top.saved = current
         /\ Top.op \in OutermostCalls => Front(stack) = <<>> /\ Top.saved = None /\ Len(stack) = 1
<1>1. stack \in Seq(Frames) /\ stack # <<>> /\ StackShape(stack, current)
  BY StackTyped DEF IInv, Idle, StackConsistent
<1>2. /\ Len(stack) \in Nat \ {0} /\ Len(stack) \in 1..Len(stack)
      /\ Top \in Frames /\ Top = stack[Len(stack)]
  BY <1>1, PopFacts DEF Top
<1>3. CallConsistent(Top)
  BY <1>2 DEF IInv, StackConsistent
<1>4. Top.op = "event" => Top.saved = current
  BY <1>1, <1>2, Zenon DEF StackShape, CurrentAt
<1>5. ASSUME Top.op \in OutermostCalls
      PROVE  Front(stack) = <<>> /\ Top.saved = None /\ Len(stack) = 1
  <2>1. Len(stack) > 1 => Top.op \in NestedCalls
    BY <1>1, <1>2, Zenon DEF StackShape
  <2>2. Len(stack) = 1
    <3>1. Top.op \notin NestedCalls
      BY <1>5 DEF NestedCalls, OutermostCalls
    <3>2. ~ (Len(stack) > 1)
      BY <2>1, <3>1, Zenon
    <3>3. \A n \in Nat \ {0} : ~ (n > 1) => n = 1
      OBVIOUS
    <3> QED
      BY <1>2, <3>2, <3>3
  <2>3. Front(stack) \in Seq(Frames) /\ Len(Front(stack)) = Len(stack) - 1
    BY <1>1, PopFacts
  <2>4. Len(Front(stack)) = 0
    BY <2>2, <2>3
  <2>5. Front(stack) = <<>>
    BY <2>3, <2>4, EmptySeq
  <2>6. Top.saved = None
    BY <1>1, <1>2, <2>2, Zenon DEF StackShape
  <2> QED
    BY <2>2, <2>5, <2>6
<1> QED
  BY <1>1, <1>2, <1>3, <1>4, <1>5

LEMMA Pushed ==
  ASSUME IInv, NEW f \in Frames, stack' = Append(stack, f), f.saved = current,
         Idle \/ (f.op \in NestedCalls /\ UNCHANGED <<host, realm, scheduler, configured>>),
         f.op = "event" => current' = current,
         CallConsistent(f)', Exists(current)'
  PROVE  StackConsistent' /\ CallsLive'
<1>1. stack \in Seq(Frames) /\ StackShape(stack, current)
  BY StackTyped DEF IInv, StackConsistent
<1>2. StackShape(stack', current')
  BY <1>1, PushShape DEF Idle
<1>3. /\ Len(stack) \in Nat /\ Len(stack') = Len(stack) + 1
      /\ \A i \in 1..Len(stack) : stack'[i] = stack[i]
      /\ stack'[Len(stack) + 1] = f
  BY <1>1, PushFacts
<1>4. Idle => Len(stack) = 0
  BY EmptySeq DEF Idle
<1>5. \A i \in 1..Len(stack') : stack'[i] = f \/ \E k \in 1..Len(stack) : stack'[i] = stack[k]
  <2>1. \A i \in 1..Len(stack') : i \in 1..Len(stack) \/ i = Len(stack) + 1
    BY <1>3
  <2> QED
    BY <1>3, <2>1, Zenon
<1>6. ASSUME NEW k \in 1..Len(stack)
      PROVE  CallConsistent(stack[k]) /\ Exists(stack[k].saved)
             /\ host' = host /\ realm' = realm /\ scheduler' = scheduler /\ configured' = configured
  BY <1>3, <1>4 DEF IInv, StackConsistent, CallsLive
<1>7. Exists(f.saved)'
  <2>1. CASE Idle
    BY <1>1, <2>1 DEF Idle, StackShape, Exists
  <2>2. CASE ~ Idle
    BY <2>2 DEF IInv, CallsLive, Exists
  <2> QED
    BY <2>1, <2>2
<1>8. ASSUME NEW i \in 1..Len(stack')
      PROVE  CallConsistent(stack[i])' /\ Exists(stack[i].saved)'
  <2>1. CASE stack'[i] = f
    BY <1>7, <2>1 DEF CallConsistent, Exists
  <2>2. CASE \E k \in 1..Len(stack) : stack'[i] = stack[k]
    BY <1>6, <2>2 DEF CallConsistent, Exists
  <2> QED
    BY <1>5, <2>1, <2>2
<1> QED
  BY <1>2, <1>8 DEF StackConsistent, CallsLive

LEMMA Popped ==
  ASSUME IInv, ~ Idle, stack' = Front(stack), current' = Top.saved,
         Top.op \in OutermostCalls \/ UNCHANGED <<host, realm, scheduler, configured>>
  PROVE  StackConsistent' /\ CallsLive'
<1>1. stack \in Seq(Frames) /\ stack # <<>> /\ StackShape(stack, current)
  BY TopFacts DEF IInv, StackConsistent
<1>2. StackShape(stack', current')
  BY <1>1, PopShape DEF Top
<1>3. /\ Len(stack) \in Nat \ {0} /\ Len(stack') = Len(stack) - 1
      /\ \A i \in 1..(Len(stack) - 1) : stack'[i] = stack[i]
  BY <1>1, PopFacts
<1>4. CASE Top.op \in OutermostCalls
  <2>1. Len(stack') = 0 /\ current' = None
    BY <1>4, TopFacts, EmptySeq
  <2> QED
    BY <1>2, <2>1 DEF StackConsistent, CallsLive, Exists
<1>5. CASE UNCHANGED <<host, realm, scheduler, configured>>
  <2>1. ASSUME NEW i \in 1..Len(stack')
        PROVE  i \in 1..Len(stack) /\ stack'[i] = stack[i]
    BY <1>3
  <2>2. ASSUME NEW i \in 1..Len(stack')
        PROVE  CallConsistent(stack[i])' /\ Exists(stack[i].saved)'
    <3>1. CallConsistent(stack[i]) /\ Exists(stack[i].saved)
      BY <2>1 DEF IInv, StackConsistent, CallsLive
    <3> QED
      BY <1>5, <2>1, <3>1 DEF CallConsistent, Exists
  <2>3. Exists(current)'
    <3>1. Exists(Top.saved)
      BY TopFacts DEF IInv, CallsLive
    <3> QED
      BY <1>5, <3>1 DEF Exists
  <2> QED
    BY <1>2, <2>2, <2>3 DEF StackConsistent, CallsLive
<1> QED
  BY <1>4, <1>5

LEMMA Continued ==
  ASSUME IInv, NEW from \in OutermostCalls, NEW to \in OutermostCalls, Continue(from, to), UNCHANGED realm,
         \A f \in Frames : f.op = to /\ f.host = Top.host => CallConsistent(f)'
  PROVE  StackConsistent' /\ CallsLive'
<1>1. /\ Top.op = from /\ ~ Idle /\ current' = current
      /\ stack' = Append(Front(stack), [Top EXCEPT !.op = to])
  BY DEF Continue
<1>2. /\ Top \in Frames /\ Front(stack) = <<>> /\ Top.saved = None /\ stack # <<>>
      /\ stack \in Seq(Frames)
  BY <1>1, TopFacts
<1>3. PICK f \in Frames : f = [Top EXCEPT !.op = to]
  BY <1>2 DEF Frames, OutermostCalls, ProgramCalls, OtherCalls
<1>4. f.op = to /\ f.host = Top.host /\ f.saved = None /\ f.op # "event"
  BY <1>2, <1>3 DEF Frames, OutermostCalls
<1>5. StackShape(<<>>, None)
  BY <1>2, PopShape DEF IInv, StackConsistent, Top
<1>6. StackShape(stack', current')
  BY <1>1, <1>2, <1>3, <1>4, <1>5, PushShape, EmptySeq
<1>7. Len(stack') = 1 /\ stack'[1] = f
  <2>1. <<>> \in Seq(Frames) /\ Len(<<>>) = 0 /\ stack' = Append(<<>>, f)
    BY <1>1, <1>2, <1>3, EmptySeq
  <2>2. Len(stack') = Len(<<>>) + 1 /\ stack'[Len(<<>>) + 1] = f
    BY <2>1, PushFacts
  <2> QED
    BY <2>1, <2>2
<1>8. \A i \in 1..Len(stack') : stack'[i] = f
  BY <1>7
<1>9. CallConsistent(f)' /\ Exists(f.saved)' /\ Exists(current)'
  BY <1>1, <1>4 DEF IInv, CallsLive, Exists
<1> QED
  BY <1>6, <1>8, <1>9 DEF StackConsistent, CallsLive, CallConsistent, Exists

-----------------------------------------------------------------------------
(* The invariant under each step, one part of it at a time.                *)
LEMMA OutermostFacts ==
  ASSUME IInv, ~ Idle, Top.op \in OutermostCalls
  PROVE  /\ Top.host \in Hosts
         /\ Top.op \in {"scheduler", "callbacks", "start"} =>
              host[Top.host] = "starting" /\ realm[Top.host] = "alive"
         /\ Top.op \in {"callbacks", "start"} => scheduler = Top.host
         /\ Top.op = "start" => Top.host \in configured
         /\ Top.op \in {"rollback", "stop"} => host[Top.host] = "stopping"
         /\ Top.op = "invalidate" => realm[Top.host] = "alive" /\ scheduler # Top.host
BY TopFacts DEF CallConsistent

LEMMA HostsStep ==
  ASSUME IInv, [Next]_vars
  PROVE  HostsConsistent'
<1>1. HostsConsistent /\ TypeOK
  BY DEF IInv
<1>2. CASE UNCHANGED <<host, realm>>
  BY <1>1, <1>2 DEF HostsConsistent
<1>3. ASSUME NEW h \in Hosts, StartHost(h)
      PROVE  HostsConsistent'
  BY <1>1, <1>3 DEF StartHost, HostsConsistent, TypeOK
<1>4. ASSUME NEW h \in Hosts, DestroyHost(h)
      PROVE  HostsConsistent'
  BY <1>1, <1>4 DEF DestroyHost, HostsConsistent, TypeOK
<1>5. CASE Started
  <2>1. Top.host \in Hosts /\ host[Top.host] = "starting"
    BY <1>5, OutermostFacts DEF Started, Return, OutermostCalls
  <2> QED
    BY <1>1, <1>5, <2>1 DEF Started, HostBecomes, HostsConsistent, TypeOK
<1>6. CASE StartFailed
  <2>1. Top.host \in Hosts /\ host[Top.host] = "starting"
    BY <1>6, OutermostFacts DEF StartFailed, Continue, OutermostCalls
  <2> QED
    BY <1>1, <1>6, <2>1 DEF StartFailed, HostBecomes, HostsConsistent, TypeOK
<1>9. CASE ConfigureScheduler \/ ConfigureCallbacks
  <2>1. Top.host \in Hosts /\ host[Top.host] = "starting"
    BY <1>9, OutermostFacts DEF ConfigureScheduler, ConfigureCallbacks, Continue, OutermostCalls
  <2> QED
    BY <1>1, <1>9, <2>1 DEF ConfigureScheduler, ConfigureCallbacks, HostBecomes, HostsConsistent, TypeOK
<1>7. CASE Shutdown
  <2>1. Top.host \in Hosts
    BY <1>7, OutermostFacts DEF Shutdown, Return, OutermostCalls
  <2> QED
    BY <1>1, <1>7, <2>1 DEF Shutdown, HostBecomes, HostsConsistent, TypeOK
<1>8. CASE Invalidated
  <2>1. Top.host \in Hosts /\ realm[Top.host] = "alive"
    BY <1>8, OutermostFacts DEF Invalidated, Return, OutermostCalls
  <2> QED
    BY <1>1, <1>8, <2>1 DEF Invalidated, HostsConsistent, TypeOK
<1> QED
  <2>1. CASE UNCHANGED vars
    BY <1>2, <2>1 DEF vars, hostVars
  <2>2. ASSUME NEW h \in Hosts, DestroyContext(h) \/ Drain(h)
        PROVE  UNCHANGED <<host, realm>>
    BY <2>2 DEF DestroyContext, Drain, hostVars
  <2>3. ASSUME NEW l \in Listeners, Listen(l) \/ Dispose(l) \/ ReleaseCaptured(l) \/ Invoke(l)
        PROVE  UNCHANGED <<host, realm>>
    BY <2>3 DEF Listen, Dispose, ReleaseCaptured, Invoke, hostVars
  <2>4. ASSUME NEW j \in Jobs, Await(j)
        PROVE  UNCHANGED <<host, realm>>
    BY <2>4 DEF Await, hostVars
  <2>5. ASSUME ProgramReturns \/ Emit \/ FireEvent \/ EventDone \/ RunHostedJob
        PROVE  UNCHANGED <<host, realm>>
    BY <2>5 DEF ProgramReturns, Emit, FireEvent, EventDone, RunHostedJob, hostVars
  <2> QED
    BY <1>2, <1>3, <1>4, <1>5, <1>6, <1>7, <1>8, <1>9, <2>1, <2>2, <2>3, <2>4, <2>5 DEF Next

LEMMA SchedulerStep ==
  ASSUME IInv, [Next]_vars
  PROVE  SchedulerConsistent'
<1>1. SchedulerConsistent /\ HostsConsistent /\ TypeOK /\ None \notin Hosts
  BY NoneIsNoHost DEF IInv
<1>2. CASE UNCHANGED <<stopHook, scheduler, realm, job, jobRealm>>
  BY <1>1, <1>2 DEF SchedulerConsistent
<1>3. ASSUME NEW h \in Hosts, StartHost(h)
      PROVE  SchedulerConsistent'
  <2>1. realm[h] = "none" /\ stopHook = {scheduler} \ {None}
    BY <1>1, <1>3 DEF StartHost, HostsConsistent, SchedulerConsistent
  <2>2. UNCHANGED <<job, jobRealm>>
    BY <1>3 DEF StartHost, jobVars
  <2>3. UNCHANGED <<scheduler, stopHook>> /\ \A g \in Hosts \ {h} : realm'[g] = realm[g]
    BY <1>1, <1>3 DEF StartHost, TypeOK
  <2> QED
    BY <1>1, <2>1, <2>2, <2>3 DEF SchedulerConsistent, TypeOK
<1>4. ASSUME NEW h \in Hosts, StopScheduler(h), UNCHANGED jobRealm,
             \A g \in Hosts \ {h} : realm'[g] = realm[g]
      PROVE  SchedulerConsistent'
  <2>1. CASE h \in stopHook
    <3>1. scheduler' = None /\ job' = CancelJobs /\ stopHook' = {}
      BY <1>1, <1>4, <2>1 DEF StopScheduler, SchedulerConsistent
    <3>2. \A j \in Jobs : job'[j] # "queued"
      BY <1>1, <3>1 DEF CancelJobs, TypeOK
    <3> QED
      BY <3>1, <3>2 DEF SchedulerConsistent
  <2>2. CASE h \notin stopHook
    <3>1. UNCHANGED <<scheduler, job>> /\ stopHook' = stopHook /\ scheduler # h
      BY <1>1, <1>4, <2>2 DEF StopScheduler, SchedulerConsistent
    <3>2. scheduler # None => realm'[scheduler] = realm[scheduler]
      BY <1>1, <1>4, <3>1 DEF TypeOK
    <3> QED
      BY <1>1, <1>4, <3>1, <3>2 DEF SchedulerConsistent
  <2> QED
    BY <2>1, <2>2
<1>5. CASE Shutdown
  <2>1. Top.host \in Hosts /\ StopScheduler(Top.host) /\ UNCHANGED jobRealm
        /\ realm' = [realm EXCEPT ![Top.host] = "deleted"]
    BY <1>5, OutermostFacts DEF Shutdown, Return, OutermostCalls
  <2>2. \A g \in Hosts \ {Top.host} : realm'[g] = realm[g]
    BY <1>1, <2>1 DEF TypeOK
  <2>3. PICK h \in Hosts : h = Top.host
    BY <2>1
  <2> QED
    BY <1>4, <2>1, <2>2, <2>3
<1>6. CASE Invalidated
  <2>1. /\ Top.host \in Hosts /\ scheduler # Top.host
        /\ UNCHANGED <<stopHook, scheduler, job, jobRealm>>
        /\ realm' = [realm EXCEPT ![Top.host] = "invalid"]
    BY <1>6, OutermostFacts DEF Invalidated, Return, OutermostCalls, jobVars
  <2> QED
    BY <1>1, <2>1 DEF SchedulerConsistent, TypeOK
<1>7. ASSUME NEW h \in Hosts, DestroyContext(h)
      PROVE  SchedulerConsistent'
  <2>1. CASE StopScheduler(h)
    BY <1>4, <1>7, <2>1 DEF DestroyContext
  <2>2. CASE ~ (h \in observer /\ realm[h] = "alive")
    BY <1>2, <1>7, <2>2 DEF DestroyContext
  <2> QED
    BY <1>7, <2>1, <2>2 DEF DestroyContext
<1>8. ASSUME NEW j \in Jobs, Await(j)
      PROVE  SchedulerConsistent'
  <2>1. /\ scheduler # None /\ UNCHANGED <<stopHook, scheduler, realm>>
        /\ job' = [job EXCEPT ![j] = "queued"] /\ jobRealm' = [jobRealm EXCEPT ![j] = scheduler]
    BY <1>8 DEF Await
  <2> QED
    BY <1>1, <2>1 DEF SchedulerConsistent, TypeOK
<1>9. CASE RunHostedJob
  <2>1. /\ UNCHANGED <<stopHook, scheduler, realm, jobRealm>>
        /\ job' = [job EXCEPT ![Head(microtasks)] = Settled(Head(microtasks))]
    BY <1>9 DEF RunHostedJob
  <2>2. Settled(Head(microtasks)) # "queued"
    BY DEF Settled
  <2>3. \A j \in Jobs : job'[j] = "queued" => job[j] = "queued"
    BY <1>1, <2>1, <2>2 DEF TypeOK
  <2> QED
    BY <1>1, <2>1, <2>3 DEF SchedulerConsistent
<1>10. CASE ConfigureScheduler
  <2>1. Top.host \in Hosts /\ realm[Top.host] = "alive" /\ UNCHANGED <<realm, job, jobRealm>>
    BY <1>10, OutermostFacts DEF ConfigureScheduler, Continue, OutermostCalls, jobVars
  <2>2. CASE scheduler = None /\ scheduler' = Top.host /\ stopHook' = stopHook \cup {Top.host}
    BY <1>1, <2>1, <2>2 DEF SchedulerConsistent
  <2>3. CASE UNCHANGED <<scheduler, stopHook>>
    BY <1>2, <2>1, <2>3
  <2> QED
    BY <1>10, <2>2, <2>3 DEF ConfigureScheduler
<1> QED
  <2>1. CASE UNCHANGED vars
    BY <1>2, <2>1 DEF vars, jobVars
  <2>2. ASSUME NEW h \in Hosts, DestroyHost(h) \/ Drain(h)
        PROVE  UNCHANGED <<stopHook, scheduler, realm, job, jobRealm>>
    BY <2>2 DEF DestroyHost, Drain, jobVars
  <2>3. ASSUME NEW l \in Listeners, Listen(l) \/ Dispose(l) \/ ReleaseCaptured(l) \/ Invoke(l)
        PROVE  UNCHANGED <<stopHook, scheduler, realm, job, jobRealm>>
    BY <2>3 DEF Listen, Dispose, ReleaseCaptured, Invoke, jobVars
  <2>4. ASSUME \/ ConfigureCallbacks \/ Started \/ StartFailed
               \/ ProgramReturns \/ Emit \/ FireEvent \/ EventDone
        PROVE  UNCHANGED <<stopHook, scheduler, realm, job, jobRealm>>
    BY <2>4 DEF ConfigureCallbacks, Started, StartFailed, ProgramReturns, Emit, FireEvent, EventDone, jobVars
  <2> QED
    BY <1>2, <1>3, <1>5, <1>6, <1>7, <1>8, <1>9, <1>10, <2>1, <2>2, <2>3, <2>4 DEF Next

LEMMA MicrotasksStep ==
  ASSUME IInv, [Next]_vars
  PROVE  MicrotasksConsistent'
<1>1. /\ MicrotasksConsistent /\ TypeOK /\ microtasks \in Seq(Jobs) /\ Len(microtasks) \in Nat
      /\ \A i \in 1..Len(microtasks) : microtasks[i] \in Jobs
  BY ElementOfSeq, LenProperties DEF IInv, TypeOK
<1>2. CASE UNCHANGED <<microtasks, job>>
  BY <1>1, <1>2 DEF MicrotasksConsistent
<1>3. ASSUME NEW h, StopScheduler(h), UNCHANGED microtasks
      PROVE  MicrotasksConsistent'
  <2>1. \A j \in Jobs : job[j] \in {"queued", "cancelled"} => job'[j] \in {"queued", "cancelled"}
    BY <1>1, <1>3 DEF StopScheduler, CancelJobs, TypeOK
  <2> QED
    BY <1>1, <1>3, <2>1 DEF MicrotasksConsistent
<1>4. CASE Shutdown
  <2>1. PICK h : h = Top.host
    OBVIOUS
  <2> QED
    BY <1>3, <1>4, <2>1 DEF Shutdown
<1>5. ASSUME NEW h \in Hosts, DestroyContext(h)
      PROVE  MicrotasksConsistent'
  <2>1. CASE StopScheduler(h)
    BY <1>3, <1>5, <2>1 DEF DestroyContext
  <2>2. CASE ~ (h \in observer /\ realm[h] = "alive")
    BY <1>2, <1>5, <2>2 DEF DestroyContext
  <2> QED
    BY <1>5, <2>1, <2>2 DEF DestroyContext
<1>6. ASSUME NEW j \in Jobs, Await(j)
      PROVE  MicrotasksConsistent'
  <2>1. /\ job[j] = "unused" /\ job' = [job EXCEPT ![j] = "queued"]
        /\ microtasks' = Append(microtasks, j)
    BY <1>6 DEF Await
  <2>2. /\ Len(microtasks') = Len(microtasks) + 1 /\ microtasks'[Len(microtasks) + 1] = j
        /\ \A i \in 1..Len(microtasks) : microtasks'[i] = microtasks[i]
    BY <1>1, <2>1, AppendProperties
  <2>3. \A i \in 1..Len(microtasks) : microtasks[i] # j
    BY <1>1, <2>1 DEF MicrotasksConsistent
  <2>4. job'[j] = "queued" /\ \A i \in Jobs \ {j} : job'[i] = job[i]
    BY <1>1, <2>1 DEF TypeOK
  <2>5. \A i \in 1..Len(microtasks') : i \in 1..Len(microtasks) \/ i = Len(microtasks) + 1
    BY <1>1, <2>2
  <2>6. ASSUME NEW i \in 1..Len(microtasks')
        PROVE  job'[microtasks'[i]] \in {"queued", "cancelled"}
    BY <1>1, <2>2, <2>3, <2>4, <2>5 DEF MicrotasksConsistent
  <2>7. ASSUME NEW i \in 1..Len(microtasks'), NEW k \in 1..Len(microtasks'),
               microtasks'[i] = microtasks'[k]
        PROVE  i = k
    BY <1>1, <2>2, <2>3, <2>5, <2>7, Zenon DEF MicrotasksConsistent
  <2> QED
    BY <2>6, <2>7 DEF MicrotasksConsistent
<1>7. CASE RunHostedJob
  <2>1. /\ microtasks # <<>> /\ microtasks' = Tail(microtasks)
        /\ job' = [job EXCEPT ![Head(microtasks)] = Settled(Head(microtasks))]
    BY <1>7 DEF RunHostedJob
  <2>2. /\ Len(microtasks') = Len(microtasks) - 1 /\ Head(microtasks) = microtasks[1]
        /\ \A i \in 1..Len(microtasks') : microtasks'[i] = microtasks[i + 1]
    BY <1>1, <2>1, HeadTailProperties
  <2>3. /\ 1 \in 1..Len(microtasks)
        /\ \A i \in 1..Len(microtasks') : i + 1 \in 1..Len(microtasks) /\ i + 1 # 1
    BY <1>1, <2>1, <2>2, EmptySeq
  <2>4. \A i \in Jobs : i # microtasks[1] => job'[i] = job[i]
    BY <1>1, <2>1, <2>2 DEF TypeOK
  <2>5. ASSUME NEW i \in 1..Len(microtasks')
        PROVE  job'[microtasks'[i]] \in {"queued", "cancelled"}
    <3>1. microtasks'[i] # microtasks[1]
      BY <1>1, <2>2, <2>3, Zenon DEF MicrotasksConsistent
    <3>2. job'[microtasks'[i]] = job[microtasks'[i]]
      BY <1>1, <2>2, <2>3, <2>4, <3>1
    <3> QED
      BY <1>1, <2>2, <2>3, <3>2 DEF MicrotasksConsistent
  <2>6. ASSUME NEW i \in 1..Len(microtasks'), NEW k \in 1..Len(microtasks'),
               microtasks'[i] = microtasks'[k]
        PROVE  i = k
    <3>1. i + 1 = k + 1
      BY <1>1, <2>2, <2>3, <2>6, Zenon DEF MicrotasksConsistent
    <3> QED
      BY <3>1
  <2> QED
    BY <2>5, <2>6 DEF MicrotasksConsistent
<1> QED
  <2>1. CASE UNCHANGED vars
    BY <1>2, <2>1 DEF vars, jobVars
  <2>2. ASSUME NEW h \in Hosts, StartHost(h) \/ DestroyHost(h) \/ Drain(h)
        PROVE  UNCHANGED <<microtasks, job>>
    BY <2>2 DEF StartHost, DestroyHost, Drain, jobVars
  <2>3. ASSUME NEW l \in Listeners, Listen(l) \/ Dispose(l) \/ ReleaseCaptured(l) \/ Invoke(l)
        PROVE  UNCHANGED <<microtasks, job>>
    BY <2>3 DEF Listen, Dispose, ReleaseCaptured, Invoke, jobVars
  <2>4. ASSUME \/ ConfigureScheduler \/ ConfigureCallbacks \/ Started \/ StartFailed
               \/ Invalidated \/ ProgramReturns \/ Emit \/ FireEvent \/ EventDone
        PROVE  UNCHANGED <<microtasks, job>>
    BY <2>4 DEF ConfigureScheduler, ConfigureCallbacks, Started, StartFailed, Invalidated, ProgramReturns, Emit, FireEvent, EventDone, jobVars
  <2> QED
    BY <1>2, <1>4, <1>5, <1>6, <1>7, <2>1, <2>2, <2>3, <2>4 DEF Next

LEMMA ServiceStep ==
  ASSUME IInv, [Next]_vars
  PROVE  ServiceConsistent'
<1>1. ServiceConsistent /\ HostsConsistent /\ TypeOK /\ None \notin Hosts /\ MaxPending \in Nat
  BY NoneIsNoHost, BoundsAssumption DEF IInv
<1>2. CASE UNCHANGED <<serviceVars, pending, host>>
  BY <1>1, <1>2 DEF ServiceConsistent, serviceVars
<1>3. ASSUME NEW h \in Hosts, StartHost(h)
      PROVE  ServiceConsistent'
  <2>1. host[h] = "none" /\ UNCHANGED <<service, accepting, configured, pending>>
        /\ \A g \in Hosts \ {h} : host'[g] = host[g]
    BY <1>1, <1>3 DEF StartHost, serviceVars, TypeOK
  <2>2. h \notin configured
    BY <1>1, <2>1 DEF ServiceConsistent
  <2> QED
    BY <1>1, <2>1, <2>2 DEF ServiceConsistent, TypeOK
<1>4. ASSUME NEW h \in Hosts, UNCHANGED <<serviceVars, pending>>,
             NEW to \in {"started", "stopping"}, host' = [host EXCEPT ![h] = to]
      PROVE  ServiceConsistent'
  BY <1>1, <1>4 DEF ServiceConsistent, serviceVars, TypeOK
<1>5. CASE Started \/ StartFailed
  <2>1. /\ Top.host \in Hosts /\ UNCHANGED <<serviceVars, pending>>
        /\ \E to \in {"started", "stopping"} : host' = [host EXCEPT ![Top.host] = to]
    BY <1>5, OutermostFacts DEF Started, StartFailed, Return, Continue, HostBecomes, OutermostCalls
  <2>2. PICK h \in Hosts : h = Top.host
    BY <2>1
  <2> QED
    BY <1>4, <2>1, <2>2
<1>6. CASE ConfigureScheduler \/ ConfigureCallbacks
  <2>1. Top.host \in Hosts /\ host[Top.host] = "starting"
    BY <1>6, OutermostFacts DEF ConfigureScheduler, ConfigureCallbacks, Continue, OutermostCalls
  <2>2. PICK h \in Hosts : h = Top.host
    BY <2>1
  <2>3. CASE UNCHANGED <<serviceVars, pending, host>>
    BY <1>2, <2>3
  <2>4. CASE UNCHANGED <<serviceVars, pending>> /\ host' = [host EXCEPT ![h] = "stopping"]
    BY <1>4, <2>4
  <2>5. CASE /\ service = None /\ service' = h /\ accepting' = TRUE
             /\ configured' = configured \cup {h} /\ UNCHANGED <<host, pending>>
    <3>1. configured = {}
      BY <1>1, <2>5 DEF ServiceConsistent, TypeOK
    <3> QED
      BY <2>1, <2>2, <2>5, <3>1 DEF ServiceConsistent
  <2> QED
    BY <1>6, <2>2, <2>3, <2>4, <2>5 DEF ConfigureScheduler, ConfigureCallbacks, HostBecomes
<1>7. CASE Shutdown
  <2>1. /\ Top.host \in Hosts /\ ShutdownCallbacks(Top.host)
        /\ \A g \in Hosts \ {Top.host} : host'[g] = host[g]
    BY <1>1, <1>7, OutermostFacts DEF Shutdown, Return, HostBecomes, OutermostCalls, TypeOK
  <2>2. CASE Top.host \in configured
    <3>1. configured' = {} /\ accepting' = FALSE /\ pending' = 0
      BY <1>1, <2>1, <2>2 DEF ServiceConsistent, ShutdownCallbacks
    <3> QED
      BY <3>1 DEF ServiceConsistent
  <2>3. CASE Top.host \notin configured
    <3>1. UNCHANGED <<service, accepting, configured, pending>>
      BY <2>1, <2>3 DEF ShutdownCallbacks, serviceVars
    <3>2. \A g \in configured : host'[g] = host[g]
      BY <1>1, <2>1, <2>3 DEF TypeOK
    <3> QED
      BY <1>1, <3>1, <3>2 DEF ServiceConsistent
  <2> QED
    BY <2>2, <2>3
<1>8. ASSUME NEW h \in Hosts, DestroyHost(h)
      PROVE  ServiceConsistent'
  BY <1>4, <1>8 DEF DestroyHost
<1>9. CASE Emit
  <2>1. accepting /\ UNCHANGED <<service, accepting, configured, host>>
    BY <1>9 DEF Emit, serviceVars
  <2> QED
    BY <1>1, <2>1 DEF ServiceConsistent
<1>10. ASSUME NEW h \in Hosts, Drain(h)
       PROVE  ServiceConsistent'
  <2>1. UNCHANGED <<service, accepting, configured, host>> /\ (pending' = pending \/ pending > 0)
    BY <1>10 DEF Drain, serviceVars
  <2>2. pending = 0 => pending' = 0
    BY <2>1
  <2> QED
    BY <1>1, <2>1, <2>2 DEF ServiceConsistent
<1> QED
  <2>1. CASE UNCHANGED vars
    BY <1>2, <2>1 DEF vars, hostVars
  <2>2. ASSUME NEW h \in Hosts, DestroyContext(h)
        PROVE  UNCHANGED <<serviceVars, pending, host>>
    BY <2>2 DEF DestroyContext, hostVars
  <2>3. ASSUME NEW l \in Listeners, Listen(l) \/ Dispose(l) \/ ReleaseCaptured(l) \/ Invoke(l)
        PROVE  UNCHANGED <<serviceVars, pending, host>>
    BY <2>3 DEF Listen, Dispose, ReleaseCaptured, Invoke, hostVars
  <2>4. ASSUME NEW j \in Jobs, Await(j)
        PROVE  UNCHANGED <<serviceVars, pending, host>>
    BY <2>4 DEF Await, hostVars
  <2>5. ASSUME Invalidated \/ ProgramReturns \/ FireEvent \/ EventDone \/ RunHostedJob
        PROVE  UNCHANGED <<serviceVars, pending, host>>
    BY <2>5 DEF Invalidated, ProgramReturns, FireEvent, EventDone, RunHostedJob, hostVars
  <2> QED
    BY <1>2, <1>3, <1>5, <1>6, <1>7, <1>8, <1>9, <1>10, <2>1, <2>2, <2>3, <2>4, <2>5 DEF Next

LEMMA ReferencesStep ==
  ASSUME IInv, [Next]_vars
  PROVE  ReferencesLive'
<1>1. ReferencesLive /\ HostsConsistent /\ TypeOK /\ None \notin Hosts
  BY NoneIsNoHost DEF IInv
<1>2. CASE UNCHANGED <<observer, target, realm>>
  BY <1>1, <1>2 DEF ReferencesLive, Exists
<1>3. ASSUME NEW h \in Hosts, StartHost(h)
      PROVE  ReferencesLive'
  <2>1. realm[h] = "none" /\ UNCHANGED target
    BY <1>1, <1>3 DEF StartHost, HostsConsistent, listenerVars
  <2>2. \A g \in Hosts \ {h} : realm'[g] = realm[g]
    BY <1>1, <1>3 DEF StartHost, TypeOK
  <2>3. ASSUME NEW g \in Hosts \cup {None}, Exists(g)
        PROVE  Exists(g)'
    BY <1>1, <2>1, <2>2, <2>3 DEF Exists
  <2>4. \A g \in observer' : Exists(g)'
    BY <1>1, <1>3, <2>3 DEF StartHost, ReferencesLive, Exists, TypeOK
  <2> QED
    BY <1>1, <2>1, <2>3, <2>4 DEF ReferencesLive, TypeOK, Exists
<1>4. CASE Shutdown
  <2>1. /\ Top.host \in Hosts /\ realm' = [realm EXCEPT ![Top.host] = "deleted"]
        /\ observer' = observer \ {Top.host} /\ target' = Detached(Top.host)
    BY <1>4, OutermostFacts DEF Shutdown, Return, OutermostCalls, CancelListeners
  <2>2. ASSUME NEW g \in (Hosts \cup {None}) \ {Top.host}, Exists(g)
        PROVE  Exists(g)'
    BY <1>1, <2>1, <2>2 DEF Exists, TypeOK
  <2>3. \A l \in Listeners : target'[l] # None => target'[l] = target[l] /\ target[l] # Top.host
    BY <2>1 DEF Detached
  <2> QED
    BY <1>1, <2>1, <2>2, <2>3 DEF ReferencesLive, TypeOK, Exists
<1>5. CASE Invalidated
  <2>1. /\ Top.host \in Hosts /\ realm' = [realm EXCEPT ![Top.host] = "invalid"]
        /\ observer' = observer \ {Top.host} /\ target' = Detached(Top.host)
    BY <1>5, OutermostFacts DEF Invalidated, Return, OutermostCalls, CancelListeners
  <2>2. ASSUME NEW g \in Hosts \cup {None}, Exists(g)
        PROVE  Exists(g)'
    BY <1>1, <2>1, <2>2 DEF Exists, TypeOK
  <2>3. \A l \in Listeners : target'[l] = None \/ target'[l] = target[l]
    BY <2>1 DEF Detached
  <2> QED
    BY <1>1, <2>1, <2>2, <2>3 DEF ReferencesLive, TypeOK, Exists
<1>6. ASSUME NEW l \in Listeners, Listen(l) \/ Dispose(l) \/ ReleaseCaptured(l)
      PROVE  ReferencesLive'
  <2>1. UNCHANGED <<observer, realm>>
    BY <1>6 DEF Listen, Dispose, ReleaseCaptured, hostVars
  <2>2. \A i \in Listeners : target'[i] = target[i] \/ Exists(target'[i])
    BY <1>1, <1>6 DEF Listen, Dispose, ReleaseCaptured, Exists, TypeOK
  <2> QED
    BY <1>1, <2>1, <2>2 DEF ReferencesLive, Exists
<1> QED
  <2>1. CASE UNCHANGED vars
    BY <1>2, <2>1 DEF vars, hostVars, listenerVars
  <2>2. ASSUME NEW h \in Hosts, DestroyHost(h) \/ DestroyContext(h) \/ Drain(h)
        PROVE  UNCHANGED <<observer, target, realm>>
    BY <2>2 DEF DestroyHost, DestroyContext, Drain, hostVars, listenerVars
  <2>3. ASSUME NEW l \in Listeners, Invoke(l)
        PROVE  UNCHANGED <<observer, target, realm>>
    BY <2>3 DEF Invoke, hostVars, listenerVars
  <2>4. ASSUME NEW j \in Jobs, Await(j)
        PROVE  UNCHANGED <<observer, target, realm>>
    BY <2>4 DEF Await, hostVars, listenerVars
  <2>5. ASSUME \/ ConfigureScheduler \/ ConfigureCallbacks \/ Started \/ StartFailed
               \/ ProgramReturns \/ Emit \/ FireEvent \/ EventDone \/ RunHostedJob
        PROVE  UNCHANGED <<observer, target, realm>>
    BY <2>5 DEF ConfigureScheduler, ConfigureCallbacks, Started, StartFailed, ProgramReturns, Emit, FireEvent, EventDone, RunHostedJob,
                hostVars, listenerVars
  <2> QED
    BY <1>2, <1>3, <1>4, <1>5, <1>6, <2>1, <2>2, <2>3, <2>4, <2>5 DEF Next

LEMMA StackStep ==
  ASSUME IInv, [Next]_vars
  PROVE  StackConsistent' /\ CallsLive'
<1>1. /\ TypeOK /\ HostsConsistent /\ SchedulerConsistent /\ StackConsistent /\ CallsLive
      /\ stack \in Seq(Frames) /\ Exists(current) /\ None \notin Hosts
  BY StackTyped, NoneIsNoHost DEF IInv, CallsLive
<1>2. CASE UNCHANGED <<stack, current, host, realm, scheduler, configured>>
  BY <1>1, <1>2 DEF StackConsistent, CallsLive, CallConsistent, Exists
<1>3. ASSUME NEW op \in ProgramCalls \cup OtherCalls, NEW h \in Hosts \cup {None},
             NEW left \in SUBSET Listeners
      PROVE  \E f \in Frames : f = Call(op, h, left)
  BY <1>1, <1>3 DEF Frames, Call, TypeOK
(* A call that makes the realm of h current. *)
<1>4. ASSUME NEW op \in {"scheduler", "stop", "invalidate", "drain", "continuation"},
             NEW h \in Hosts, Enter(op, h),
             Idle \/ (op \in NestedCalls /\ UNCHANGED <<host, realm, scheduler, configured>>),
             op = "scheduler" => host'[h] = "starting" /\ realm'[h] = "alive",
             op = "stop" => host'[h] = "stopping",
             op = "invalidate" => realm'[h] = "alive" /\ scheduler' # h,
             Exists(h)'
      PROVE  StackConsistent' /\ CallsLive'
  <2>1. PICK f \in Frames : f = Call(op, h, {})
    BY <1>3 DEF ProgramCalls, OtherCalls
  <2>2. f.op = op /\ f.host = h /\ f.saved = current /\ op # "event"
    BY <2>1 DEF Call
  <2>3. stack' = Append(stack, f) /\ current' = h
    BY <1>4, <2>1 DEF Enter
  <2>4. CallConsistent(f)' /\ Exists(current)'
    BY <1>4, <2>2, <2>3 DEF CallConsistent, Exists
  <2> QED
    BY <1>4, <2>2, <2>3, <2>4, Pushed
<1>5. ASSUME NEW h \in Hosts, StartHost(h)
      PROVE  StackConsistent' /\ CallsLive'
  <2>1. Idle /\ host \in [Hosts -> {"none", "starting", "started", "stopping", "gone"}]
        /\ realm \in [Hosts -> {"none", "alive", "invalid", "deleted"}]
    BY <1>1, <1>5 DEF StartHost, TypeOK
  <2>2. CASE Enter("scheduler", h) /\ host' = [host EXCEPT ![h] = "starting"]
             /\ realm' = [realm EXCEPT ![h] = "alive"]
    <3>1. host'[h] = "starting" /\ realm'[h] = "alive" /\ Exists(h)'
      BY <2>1, <2>2 DEF Exists
    <3> QED
      BY <1>4, <2>1, <2>2, <3>1
  <2>3. CASE UNCHANGED <<stack, current>>
    <3>1. Len(stack') = 0 /\ current' = None /\ StackShape(stack', current')
      BY <1>1, <2>1, <2>3, EmptySeq DEF Idle, StackConsistent, StackShape
    <3> QED
      BY <3>1 DEF StackConsistent, CallsLive, Exists
  <2> QED
    BY <1>5, <2>2, <2>3 DEF StartHost
<1>6. ASSUME NEW h \in Hosts, DestroyHost(h)
      PROVE  StackConsistent' /\ CallsLive'
  <2>1. Idle /\ Enter("stop", h) /\ host' = [host EXCEPT ![h] = "stopping"]
        /\ realm' = realm /\ host[h] = "started"
    BY <1>6 DEF DestroyHost
  <2>2. host'[h] = "stopping" /\ Exists(h)'
    BY <1>1, <2>1 DEF HostsConsistent, Exists, TypeOK
  <2> QED
    BY <1>4, <2>1, <2>2 DEF ProgramCalls
<1>7. ASSUME NEW h \in Hosts, DestroyContext(h)
      PROVE  StackConsistent' /\ CallsLive'
  <2>1. UNCHANGED <<host, realm, configured>>
    BY <1>7 DEF DestroyContext, hostVars, serviceVars
  <2>2. CASE Enter("invalidate", h) /\ StopScheduler(h) /\ realm[h] = "alive"
    <3>1. scheduler' # h
      BY <1>1, <2>2 DEF StopScheduler, SchedulerConsistent
    <3>2. Idle /\ Exists(h)' /\ realm'[h] = "alive"
      BY <1>7, <2>1, <2>2 DEF DestroyContext, Exists
    <3> QED
      BY <1>4, <2>2, <3>1, <3>2 DEF ProgramCalls
  <2>3. CASE ~ (h \in observer /\ realm[h] = "alive")
    BY <1>2, <1>7, <2>1, <2>3 DEF DestroyContext
  <2> QED
    BY <1>7, <2>2, <2>3 DEF DestroyContext
<1>8. ASSUME NEW h \in Hosts, Drain(h)
      PROVE  StackConsistent' /\ CallsLive'
  <2>1. UNCHANGED <<host, realm, scheduler, configured>> /\ Idle
    BY <1>8 DEF Drain, serviceVars
  <2>2. CASE MayDrain(h) /\ Enter("drain", h)
    <3>1. Exists(h)'
      BY <2>1, <2>2 DEF MayDrain, Exists
    <3> QED
      BY <1>4, <2>1, <2>2, <3>1 DEF ProgramCalls
  <2>3. CASE UNCHANGED <<stack, current>>
    BY <1>2, <2>1, <2>3
  <2> QED
    BY <1>8, <2>2, <2>3 DEF Drain
<1>9. ASSUME Started \/ Shutdown \/ Invalidated \/ ProgramReturns
      PROVE  StackConsistent' /\ CallsLive'
  <2>1. PICK op : Return(op) /\ (op \in OutermostCalls \/ UNCHANGED <<host, realm, scheduler, configured>>)
    BY <1>9 DEF Started, Shutdown, Invalidated, ProgramReturns, OutermostCalls, hostVars, serviceVars
  <2>2. /\ ~ Idle /\ stack' = Front(stack) /\ current' = Top.saved
        /\ Top.op \in OutermostCalls \/ UNCHANGED <<host, realm, scheduler, configured>>
    BY <2>1 DEF Return, Restored
  <2> QED
    BY <2>2, Popped
<1>10. ASSUME ConfigureScheduler \/ ConfigureCallbacks \/ StartFailed
       PROVE  StackConsistent' /\ CallsLive'
  <2> DEFINE Goes(from, to) == Continue(from, to) /\ UNCHANGED realm
  <2>1. ASSUME NEW from \in {"scheduler", "callbacks", "start"}, NEW to, Goes(from, to)
        PROVE  /\ Top.host \in Hosts /\ host[Top.host] = "starting" /\ realm[Top.host] = "alive"
               /\ from \in {"callbacks", "start"} => scheduler = Top.host
               /\ from \in OutermostCalls
    BY <2>1, OutermostFacts DEF Continue, OutermostCalls
  <2>2. CASE Goes("scheduler", "callbacks") /\ scheduler' = Top.host /\ UNCHANGED host
    <3>1. /\ Top.host \in Hosts /\ host'[Top.host] = "starting" /\ realm'[Top.host] = "alive"
          /\ "scheduler" \in OutermostCalls /\ "callbacks" \in OutermostCalls
      BY <2>1, <2>2 DEF OutermostCalls
    <3>2. \A f \in Frames : f.op = "callbacks" /\ f.host = Top.host => CallConsistent(f)'
      BY <2>2, <3>1 DEF CallConsistent
    <3> QED
      BY <2>2, <3>1, <3>2, Continued
  <2>3. CASE Goes("callbacks", "start") /\ configured' = configured \cup {Top.host} /\ UNCHANGED <<host, scheduler>>
    <3>1. /\ Top.host \in Hosts /\ host'[Top.host] = "starting" /\ realm'[Top.host] = "alive"
          /\ scheduler' = Top.host /\ Top.host \in configured'
          /\ "callbacks" \in OutermostCalls /\ "start" \in OutermostCalls
      BY <2>1, <2>3 DEF OutermostCalls
    <3>2. \A f \in Frames : f.op = "start" /\ f.host = Top.host => CallConsistent(f)'
      BY <3>1 DEF CallConsistent
    <3> QED
      BY <2>3, <3>1, <3>2, Continued
  <2>4. ASSUME NEW from \in {"scheduler", "callbacks", "start"}, NEW to \in {"rollback", "stop"},
               Goes(from, to), HostBecomes("stopping")
        PROVE  StackConsistent' /\ CallsLive'
    <3>1. Top.host \in Hosts /\ host'[Top.host] = "stopping" /\ from \in OutermostCalls /\ to \in OutermostCalls
      BY <1>1, <2>1, <2>4 DEF HostBecomes, OutermostCalls, TypeOK
    <3>2. \A f \in Frames : f.op = to /\ f.host = Top.host => CallConsistent(f)'
      BY <2>4, <3>1 DEF CallConsistent
    <3> QED
      BY <2>4, <3>1, <3>2, Continued
  <2> QED
    BY <1>10, <2>2, <2>3, <2>4 DEF ConfigureScheduler, ConfigureCallbacks, StartFailed
<1>11. CASE FireEvent
  <2>1. PICK ls \in SUBSET Listeners : stack' = Append(stack, Call("event", None, ls))
    BY <1>11 DEF FireEvent
  <2>2. PICK f \in Frames : f = Call("event", None, ls)
    BY <1>3 DEF OtherCalls
  <2>3. f.op = "event" /\ f.saved = current /\ UNCHANGED <<host, realm, scheduler, configured, current>>
    BY <1>11, <2>2 DEF Call, FireEvent, hostVars, serviceVars
  <2>4. CallConsistent(f)' /\ Exists(current)'
    BY <1>1, <2>3 DEF CallConsistent, OutermostCalls, Exists
  <2> QED
    BY <2>1, <2>2, <2>3, <2>4, Pushed DEF NestedCalls
<1>12. CASE EventDone
  <2>1. /\ ~ Idle /\ Top.op = "event" /\ stack' = Front(stack)
        /\ UNCHANGED <<current, host, realm, scheduler, configured>>
    BY <1>12 DEF EventDone, hostVars, serviceVars
  <2>2. current' = Top.saved
    BY <2>1, TopFacts
  <2> QED
    BY <2>1, <2>2, Popped
<1>13. CASE RunHostedJob
  <2>1. UNCHANGED <<host, realm, scheduler, configured>>
    BY <1>13 DEF RunHostedJob, hostVars, serviceVars
  <2>2. PICK j : j = Head(microtasks)
    OBVIOUS
  <2>3. CASE UNCHANGED <<stack, current>>
    BY <1>2, <2>1, <2>3
  <2>4. CASE Installs(j) /\ Enter("continuation", jobRealm[j]) /\ j \in Jobs
    <3>1. PICK h \in Hosts \cup {None} : h = jobRealm[j]
      BY <1>1, <2>4 DEF TypeOK
    <3>2. CASE h \in Hosts
      <4>1. Exists(h)'
        BY <2>1, <2>4, <3>1 DEF Installs, Exists
      <4> QED
        BY <1>4, <2>1, <2>4, <3>1, <3>2, <4>1 DEF ProgramCalls, NestedCalls
    <3>3. CASE h = None
      <4>1. PICK f \in Frames : f = Call("continuation", None, {})
        BY <1>3 DEF ProgramCalls
      <4>2. /\ f.op = "continuation" /\ f.saved = current
            /\ stack' = Append(stack, f) /\ current' = None
        BY <2>4, <3>1, <3>3, <4>1 DEF Call, Enter
      <4>3. CallConsistent(f)' /\ Exists(current)'
        BY <4>2 DEF CallConsistent, OutermostCalls, Exists
      <4> QED
        BY <2>1, <4>2, <4>3, Pushed DEF NestedCalls
    <3> QED
      BY <3>2, <3>3
  <2>5. CASE stack' = Append(stack, Call("continuation", None, {})) /\ UNCHANGED current
    <3>1. PICK f \in Frames : f = Call("continuation", None, {})
      BY <1>3 DEF ProgramCalls
    <3>2. /\ f.op = "continuation" /\ f.saved = current
          /\ stack' = Append(stack, f) /\ current' = current
      BY <2>5, <3>1 DEF Call
    <3>3. CallConsistent(f)' /\ Exists(current)'
      BY <1>1, <2>1, <3>2 DEF CallConsistent, OutermostCalls, Exists
    <3> QED
      BY <2>1, <3>2, <3>3, Pushed DEF NestedCalls
  <2>6. j \in Jobs
    BY <1>1, <1>13, <2>2, HeadTailProperties DEF RunHostedJob, TypeOK
  <2> QED
    BY <1>13, <2>2, <2>3, <2>4, <2>5, <2>6 DEF RunHostedJob

<1>14. ASSUME NEW l \in Listeners, Invoke(l)
       PROVE  StackConsistent' /\ CallsLive'
  <2> DEFINE rest == [stack EXCEPT ![Len(stack)].left = @ \ {l}]
  <2>1. ~ Idle /\ Top.op = "event" /\ UNCHANGED <<host, realm, scheduler, configured>>
    BY <1>14 DEF Invoke, hostVars, serviceVars
  <2>2. /\ Top \in Frames /\ Top = stack[Len(stack)] /\ stack # <<>>
        /\ CallConsistent(Top) /\ Len(stack) \in Nat \ {0} /\ Exists(Top.saved)
    BY <2>1, TopFacts DEF IInv, CallsLive
  <2>3. PICK g \in Frames : g = [Top EXCEPT !.left = Top.left \ {l}]
    BY <2>2 DEF Frames
  <2>4. g.op = Top.op /\ g.host = Top.host /\ g.saved = Top.saved
    BY <2>2, <2>3 DEF Frames
  <2>5. rest = [stack EXCEPT ![Len(stack)] = g]
    BY <2>2, <2>3
  <2> HIDE DEF rest
  <2>6. /\ rest \in Seq(Frames) /\ Len(rest) = Len(stack)
        /\ \A i \in 1..Len(stack) : rest[i] = IF i = Len(stack) THEN g ELSE stack[i]
    BY <1>1, <2>2, <2>5, RewriteFacts
  <2>7. StackShape(rest, current)
    BY <1>1, <2>2, <2>4, <2>5, RewriteShape DEF StackConsistent, Top
  <2>8. CallConsistent(g)' /\ Exists(g.saved)'
    BY <2>1, <2>2, <2>4 DEF CallConsistent, Exists
  <2>9. ASSUME NEW i \in 1..Len(stack)
        PROVE  CallConsistent(stack[i]) /\ Exists(stack[i].saved)
    BY <1>1 DEF StackConsistent, CallsLive
  <2>10. CASE stack' = rest /\ UNCHANGED current
    <3>1. ASSUME NEW i \in 1..Len(stack')
          PROVE  CallConsistent(stack[i])' /\ Exists(stack[i].saved)'
      <4>1. i \in 1..Len(stack) /\ (stack'[i] = g \/ stack'[i] = stack[i])
        BY <2>6, <2>10
      <4> QED
        BY <2>1, <2>8, <2>9, <4>1 DEF CallConsistent, Exists
    <3>2. StackShape(stack', current') /\ Exists(current)'
      BY <1>1, <2>1, <2>7, <2>10 DEF Exists
    <3> QED
      BY <3>1, <3>2 DEF StackConsistent, CallsLive
  <2>11. CASE Invocable(l) /\ stack' = Append(rest, Call("handler", target[l], {})) /\ current' = target[l]
    <3>1. target[l] \in Hosts \cup {None} /\ Exists(target[l])
      BY <1>1, <2>11 DEF Invocable, TypeOK, Exists
    <3>2. PICK f \in Frames : f = Call("handler", target[l], {})
      BY <1>3, <3>1 DEF ProgramCalls
    <3>3. f.op = "handler" /\ f.saved = current /\ stack' = Append(rest, f)
      BY <2>11, <3>2 DEF Call
    <3>4. StackShape(stack', current')
      BY <2>6, <2>7, <3>3, PushShape DEF NestedCalls
    <3>5. /\ Len(stack') = Len(stack) + 1 /\ stack'[Len(stack) + 1] = f
          /\ \A i \in 1..Len(stack) : stack'[i] = rest[i]
      BY <2>6, <3>3, PushFacts
    <3>6. CallConsistent(f)' /\ Exists(f.saved)'
      BY <1>1, <2>1, <3>3 DEF CallConsistent, OutermostCalls, Exists
    <3>7. ASSUME NEW i \in 1..Len(stack')
          PROVE  CallConsistent(stack[i])' /\ Exists(stack[i].saved)'
      <4>1. i = Len(stack) + 1 \/ i \in 1..Len(stack)
        BY <2>2, <3>5
      <4>2. stack'[i] = f \/ stack'[i] = g \/ (i \in 1..Len(stack) /\ stack'[i] = stack[i])
        BY <2>6, <3>5, <4>1
      <4> QED
        BY <2>1, <2>8, <2>9, <3>6, <4>2 DEF CallConsistent, Exists
    <3>8. Exists(current)'
      BY <2>1, <2>11, <3>1 DEF Exists
    <3> QED
      BY <3>4, <3>7, <3>8 DEF StackConsistent, CallsLive
  <2> QED
    BY <1>14, <2>10, <2>11 DEF Invoke, rest
<1> QED
  <2>1. CASE UNCHANGED vars
    BY <1>2, <2>1 DEF vars, hostVars, serviceVars
  <2>2. ASSUME NEW l \in Listeners, Listen(l) \/ Dispose(l) \/ ReleaseCaptured(l)
        PROVE  UNCHANGED <<stack, current, host, realm, scheduler, configured>>
    BY <2>2 DEF Listen, Dispose, ReleaseCaptured, hostVars, serviceVars
  <2>3. ASSUME NEW j \in Jobs, Await(j)
        PROVE  UNCHANGED <<stack, current, host, realm, scheduler, configured>>
    BY <2>3 DEF Await, hostVars, serviceVars
  <2>4. CASE Emit
    BY <1>2, <2>4 DEF Emit, serviceVars
  <2> QED
    BY <1>2, <1>5, <1>6, <1>7, <1>8, <1>9, <1>10, <1>11, <1>12, <1>13, <1>14,
       <2>1, <2>2, <2>3, <2>4 DEF Next

(* An invalidation in progress stays so until it returns.                  *)
LEMMA InvalidatingKept ==
  ASSUME IInv, [Next]_vars, ~ Invalidated, NEW h \in Hosts, Invalidating(h)
  PROVE  Invalidating(h)'
<1>1. PICK i \in 1..Len(stack) : stack[i].op = "invalidate" /\ stack[i].host = h
  BY DEF Invalidating
<1>2. stack \in Seq(Frames) /\ stack # <<>> /\ ~ Idle /\ Len(stack) \in Nat
  BY <1>1, StackTyped, EmptySeq, LenProperties DEF IInv, Idle
<1>3. Top = stack[Len(stack)] /\ (Top.op # "invalidate" => i # Len(stack))
  BY <1>1, <1>2, TopFacts
<1>4. CASE i \in 1..Len(stack') /\ stack'[i].op = stack[i].op /\ stack'[i].host = stack[i].host
  BY <1>1, <1>4 DEF Invalidating
<1>5. ASSUME NEW s \in Seq(Frames), Len(s) = Len(stack), s[i].op = stack[i].op, s[i].host = stack[i].host,
             NEW f \in Frames, stack' = Append(s, f)
      PROVE  Invalidating(h)'
  <2>1. i \in 1..Len(stack') /\ stack'[i] = s[i]
    BY <1>1, <1>2, <1>5, PushFacts
  <2> QED
    BY <1>4, <1>5, <2>1
<1>6. ASSUME NEW op \in ProgramCalls \cup OtherCalls, NEW g \in Hosts \cup {None},
             NEW left \in SUBSET Listeners
      PROVE  Call(op, g, left) \in Frames
  BY <1>6 DEF Frames, Call, IInv, TypeOK
<1>7. ASSUME ConfigureScheduler \/ ConfigureCallbacks \/ Started \/ StartFailed \/ Shutdown
      PROVE  FALSE
  <2>1. Top.op \in OutermostCalls /\ Top.op # "invalidate"
    BY <1>7 DEF ConfigureScheduler, ConfigureCallbacks, Started, StartFailed, Shutdown, Return, Continue,
                OutermostCalls
  <2>2. Len(stack) = 1
    BY <1>2, <2>1, TopFacts
  <2> QED
    BY <1>1, <1>3, <2>1, <2>2
<1>8. ASSUME ProgramReturns \/ EventDone
      PROVE  Invalidating(h)'
  <2>1. stack' = Front(stack) /\ Top.op # "invalidate"
    BY <1>8 DEF ProgramReturns, EventDone, Return
  <2>2. i \in 1..(Len(stack) - 1)
    BY <1>1, <1>2, <1>3, <2>1
  <2>3. i \in 1..Len(stack') /\ stack'[i] = stack[i]
    BY <1>2, <2>1, <2>2, PopFacts
  <2> QED
    BY <1>4, <2>3
<1>9. CASE FireEvent
  <2>1. PICK ls \in SUBSET Listeners : stack' = Append(stack, Call("event", None, ls))
    BY <1>9 DEF FireEvent
  <2>2. Call("event", None, ls) \in Frames
    BY <1>6 DEF OtherCalls
  <2> QED
    BY <1>2, <1>5, <2>1, <2>2
<1>10. CASE RunHostedJob
  <2>1. PICK j : j = Head(microtasks)
    OBVIOUS
  <2>2. j \in Jobs /\ jobRealm[j] \in Hosts \cup {None}
    BY <1>10, <2>1, HeadTailProperties DEF RunHostedJob, IInv, TypeOK
  <2>3. UNCHANGED stack \/ \E g \in Hosts \cup {None} : stack' = Append(stack, Call("continuation", g, {}))
    BY <1>10, <2>1, <2>2 DEF RunHostedJob, Enter
  <2>4. \A g \in Hosts \cup {None} : Call("continuation", g, {}) \in Frames
    BY <1>6 DEF ProgramCalls
  <2> QED
    BY <1>1, <1>2, <1>4, <1>5, <2>3, <2>4
<1>11. ASSUME NEW l \in Listeners, Invoke(l)
       PROVE  Invalidating(h)'
  <2> DEFINE rest == [stack EXCEPT ![Len(stack)].left = @ \ {l}]
  <2>1. Top \in Frames /\ Top.op = "event" /\ i # Len(stack)
    BY <1>2, <1>3, <1>11, TopFacts DEF Invoke
  <2>2. PICK g \in Frames : g = [Top EXCEPT !.left = Top.left \ {l}]
    BY <2>1 DEF Frames
  <2>3. rest = [stack EXCEPT ![Len(stack)] = g]
    BY <1>3, <2>2
  <2>4. /\ target[l] \in Hosts \cup {None}
        /\ \/ stack' = Append(rest, Call("handler", target[l], {}))
           \/ stack' = rest
    BY <1>11 DEF Invoke, IInv, TypeOK
  <2> HIDE DEF rest
  <2>5. rest \in Seq(Frames) /\ Len(rest) = Len(stack) /\ rest[i] = stack[i]
    BY <1>1, <1>2, <2>1, <2>3, RewriteFacts
  <2>6. Call("handler", target[l], {}) \in Frames
    BY <1>6, <2>4 DEF ProgramCalls
  <2> QED
    BY <1>1, <1>4, <1>5, <2>4, <2>5, <2>6
<1>12. CASE UNCHANGED stack
  BY <1>1, <1>4, <1>12
<1> QED
  <2>1. CASE UNCHANGED vars
    BY <1>12, <2>1 DEF vars
  <2>2. ASSUME NEW g \in Hosts, StartHost(g) \/ DestroyHost(g) \/ DestroyContext(g) \/ Drain(g)
        PROVE  FALSE
    BY <1>2, <2>2 DEF StartHost, DestroyHost, DestroyContext, Drain
  <2>3. ASSUME NEW l \in Listeners, Listen(l) \/ Dispose(l) \/ ReleaseCaptured(l)
        PROVE  UNCHANGED stack
    BY <2>3 DEF Listen, Dispose, ReleaseCaptured
  <2>4. ASSUME NEW j \in Jobs, Await(j)
        PROVE  UNCHANGED stack
    BY <2>4 DEF Await
  <2>5. CASE Emit
    BY <1>12, <2>5 DEF Emit
  <2> QED
    BY <1>7, <1>8, <1>9, <1>10, <1>11, <1>12, <2>1, <2>2, <2>3, <2>4, <2>5 DEF Next

LEMMA StartedStep ==
  ASSUME IInv, [Next]_vars
  PROVE  StartedServed'
<1>1. StartedServed /\ SchedulerConsistent /\ HostsConsistent /\ TypeOK /\ None \notin Hosts
  BY NoneIsNoHost DEF IInv
<1>2. ASSUME ~ Invalidated, configured \subseteq configured', UNCHANGED scheduler,
             \A g \in Hosts : host'[g] = "started" => host[g] = "started" /\ realm'[g] = realm[g]
      PROVE  StartedServed'
  BY <1>1, <1>2, InvalidatingKept DEF StartedServed
<1>3. ASSUME NEW h \in Hosts, StartHost(h)
      PROVE  StartedServed'
  <2>1. /\ UNCHANGED <<configured, scheduler>> /\ host'[h] # "started"
        /\ \A g \in Hosts \ {h} : host'[g] = host[g] /\ realm'[g] = realm[g]
    BY <1>1, <1>3 DEF StartHost, serviceVars, TypeOK
  <2>2. ~ Invalidated
    BY <1>3 DEF StartHost, Invalidated, Return
  <2> QED
    BY <1>2, <2>1, <2>2
<1>4. ASSUME NEW h \in Hosts, DestroyHost(h)
      PROVE  StartedServed'
  <2>1. /\ UNCHANGED <<configured, scheduler, realm>>
        /\ \A g \in Hosts : host'[g] = "started" => host[g] = "started"
    BY <1>1, <1>4 DEF DestroyHost, serviceVars, TypeOK
  <2>2. ~ Invalidated
    BY <1>4 DEF DestroyHost, Invalidated, Return
  <2> QED
    BY <1>2, <2>1, <2>2
<1>5. CASE Started
  <2>1. /\ Top.host \in Hosts /\ scheduler = Top.host /\ Top.host \in configured
        /\ \A g \in Hosts \ {Top.host} : host'[g] = host[g]
        /\ UNCHANGED <<configured, scheduler, realm>> /\ ~ Invalidated
    BY <1>1, <1>5, OutermostFacts
    DEF Started, Return, OutermostCalls, HostBecomes, serviceVars, Invalidated, TypeOK
  <2> QED
    BY <1>1, <2>1, InvalidatingKept DEF StartedServed
<1>6. ASSUME ConfigureScheduler \/ ConfigureCallbacks \/ StartFailed
      PROVE  StartedServed'
  <2>1. /\ Top.host \in Hosts /\ host[Top.host] = "starting" /\ ~ Invalidated /\ UNCHANGED realm
        /\ configured \subseteq configured'
    BY <1>6, OutermostFacts
    DEF ConfigureScheduler, ConfigureCallbacks, StartFailed, Continue, OutermostCalls, Invalidated, Return,
        serviceVars
  <2>2. \A g \in Hosts : host'[g] = "started" => host[g] = "started"
    BY <1>1, <1>6 DEF ConfigureScheduler, ConfigureCallbacks, StartFailed, HostBecomes, TypeOK
  <2>3. CASE UNCHANGED scheduler
    BY <1>2, <2>1, <2>2, <2>3
  <2>4. CASE scheduler = None
    BY <1>1, <2>1, <2>2, <2>4, InvalidatingKept DEF StartedServed
  <2> QED
    BY <1>6, <2>3, <2>4 DEF ConfigureScheduler, ConfigureCallbacks, StartFailed
<1>7. CASE Shutdown
  <2>1. /\ Top.host \in Hosts /\ StopScheduler(Top.host) /\ ShutdownCallbacks(Top.host) /\ ~ Invalidated
        /\ host[Top.host] = "stopping" /\ host'[Top.host] = "gone"
        /\ \A g \in Hosts \ {Top.host} : host'[g] = host[g] /\ realm'[g] = realm[g]
    BY <1>1, <1>7, OutermostFacts
    DEF Shutdown, Return, HostBecomes, OutermostCalls, Invalidated, TypeOK
  <2>2. \A g \in Hosts : scheduler = g /\ g # Top.host => scheduler' = g
    BY <1>1, <2>1 DEF StopScheduler, SchedulerConsistent
  <2>3. \A g \in configured : g # Top.host => g \in configured'
    BY <2>1 DEF ShutdownCallbacks, serviceVars
  <2> QED
    BY <1>1, <2>1, <2>2, <2>3, InvalidatingKept DEF StartedServed
<1>8. CASE Invalidated
  <2>1. /\ Top.host \in Hosts /\ Top.op = "invalidate" /\ Len(stack) = 1 /\ Top = stack[Len(stack)]
        /\ UNCHANGED <<host, configured, scheduler>> /\ realm' = [realm EXCEPT ![Top.host] = "invalid"]
    BY <1>8, OutermostFacts, TopFacts DEF Invalidated, Return, OutermostCalls, serviceVars
  <2>2. \A g \in Hosts \ {Top.host} : ~ Invalidating(g)
    BY <2>1 DEF Invalidating
  <2> QED
    BY <1>1, <2>1, <2>2 DEF StartedServed, TypeOK
<1>9. ASSUME NEW h \in Hosts, DestroyContext(h)
      PROVE  StartedServed'
  <2>1. Idle /\ ~ Invalidated /\ UNCHANGED <<host, realm, configured>>
    BY <1>9 DEF DestroyContext, Invalidated, Return, hostVars, serviceVars
  <2>2. CASE UNCHANGED scheduler
    BY <1>2, <2>1, <2>2
  <2>3. CASE Enter("invalidate", h) /\ StopScheduler(h)
    <3>1. \A g \in Hosts : scheduler = g /\ g # h => scheduler' = g
      BY <1>1, <2>3 DEF StopScheduler, SchedulerConsistent
    <3>2. Call("invalidate", h, {}) \in Frames /\ stack \in Seq(Frames)
      BY <1>1, StackTyped DEF Frames, OtherCalls, Call, TypeOK
    <3>3. PICK f \in Frames : f = Call("invalidate", h, {})
      BY <3>2
    <3>4. Len(stack) = 0 /\ Len(stack') = 1 /\ stack'[1] = f /\ f.op = "invalidate" /\ f.host = h
      BY <2>1, <2>3, <3>2, <3>3, PushFacts, EmptySeq DEF Enter, Idle, Call
    <3>5. Invalidating(h)'
      BY <3>4 DEF Invalidating
    <3>6. \A g \in Hosts : ~ Invalidating(g)
      BY <3>4 DEF Invalidating
    <3> QED
      BY <1>1, <2>1, <3>1, <3>5, <3>6 DEF StartedServed
  <2> QED
    BY <1>9, <2>2, <2>3 DEF DestroyContext
<1>10. ASSUME ~ Invalidated, UNCHANGED <<configured, scheduler, host, realm>>
       PROVE  StartedServed'
  BY <1>2, <1>10
<1> QED
  <2>1. CASE UNCHANGED vars
    <3>1. UNCHANGED <<configured, scheduler, host, realm, stack>>
      BY <2>1 DEF vars, hostVars, serviceVars
    <3> QED
      BY <1>1, <3>1 DEF StartedServed, Invalidating
  <2>2. ASSUME NEW h \in Hosts, Drain(h)
        PROVE  ~ Invalidated /\ UNCHANGED <<configured, scheduler, host, realm>>
    BY <2>2 DEF Drain, serviceVars, Invalidated, Return
  <2>3. ASSUME NEW l \in Listeners, Listen(l) \/ Dispose(l) \/ ReleaseCaptured(l) \/ Invoke(l)
        PROVE  UNCHANGED <<configured, scheduler, host, realm>>
    BY <2>3 DEF Listen, Dispose, ReleaseCaptured, Invoke, hostVars, serviceVars
  <2>4. ASSUME NEW j \in Jobs, Await(j)
        PROVE  UNCHANGED <<configured, scheduler, host, realm>>
    BY <2>4 DEF Await, hostVars, serviceVars
  <2>5. ASSUME ProgramReturns \/ Emit \/ FireEvent \/ EventDone \/ RunHostedJob
        PROVE  UNCHANGED <<configured, scheduler, host, realm>>
    BY <2>5 DEF ProgramReturns, Emit, FireEvent, EventDone, RunHostedJob, hostVars, serviceVars
  <2> QED
    BY <1>3, <1>4, <1>5, <1>6, <1>7, <1>8, <1>9, <1>10, <2>1, <2>2, <2>3, <2>4, <2>5 DEF Next

LEMMA StackTypeStep ==
  ASSUME IInv, [Next]_vars
  PROVE  stack' \in Seq(Frames) /\ current' \in Hosts \cup {None}
<1> DEFINE Typed == stack' \in Seq(Frames) /\ current' \in Hosts \cup {None}
<1>1. TypeOK /\ stack \in Seq(Frames) /\ current \in Hosts \cup {None}
  BY StackTyped DEF IInv, TypeOK
<1>2. CASE UNCHANGED <<stack, current>>
  BY <1>1, <1>2
<1>3. ASSUME NEW s \in Seq(Frames), NEW op \in ProgramCalls \cup OtherCalls,
             NEW h \in Hosts \cup {None}, NEW left \in SUBSET Listeners
      PROVE  Append(s, Call(op, h, left)) \in Seq(Frames)
  <2>1. Call(op, h, left) \in Frames
    BY <1>1, <1>3 DEF Frames, Call
  <2>2. PICK f \in Frames : f = Call(op, h, left)
    BY <2>1
  <2> QED
    BY <2>2, PushFacts
<1>4. ASSUME NEW op \in ProgramCalls \cup OtherCalls, NEW h \in Hosts \cup {None}, Enter(op, h)
      PROVE  Typed
  BY <1>1, <1>3, <1>4 DEF Enter
<1>5. ASSUME ~ Idle
      PROVE  Front(stack) \in Seq(Frames) /\ Top \in Frames /\ Top.saved \in Hosts \cup {None}
  <2>1. Front(stack) \in Seq(Frames) /\ Top \in Frames
    BY <1>1, <1>5, PopFacts DEF Top, Idle
  <2> QED
    BY <2>1 DEF Frames
<1>6. ASSUME NEW op, Return(op)
      PROVE  Typed
  BY <1>5, <1>6 DEF Return, Restored
<1>7. ASSUME NEW h \in Hosts, StartHost(h) \/ DestroyHost(h) \/ DestroyContext(h) \/ Drain(h)
      PROVE  Typed
  <2>1. \/ UNCHANGED <<stack, current>>
        \/ \E op \in {"scheduler", "stop", "invalidate", "drain"} : Enter(op, h)
    BY <1>7 DEF StartHost, DestroyHost, DestroyContext, Drain
  <2>2. {"scheduler", "stop", "invalidate", "drain"} \subseteq ProgramCalls \cup OtherCalls
    BY DEF ProgramCalls, OtherCalls
  <2> QED
    BY <1>2, <1>4, <2>1, <2>2
<1>8. ASSUME Started \/ Shutdown \/ Invalidated \/ ProgramReturns
      PROVE  Typed
  BY <1>6, <1>8 DEF Started, Shutdown, Invalidated, ProgramReturns
<1>9. ASSUME ConfigureScheduler \/ ConfigureCallbacks \/ StartFailed
      PROVE  Typed
  <2>1. PICK to \in {"callbacks", "start", "rollback", "stop"} :
          ~ Idle /\ UNCHANGED current /\ stack' = Append(Front(stack), [Top EXCEPT !.op = to])
    BY <1>9 DEF ConfigureScheduler, ConfigureCallbacks, StartFailed, Continue
  <2>2. PICK f \in Frames : f = [Top EXCEPT !.op = to]
    BY <1>5, <2>1 DEF Frames, ProgramCalls, OtherCalls
  <2> QED
    BY <1>1, <1>5, <2>1, <2>2, PushFacts
<1>10. CASE FireEvent
  BY <1>1, <1>3, <1>10 DEF FireEvent, OtherCalls
<1>11. CASE EventDone
  BY <1>1, <1>5, <1>11 DEF EventDone
<1>12. CASE RunHostedJob
  <2>1. PICK j : j = Head(microtasks)
    OBVIOUS
  <2>2. j \in Jobs /\ jobRealm[j] \in Hosts \cup {None}
    BY <1>1, <1>12, <2>1, HeadTailProperties DEF RunHostedJob, TypeOK
  <2>3. \/ UNCHANGED <<stack, current>>
        \/ Enter("continuation", jobRealm[j])
        \/ stack' = Append(stack, Call("continuation", None, {})) /\ UNCHANGED current
    BY <1>12, <2>1 DEF RunHostedJob
  <2>4. Enter("continuation", jobRealm[j]) => Typed
    BY <1>4, <2>2 DEF ProgramCalls
  <2>5. Append(stack, Call("continuation", None, {})) \in Seq(Frames)
    BY <1>1, <1>3 DEF ProgramCalls
  <2> QED
    BY <1>1, <1>2, <2>3, <2>4, <2>5
<1>13. ASSUME NEW l \in Listeners, Invoke(l)
       PROVE  Typed
  <2> DEFINE rest == [stack EXCEPT ![Len(stack)].left = @ \ {l}]
  <2>1. ~ Idle /\ Top \in Frames /\ stack # <<>> /\ Top = stack[Len(stack)]
    BY <1>13, TopFacts DEF Invoke
  <2>2. PICK g \in Frames : g = [Top EXCEPT !.left = Top.left \ {l}]
    BY <2>1 DEF Frames
  <2>3. rest = [stack EXCEPT ![Len(stack)] = g]
    BY <2>1, <2>2
  <2> HIDE DEF rest
  <2>4. rest \in Seq(Frames)
    BY <1>1, <2>1, <2>3, RewriteFacts
  <2>5. target[l] \in Hosts \cup {None}
    BY <1>1 DEF TypeOK
  <2>6. Append(rest, Call("handler", target[l], {})) \in Seq(Frames)
    BY <1>3, <2>4, <2>5 DEF ProgramCalls
  <2>7. \/ stack' = Append(rest, Call("handler", target[l], {})) /\ current' = target[l]
        \/ stack' = rest /\ UNCHANGED current
    BY <1>13 DEF Invoke, rest
  <2> QED
    BY <1>1, <2>4, <2>5, <2>6, <2>7
<1> QED
  <2>1. CASE UNCHANGED vars
    BY <1>2, <2>1 DEF vars
  <2>2. ASSUME NEW l \in Listeners, Listen(l) \/ Dispose(l) \/ ReleaseCaptured(l)
        PROVE  UNCHANGED <<stack, current>>
    BY <2>2 DEF Listen, Dispose, ReleaseCaptured
  <2>3. ASSUME NEW j \in Jobs, Await(j)
        PROVE  UNCHANGED <<stack, current>>
    BY <2>3 DEF Await
  <2>4. CASE Emit
    BY <1>2, <2>4 DEF Emit
  <2> QED
    BY <1>2, <1>7, <1>8, <1>9, <1>10, <1>11, <1>12, <1>13, <2>1, <2>2, <2>3, <2>4 DEF Next

LEMMA TypeStep ==
  ASSUME IInv, [Next]_vars
  PROVE  TypeOK'
<1>1. TypeOK /\ None \notin Hosts /\ MaxPending \in Nat
  BY NoneIsNoHost, BoundsAssumption DEF IInv
<1> DEFINE HostsTyped ==
             /\ host \in [Hosts -> {"none", "starting", "started", "stopping", "gone"}]
             /\ realm \in [Hosts -> {"none", "alive", "invalid", "deleted"}]
             /\ context \subseteq Hosts /\ observer \subseteq Hosts
           SchedulerTyped ==
             /\ stopHook \subseteq Hosts /\ scheduler \in Hosts \cup {None}
             /\ job \in [Jobs -> {"unused", "queued", "cancelled", "ran", "freed"}]
             /\ microtasks \in Seq(Jobs) /\ jobRealm \in [Jobs -> Hosts \cup {None}]
           ServiceTyped ==
             /\ service \in Hosts \cup {None} /\ accepting \in BOOLEAN /\ configured \subseteq Hosts
             /\ pending \in 0..MaxPending
             /\ drains \in [Hosts -> 0..MaxPending]
           ListenersTyped ==
             /\ listener \in [Listeners -> {"unused", "listening", "detached"}]
             /\ target \in [Listeners -> Hosts \cup {None}]
<1>2. HostsTyped /\ SchedulerTyped /\ ServiceTyped /\ ListenersTyped
  BY <1>1 DEF TypeOK
<1>3. ASSUME NEW h, StopScheduler(h)
      PROVE  stopHook' \subseteq Hosts /\ scheduler' \in Hosts \cup {None}
             /\ job' \in [Jobs -> {"unused", "queued", "cancelled", "ran", "freed"}]
  BY <1>2, <1>3 DEF StopScheduler, CancelJobs
<1>4. ASSUME NEW h, CancelListeners(h)
      PROVE  ListenersTyped'
  BY <1>2, <1>4 DEF CancelListeners, Detached
<1>5. HostsTyped'
  <2>1. CASE UNCHANGED <<host, realm, context, observer>>
    BY <1>2, <2>1
  <2>2. ASSUME NEW h \in Hosts, StartHost(h) \/ DestroyHost(h) \/ DestroyContext(h)
        PROVE  HostsTyped'
    BY <1>2, <2>2 DEF StartHost, DestroyHost, DestroyContext, hostVars
  <2>3. CASE Started \/ StartFailed \/ Shutdown \/ Invalidated
    BY <1>2, <2>3 DEF Started, StartFailed, Shutdown, Invalidated, HostBecomes
  <2>4. CASE ConfigureScheduler \/ ConfigureCallbacks
    BY <1>2, <2>4 DEF ConfigureScheduler, ConfigureCallbacks, HostBecomes
  <2> QED
    <3>1. CASE UNCHANGED vars
      BY <2>1, <3>1 DEF vars, hostVars
    <3>2. ASSUME NEW h \in Hosts, Drain(h)
          PROVE  UNCHANGED <<host, realm, context, observer>>
      BY <3>2 DEF Drain
    <3>3. ASSUME NEW l \in Listeners, Listen(l) \/ Dispose(l) \/ ReleaseCaptured(l) \/ Invoke(l)
          PROVE  UNCHANGED <<host, realm, context, observer>>
      BY <3>3 DEF Listen, Dispose, ReleaseCaptured, Invoke, hostVars
    <3>4. ASSUME NEW j \in Jobs, Await(j)
          PROVE  UNCHANGED <<host, realm, context, observer>>
      BY <3>4 DEF Await, hostVars
    <3>5. ASSUME ProgramReturns \/ Emit \/ FireEvent \/ EventDone \/ RunHostedJob
          PROVE  UNCHANGED <<host, realm, context, observer>>
      BY <3>5 DEF ProgramReturns, Emit, FireEvent, EventDone, RunHostedJob, hostVars
    <3> QED
      BY <2>1, <2>2, <2>3, <2>4, <3>1, <3>2, <3>3, <3>4, <3>5 DEF Next
<1>6. SchedulerTyped'
  <2>1. CASE UNCHANGED <<stopHook, scheduler, jobVars>>
    BY <1>2, <2>1 DEF jobVars
  <2>2. CASE ConfigureScheduler
    <3>1. Top.host \in Hosts
      BY <2>2, OutermostFacts DEF ConfigureScheduler, Continue, OutermostCalls
    <3> QED
      BY <1>2, <2>2, <3>1 DEF ConfigureScheduler, jobVars
  <2>3. CASE Shutdown
    <3>1. PICK h : StopScheduler(h) /\ UNCHANGED <<microtasks, jobRealm>>
      BY <2>3 DEF Shutdown
    <3> QED
      BY <1>2, <1>3, <3>1
  <2>4. ASSUME NEW h \in Hosts, DestroyContext(h)
        PROVE  SchedulerTyped'
    <3>1. UNCHANGED <<microtasks, jobRealm>> /\ (StopScheduler(h) \/ UNCHANGED <<stopHook, scheduler, job>>)
      BY <2>4 DEF DestroyContext
    <3> QED
      BY <1>2, <1>3, <3>1
  <2>5. ASSUME NEW j \in Jobs, Await(j)
        PROVE  SchedulerTyped'
    <3>1. microtasks' \in Seq(Jobs)
      BY <1>2, <2>5, AppendProperties DEF Await
    <3> QED
      BY <1>2, <2>5, <3>1 DEF Await
  <2>6. CASE RunHostedJob
    <3>1. microtasks' \in Seq(Jobs)
      BY <1>2, <2>6, HeadTailProperties DEF RunHostedJob
    <3>2. job' = [job EXCEPT ![Head(microtasks)] = Settled(Head(microtasks))]
          /\ UNCHANGED <<stopHook, scheduler, jobRealm>>
      BY <2>6 DEF RunHostedJob
    <3>3. Settled(Head(microtasks)) \in {"ran", "freed"}
      BY DEF Settled
    <3> QED
      BY <1>2, <3>1, <3>2, <3>3
  <2> QED
    <3>1. CASE UNCHANGED vars
      BY <2>1, <3>1 DEF vars
    <3>2. ASSUME NEW h \in Hosts, StartHost(h) \/ DestroyHost(h) \/ Drain(h)
          PROVE  UNCHANGED <<stopHook, scheduler, jobVars>>
      BY <3>2 DEF StartHost, DestroyHost, Drain
    <3>3. ASSUME NEW l \in Listeners, Listen(l) \/ Dispose(l) \/ ReleaseCaptured(l) \/ Invoke(l)
          PROVE  UNCHANGED <<stopHook, scheduler, jobVars>>
      BY <3>3 DEF Listen, Dispose, ReleaseCaptured, Invoke
    <3>4. ASSUME \/ ConfigureCallbacks \/ Started \/ StartFailed \/ Invalidated \/ ProgramReturns
                 \/ Emit \/ FireEvent \/ EventDone
          PROVE  UNCHANGED <<stopHook, scheduler, jobVars>>
      BY <3>4 DEF ConfigureCallbacks, Started, StartFailed, Invalidated, ProgramReturns, Emit, FireEvent, EventDone
    <3> QED
      BY <2>1, <2>2, <2>3, <2>4, <2>5, <2>6, <3>1, <3>2, <3>3, <3>4 DEF Next
<1>7. ServiceTyped'
  <2>1. CASE UNCHANGED <<serviceVars, pending, drains>>
    BY <1>2, <2>1 DEF serviceVars
  <2>2. CASE ConfigureCallbacks
    <3>1. Top.host \in Hosts
      BY <2>2, OutermostFacts DEF ConfigureCallbacks, Continue, OutermostCalls
    <3> QED
      BY <1>2, <2>2, <3>1 DEF ConfigureCallbacks, serviceVars
  <2>3. CASE Shutdown
    <3>1. PICK h : ShutdownCallbacks(h) /\ UNCHANGED drains
      BY <2>3 DEF Shutdown
    <3>2. CASE h \in configured
      <4>1. pending' \in 0..MaxPending /\ service' \in Hosts \cup {None} /\ configured' \subseteq Hosts
        BY <1>1, <1>2, <3>1, <3>2 DEF ShutdownCallbacks
      <4>2. accepting' \in BOOLEAN
        BY <3>1, <3>2, Zenon DEF ShutdownCallbacks
      <4> QED
        BY <1>2, <3>1, <4>1, <4>2
    <3>3. CASE h \notin configured
      BY <2>1, <3>1, <3>3 DEF ShutdownCallbacks
    <3> QED
      BY <3>2, <3>3
  <2>4. CASE Emit
    <3>1. /\ service \in Hosts /\ pending < MaxPending /\ drains[service] < MaxPending
          /\ pending' = pending + 1 /\ drains' = [drains EXCEPT ![service] = drains[service] + 1]
          /\ UNCHANGED <<service, accepting, configured>>
      BY <1>2, <2>4 DEF Emit, serviceVars, IInv, ServiceConsistent
    <3>2. drains[service] \in 0..MaxPending
      BY <1>2, <3>1
    <3>3. pending + 1 \in 0..MaxPending /\ drains[service] + 1 \in 0..MaxPending
      BY <1>1, <1>2, <3>1, <3>2
    <3> QED
      BY <1>2, <3>1, <3>3
  <2>5. ASSUME NEW h \in Hosts, Drain(h)
        PROVE  ServiceTyped'
    <3>1. /\ drains[h] > 0 /\ drains' = [drains EXCEPT ![h] = drains[h] - 1]
          /\ UNCHANGED <<service, accepting, configured>>
          /\ pending' = pending \/ (pending > 0 /\ pending' = pending - 1)
      BY <2>5 DEF Drain, serviceVars
    <3>2. drains[h] \in 0..MaxPending
      BY <1>2
    <3>3. drains[h] - 1 \in 0..MaxPending /\ pending' \in 0..MaxPending
      BY <1>1, <1>2, <3>1, <3>2
    <3> QED
      BY <1>2, <3>1, <3>3
  <2> QED
    <3>1. CASE UNCHANGED vars
      BY <2>1, <3>1 DEF vars, hostVars
    <3>2. ASSUME NEW h \in Hosts, StartHost(h) \/ DestroyHost(h) \/ DestroyContext(h)
          PROVE  UNCHANGED <<serviceVars, pending, drains>>
      BY <3>2 DEF StartHost, DestroyHost, DestroyContext, hostVars
    <3>3. ASSUME NEW l \in Listeners, Listen(l) \/ Dispose(l) \/ ReleaseCaptured(l) \/ Invoke(l)
          PROVE  UNCHANGED <<serviceVars, pending, drains>>
      BY <3>3 DEF Listen, Dispose, ReleaseCaptured, Invoke, hostVars
    <3>4. ASSUME NEW j \in Jobs, Await(j)
          PROVE  UNCHANGED <<serviceVars, pending, drains>>
      BY <3>4 DEF Await, hostVars
    <3>5. ASSUME \/ ConfigureScheduler \/ Started \/ StartFailed \/ Invalidated \/ ProgramReturns
                 \/ FireEvent \/ EventDone \/ RunHostedJob
          PROVE  UNCHANGED <<serviceVars, pending, drains>>
      BY <3>5 DEF ConfigureScheduler, Started, StartFailed, Invalidated, ProgramReturns, FireEvent, EventDone,
                  RunHostedJob, hostVars
    <3> QED
      BY <2>1, <2>2, <2>3, <2>4, <2>5, <3>1, <3>2, <3>3, <3>4, <3>5 DEF Next
<1>8. ListenersTyped'
  <2>1. CASE UNCHANGED listenerVars
    BY <1>2, <2>1 DEF listenerVars
  <2>2. CASE Shutdown \/ Invalidated
    <3>1. PICK h : CancelListeners(h)
      BY <2>2 DEF Shutdown, Invalidated
    <3> QED
      BY <1>4, <3>1
  <2>3. ASSUME NEW l \in Listeners, Listen(l) \/ Dispose(l) \/ ReleaseCaptured(l)
        PROVE  ListenersTyped'
    <3>1. current \in Hosts \cup {None}
      BY <1>1 DEF TypeOK
    <3> QED
      BY <1>2, <2>3, <3>1 DEF Listen, Dispose, ReleaseCaptured
  <2> QED
    <3>1. CASE UNCHANGED vars
      BY <2>1, <3>1 DEF vars
    <3>2. ASSUME NEW h \in Hosts, StartHost(h) \/ DestroyHost(h) \/ DestroyContext(h) \/ Drain(h)
          PROVE  UNCHANGED listenerVars
      BY <3>2 DEF StartHost, DestroyHost, DestroyContext, Drain
    <3>3. ASSUME NEW l \in Listeners, Invoke(l)
          PROVE  UNCHANGED listenerVars
      BY <3>3 DEF Invoke
    <3>4. ASSUME NEW j \in Jobs, Await(j)
          PROVE  UNCHANGED listenerVars
      BY <3>4 DEF Await
    <3>5. ASSUME \/ ConfigureScheduler \/ ConfigureCallbacks \/ Started \/ StartFailed
                 \/ ProgramReturns \/ Emit \/ FireEvent \/ EventDone \/ RunHostedJob
          PROVE  UNCHANGED listenerVars
      BY <3>5 DEF ConfigureScheduler, ConfigureCallbacks, Started, StartFailed, ProgramReturns, Emit, FireEvent, EventDone, RunHostedJob
    <3> QED
      BY <2>1, <2>2, <2>3, <3>1, <3>2, <3>3, <3>4, <3>5 DEF Next
<1>9. stack' \in Seq(Frames) /\ current' \in Hosts \cup {None}
  BY StackTypeStep
<1> QED
  BY <1>5, <1>6, <1>7, <1>8, <1>9 DEF TypeOK, Frames

-----------------------------------------------------------------------------
LEMMA IInvInit == Init => IInv
<1> SUFFICES ASSUME Init
             PROVE  IInv
  OBVIOUS
<1>1. TypeOK
  <2>1. accepting \in BOOLEAN
    BY Zenon DEF Init
  <2>2. 0 \in 0..MaxPending
    BY BoundsAssumption
  <2>3. microtasks \in Seq(Jobs) /\ stack = <<>>
    BY EmptySeq DEF Init
  <2>4. /\ host \in [Hosts -> {"none", "starting", "started", "stopping", "gone"}]
        /\ realm \in [Hosts -> {"none", "alive", "invalid", "deleted"}]
        /\ context \subseteq Hosts /\ observer \subseteq Hosts /\ stopHook \subseteq Hosts
        /\ scheduler \in Hosts \cup {None} /\ service \in Hosts \cup {None} /\ configured \subseteq Hosts
        /\ current \in Hosts \cup {None}
    BY DEF Init
  <2>5. pending \in 0..MaxPending /\ drains \in [Hosts -> 0..MaxPending]
    BY <2>2 DEF Init
  <2>6. /\ job \in [Jobs -> {"unused", "queued", "cancelled", "ran", "freed"}]
        /\ jobRealm \in [Jobs -> Hosts \cup {None}]
        /\ listener \in [Listeners -> {"unused", "listening", "detached"}]
        /\ target \in [Listeners -> Hosts \cup {None}]
    BY DEF Init
  <2>7. stack \in Seq([op : ProgramCalls \cup OtherCalls, host : Hosts \cup {None},
                      saved : Hosts \cup {None}, left : SUBSET Listeners])
    BY <2>3, EmptySeq
  <2> QED
    BY <2>1, <2>3, <2>4, <2>5, <2>6, <2>7 DEF TypeOK
<1>2. /\ stack = <<>> /\ Len(stack) = 0 /\ current = None
      /\ microtasks = <<>> /\ Len(microtasks) = 0
  BY EmptySeq DEF Init
<1>3. StackConsistent /\ CallsLive
  BY <1>2 DEF StackConsistent, StackShape, CallsLive, Exists
<1>4. MicrotasksConsistent
  BY <1>2 DEF MicrotasksConsistent
<1>5. HostsConsistent /\ SchedulerConsistent
  BY DEF Init, HostsConsistent, SchedulerConsistent
<1>6. ServiceConsistent /\ StartedServed
  BY DEF Init, ServiceConsistent, StartedServed
<1>7. ReferencesLive
  BY DEF Init, ReferencesLive, Exists
<1> QED
  BY <1>1, <1>3, <1>4, <1>5, <1>6, <1>7 DEF IInv

LEMMA IInvNext == IInv /\ [Next]_vars => IInv'
<1> SUFFICES ASSUME IInv, [Next]_vars
             PROVE  IInv'
  OBVIOUS
<1> QED
  BY TypeStep, HostsStep, SchedulerStep, StackStep, MicrotasksStep, ServiceStep, StartedStep, ReferencesStep
  DEF IInv

(* The invariant, for every number of hosts and calls of any depth.        *)
THEOREM IInvInvariant == Spec => []IInv
BY IInvInit, IInvNext, PTL DEF Spec

(* Every reachable state is well typed (nts_blink_counter_host.cc,         *)
(* nts_blink_realm.cc: the stages of a host and of its realm).             *)
THEOREM TypeCorrect == Spec => []TypeOK
<1>1. IInv => TypeOK
  BY DEF IInv
<1> QED
  BY <1>1, IInvInvariant, PTL

(* No raw pointer that outlives a call leads to a deleted realm: not the   *)
(* scheduler's or an observer's, not a listener's, and not the current     *)
(* realm or one a scope will restore.  A service that admits or holds      *)
(* deliveries has its host, also when earlier ones did not quiesce.        *)
THEOREM PointersLive == Spec => []RealmPointersLive
<1>1. ASSUME IInv
      PROVE  RealmPointersLive
  <2>1. scheduler = None \/ realm[scheduler] \in {"alive", "invalid"}
    BY <1>1 DEF IInv, SchedulerConsistent
  <2>2. /\ accepting \/ pending > 0 => service \in configured
        /\ \A h \in configured : host[h] \notin {"none", "gone"}
        /\ configured \subseteq Hosts
    <3>1. ServiceConsistent /\ configured \subseteq Hosts
      BY <1>1 DEF IInv, TypeOK
    <3>2. pending > 0 => accepting
      BY <3>1 DEF ServiceConsistent
    <3>3. \A h \in configured : host[h] \notin {"none", "gone"}
      BY <3>1 DEF ServiceConsistent
    <3> QED
      BY <3>1, <3>2, <3>3, Zenon DEF ServiceConsistent
  <2>6. accepting \/ pending > 0 => service # None /\ host[service] \notin {"none", "gone"}
    BY <2>2, NoneIsNoHost
  <2>7. /\ \A h \in observer : h = None \/ realm[h] \in {"alive", "invalid"}
        /\ \A l \in Listeners : target[l] = None \/ realm[target[l]] \in {"alive", "invalid"}
        /\ current = None \/ realm[current] \in {"alive", "invalid"}
    BY <1>1 DEF IInv, ReferencesLive, CallsLive, Exists
  <2>3. stack \in Seq(Frames) /\ DOMAIN stack = 1..Len(stack)
    BY <1>1, StackTyped, LenProperties DEF IInv
  <2>4. \A i \in DOMAIN stack : stack[i].saved = None \/ realm[stack[i].saved] \in {"alive", "invalid"}
    BY <1>1, <2>3 DEF IInv, CallsLive, Exists
  <2>5. Idle => current = None
    BY <1>1 DEF IInv, StackConsistent, StackShape, Idle
  <2> QED
    BY <2>1, <2>4, <2>5, <2>6, <2>7 DEF RealmPointersLive
<1> QED
  BY <1>1, IInvInvariant, PTL

(* From the moment invalidation begins to release a realm's continuations, *)
(* and once a start was rolled back, nothing of that realm is in the       *)
(* scheduler again and no continuation of it is left to run; until then a  *)
(* started host keeps scheduler and service, whatever starts beside it.    *)
THEOREM AdmissionIsOwned == Spec => []AdmissionOwned
<1>1. ASSUME IInv
      PROVE  AdmissionOwned
  <2>1. SchedulerConsistent /\ StackConsistent /\ TypeOK /\ ServiceConsistent /\ StartedServed
    BY <1>1 DEF IInv
  <2>2. stack \in Seq(Frames) /\ DOMAIN stack = 1..Len(stack)
    BY <2>1, StackTyped, LenProperties
  <2>3. ASSUME NEW h \in Hosts,
               realm[h] # "alive" \/ (\E i \in DOMAIN stack : stack[i].op = "invalidate" /\ stack[i].host = h)
        PROVE  scheduler # h
    <3>1. CASE realm[h] # "alive"
      BY <2>1, <3>1, NoneIsNoHost DEF SchedulerConsistent
    <3>2. CASE \E i \in DOMAIN stack : stack[i].op = "invalidate" /\ stack[i].host = h
      BY <2>1, <2>2, <3>2 DEF StackConsistent, CallConsistent
    <3> QED
      BY <2>3, <3>1, <3>2
  <2>4. ASSUME NEW h \in Hosts, host[h] = "started"
        PROVE  /\ service = h /\ accepting
               /\ realm[h] = "alive" /\ ~ (\E i \in DOMAIN stack : stack[i].op = "invalidate" /\ stack[i].host = h)
                    => scheduler = h
    BY <2>1, <2>2, <2>4 DEF ServiceConsistent, StartedServed, Invalidating
  <2> QED
    BY <2>1, <2>3, <2>4 DEF AdmissionOwned, SchedulerConsistent
<1> QED
  BY <1>1, IInvInvariant, PTL

(* Whenever the program is entered for a continuation, a drain or a        *)
(* listener, its own realm is alive and is the one made current, whatever  *)
(* call was interrupted and whatever was current for it.                   *)
THEOREM ProgramEntersLiveRealm == Spec => EntersLiveRealm
<1> DEFINE Pushes == Len(stack') > Len(stack) /\ Last(stack').op \in {"continuation", "drain", "handler"}
           Entered == LET h == Last(stack').host IN h \in Hosts /\ current' = h /\ realm[h] = "alive"
<1>1. ASSUME IInv, Next
      PROVE  Pushes => Entered
  <2>1. TypeOK /\ stack \in Seq(Frames) /\ Len(stack) \in Nat /\ SchedulerConsistent
    BY <1>1, StackTyped, LenProperties DEF IInv
  <2>2. ASSUME NEW s \in Seq(Frames), NEW op \in ProgramCalls \cup OtherCalls,
               NEW h \in Hosts \cup {None}, NEW left \in SUBSET Listeners,
               stack' = Append(s, Call(op, h, left))
        PROVE  Last(stack').op = op /\ Last(stack').host = h
    <3>1. Call(op, h, left) \in Frames
      BY <2>1, <2>2 DEF Frames, Call, TypeOK
    <3>2. PICK f \in Frames : f = Call(op, h, left)
      BY <3>1
    <3>3. Last(Append(s, f)) = f
      BY PushFacts
    <3> QED
      BY <2>2, <3>2, <3>3 DEF Call
  <2>3. CASE UNCHANGED stack
    BY <2>1, <2>3
  <2>4. ASSUME stack' = Front(stack), ~ Idle
        PROVE  ~ Pushes
    <3>1. Len(stack') = Len(stack) - 1
      BY <2>1, <2>4, PopFacts DEF Idle
    <3> QED
      BY <2>1, <3>1
  <2>5. ASSUME NEW op \in {"scheduler", "stop", "invalidate"}, NEW h \in Hosts, Enter(op, h)
        PROVE  ~ Pushes
    <3>1. Last(stack').op = op
      BY <2>1, <2>2, <2>5 DEF Enter, ProgramCalls, OtherCalls
    <3> QED
      BY <2>5, <3>1
  <2>6. ASSUME NEW op \in {"continuation", "drain"}, NEW h \in Hosts, Enter(op, h), realm[h] = "alive"
        PROVE  Entered
    <3>1. Last(stack').host = h
      BY <2>1, <2>2, <2>6 DEF Enter, ProgramCalls
    <3> QED
      BY <2>6, <3>1 DEF Enter
  <2>7. ASSUME NEW h \in Hosts, StartHost(h) \/ DestroyHost(h) \/ DestroyContext(h)
        PROVE  Pushes => Entered
    <3>1. UNCHANGED stack \/ \E op \in {"scheduler", "stop", "invalidate"} : Enter(op, h)
      BY <2>7 DEF StartHost, DestroyHost, DestroyContext
    <3> QED
      BY <2>3, <2>5, <3>1
  <2>8. ASSUME NEW h \in Hosts, Drain(h)
        PROVE  Pushes => Entered
    <3>1. UNCHANGED stack \/ (realm[h] = "alive" /\ Enter("drain", h))
      BY <2>8 DEF Drain, MayDrain
    <3> QED
      BY <2>3, <2>6, <3>1
  <2>9. CASE Started \/ Shutdown \/ Invalidated \/ ProgramReturns \/ EventDone
    <3>1. stack' = Front(stack) /\ ~ Idle
      BY <2>9 DEF Started, Shutdown, Invalidated, ProgramReturns, EventDone, Return
    <3> QED
      BY <2>4, <3>1
  <2>10. ASSUME ConfigureScheduler \/ ConfigureCallbacks \/ StartFailed
         PROVE  Pushes => Entered
    <3>1. PICK to \in {"callbacks", "start", "rollback", "stop"} :
            ~ Idle /\ stack' = Append(Front(stack), [Top EXCEPT !.op = to])
      BY <2>10 DEF ConfigureScheduler, ConfigureCallbacks, StartFailed, Continue
    <3>2. Top \in Frames /\ Front(stack) \in Seq(Frames) /\ Len(Front(stack)) = Len(stack) - 1
      BY <2>1, <3>1, PopFacts DEF Top, Idle
    <3>3. PICK f \in Frames : f = [Top EXCEPT !.op = to]
      BY <3>2 DEF Frames, ProgramCalls, OtherCalls
    <3>4. Len(stack') = Len(Front(stack)) + 1
      BY <3>1, <3>2, <3>3, PushFacts
    <3> QED
      BY <2>1, <3>2, <3>4
  <2>11. CASE FireEvent
    <3>1. PICK left \in SUBSET Listeners : stack' = Append(stack, Call("event", None, left))
      BY <2>11 DEF FireEvent
    <3>2. Last(stack').op = "event"
      BY <2>1, <2>2, <3>1 DEF OtherCalls
    <3> QED
      BY <3>2
  <2>12. CASE RunHostedJob
    <3>1. PICK j : j = Head(microtasks)
      OBVIOUS
    <3>2. /\ j \in Jobs /\ microtasks # <<>> /\ j = microtasks[1] /\ Len(microtasks) \in Nat \ {0}
      BY <2>1, <2>12, <3>1, HeadTailProperties, EmptySeq DEF RunHostedJob, TypeOK
    <3>3. job[j] \in {"queued", "cancelled"}
      BY <1>1, <3>2 DEF IInv, MicrotasksConsistent
    <3>4. CASE job[j] = "cancelled"
      BY <2>3, <2>12, <3>1, <3>4 DEF RunHostedJob
    <3>5. CASE job[j] = "queued"
      <4>1. jobRealm[j] \in Hosts /\ realm[jobRealm[j]] = "alive"
        BY <2>1, <3>2, <3>5 DEF SchedulerConsistent, TypeOK
      <4>2. Enter("continuation", jobRealm[j])
        BY <2>12, <3>1, <3>5, <4>1 DEF RunHostedJob, Installs
      <4>3. PICK h \in Hosts : h = jobRealm[j]
        BY <4>1
      <4> QED
        BY <2>6, <4>1, <4>2, <4>3
    <3> QED
      BY <3>3, <3>4, <3>5
  <2>13. ASSUME NEW l \in Listeners, Invoke(l)
         PROVE  Pushes => Entered
    <3> DEFINE rest == [stack EXCEPT ![Len(stack)].left = @ \ {l}]
    <3>1. ~ Idle /\ Top \in Frames /\ stack # <<>> /\ Top = stack[Len(stack)]
      BY <1>1, <2>13, TopFacts DEF Invoke
    <3>2. PICK g \in Frames : g = [Top EXCEPT !.left = Top.left \ {l}]
      BY <3>1 DEF Frames
    <3>3. rest = [stack EXCEPT ![Len(stack)] = g]
      BY <3>1, <3>2
    <3> HIDE DEF rest
    <3>4. rest \in Seq(Frames) /\ Len(rest) = Len(stack)
      BY <2>1, <3>1, <3>3, RewriteFacts
    <3>5. CASE stack' = rest
      BY <2>1, <3>4, <3>5
    <3>6. CASE Invocable(l) /\ stack' = Append(rest, Call("handler", target[l], {})) /\ current' = target[l]
      <4>1. target[l] \in Hosts /\ realm[target[l]] = "alive"
        BY <2>1, <3>6 DEF Invocable, TypeOK
      <4>2. Last(stack').host = target[l]
        BY <2>2, <3>4, <3>6, <4>1 DEF ProgramCalls
      <4> QED
        BY <3>6, <4>1, <4>2
    <3> QED
      BY <2>13, <3>5, <3>6 DEF Invoke, rest
  <2>14. ASSUME NEW l \in Listeners, Listen(l) \/ Dispose(l) \/ ReleaseCaptured(l)
         PROVE  UNCHANGED stack
    BY <2>14 DEF Listen, Dispose, ReleaseCaptured
  <2>15. ASSUME NEW j \in Jobs, Await(j)
         PROVE  UNCHANGED stack
    BY <2>15 DEF Await
  <2>16. CASE Emit
    BY <2>3, <2>16 DEF Emit
  <2> QED
    BY <1>1, <2>3, <2>7, <2>8, <2>9, <2>10, <2>11, <2>12, <2>13, <2>14, <2>15, <2>16 DEF Next
<1>2. ASSUME IInv, [Next]_vars
      PROVE  [Pushes => Entered]_vars
  BY <1>1, <1>2
<1> QED
  BY <1>2, IInvInvariant, PTL DEF Spec, EntersLiveRealm
=============================================================================
