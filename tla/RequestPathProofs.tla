------------------------- MODULE RequestPathProofs -------------------------
(***************************************************************************)
(* Proofs about a request on its way through the Worker. In the first part *)
(* its signing keys, for any number of requests at once, any schedules and *)
(* intervals; in the second its guards, its handler and the instance that  *)
(* it is told of, for any requests sent and any failures; in the third who *)
(* it is, for any assertions, settings and times.                          *)
(***************************************************************************)
EXTENDS MCRequestPath, SequenceTheorems, WellFoundedInduction, TLAPS

(* What IInv says of one request, the properties included. *)
SlotOK(s) ==
    /\ req[s].now <= clock
    /\ ~At(s, "idle") => req[s].kid # None
    /\ Sound(req[s].held)
    /\ At(s, "answer") => PublishedSince(req[s].answer, req[s].now)
    /\ At(s, "accepted") /\ ~req[s].failed => life[req[s].kid].until + Ttl + EdgeTtl > req[s].now
    /\ At(s, "refused") /\ life[req[s].kid].from + MinInterval + EdgeTtl <= req[s].now
       /\ clock < life[req[s].kid].until => \E t \in failed : req[s].now < t + MinInterval

LEMMA IInvBySlot ==
    IInv <=> /\ TypeOK
             /\ Sound(entry)
             /\ \A s \in Slot : SlotOK(s)
             /\ AttemptsAreKnown
             /\ RefetchesAreSpaced
  BY DEF IInv, RequestsAreSound, AcceptedKeysAreRecent, RefusalsAreBrief, SlotOK

LEMMA IInvAfterBySlot ==
    ASSUME TypeOK', Sound(entry)', \A s \in Slot : SlotOK(s)', AttemptsAreKnown', RefetchesAreSpaced'
    PROVE  IInv'
  BY DEF IInv, RequestsAreSound, AcceptedKeysAreRecent, RefusalsAreBrief, SlotOK

(* Time passes, failures are remembered, and schedules are kept. *)
Onward == /\ life' = life
          /\ clock' \in Time /\ clock <= clock'
          /\ failed \subseteq failed'

LEMMA PublishedStays ==
    ASSUME TypeOK, Onward, NEW ks, NEW instant \in Time, PublishedSince(ks, instant)
    PROVE  PublishedSince(ks, instant)'
  BY DEF TypeOK, Onward, PublishedSince, Published, Time

LEMMA SoundStays ==
    ASSUME TypeOK, Onward, NEW e \in Entry \cup {None}, Sound(e)
    PROVE  Sound(e)'
<1>1. CASE e = None
  BY <1>1 DEF Sound
<1>2. CASE e # None
  <2>1. e.fetchedAt \in Time /\ e.attemptedAt \in Time
    BY <1>2 DEF Entry
  <2>2. PublishedSince(e.keys, e.fetchedAt)'
    BY <1>2, <2>1, PublishedStays DEF Sound
  <2>3. e.fetchedAt <= clock' /\ e.attemptedAt <= clock'
    BY <1>2, <2>1 DEF Sound, Onward, TypeOK, Time
  <2>4. e.attemptedAt # e.fetchedAt => e.attemptedAt \in failed'
    BY <1>2 DEF Sound, Onward
  <2> QED
    BY <2>2, <2>3, <2>4 DEF Sound
<1> QED
  BY <1>1, <1>2

LEMMA SlotStays ==
    ASSUME TypeOK, Onward, NEW s \in Slot, SlotOK(s), req'[s] = req[s]
    PROVE  SlotOK(s)'
<1>1. PICK r \in Request : r = req[s]
  BY DEF TypeOK
<1>2. req'[s] = r
  BY <1>1
<1>3. /\ r.now \in Time /\ r.held \in Entry \cup {None}
      /\ r.pc \in {"idle", "fetch", "answer", "accepted", "refused", "unavailable"}
      /\ r.pc # "idle" => r.kid \in Kid
  BY <1>1 DEF Request, SlotOK, At
<1>4. r.now <= clock /\ r.now <= clock'
  BY <1>1, <1>3 DEF SlotOK, Onward, TypeOK, Time
<1>5. Sound(r.held)'
  <2>1. Sound(r.held)
    BY <1>1 DEF SlotOK
  <2> QED
    BY <1>3, <2>1, SoundStays
<1>6. r.pc = "answer" => PublishedSince(r.answer, r.now)'
  <2>1. r.pc = "answer" => PublishedSince(r.answer, r.now)
    BY <1>1 DEF SlotOK, At
  <2> QED
    BY <1>3, <2>1, PublishedStays
<1>7. r.pc = "accepted" /\ ~r.failed => life'[r.kid].until + Ttl + EdgeTtl > r.now
  BY <1>1 DEF SlotOK, At, Onward
<1>8. r.pc = "refused" /\ life'[r.kid].from + MinInterval + EdgeTtl <= r.now /\ clock' < life'[r.kid].until
      => \E t \in failed' : r.now < t + MinInterval
  <2> SUFFICES ASSUME r.pc = "refused", life[r.kid].from + MinInterval + EdgeTtl <= r.now,
                      clock' < life[r.kid].until
               PROVE  \E t \in failed : r.now < t + MinInterval
    BY DEF Onward
  <2>1. life[r.kid].until \in Nat
    BY <1>3 DEF TypeOK, Life, Time
  <2>2. clock < life[r.kid].until
    BY <2>1 DEF Onward, TypeOK, Time
  <2> QED
    BY <1>1, <2>2 DEF SlotOK, At
<1> HIDE DEF Onward
<1> QED
  BY <1>2, <1>3, <1>4, <1>5, <1>6, <1>7, <1>8 DEF SlotOK, At
----------------------------------------------------------------------------
(* The entry when a request comes. *)

\* A key of a fresh entry is recent.
LEMMA FreshMeansRecent ==
    ASSUME TypeOK, Sound(entry), NEW k \in Kid, Fresh(entry, clock), k \in entry.keys
    PROVE  life[k].until + Ttl + EdgeTtl > clock
<1>1. entry \in Entry
  BY DEF TypeOK, Fresh
<1>2. PICK t \in 0..clock : entry.fetchedAt <= t + EdgeTtl /\ entry.keys = Published(t)
  BY DEF Sound, PublishedSince, Fresh
<1>3. t < life[k].until
  BY <1>2 DEF Published
<1>4. life[k].until \in Nat /\ entry.fetchedAt \in Nat /\ clock \in Nat
  BY <1>1 DEF TypeOK, Life, Time, Entry
<1>5. clock < entry.fetchedAt + Ttl
  BY DEF Fresh
<1> QED
  BY <1>2, <1>3, <1>4, <1>5, IntervalAssumption

\* An unknown key that the limit keeps unknown is new, gone, or there was a failure.
LEMMA LimitedMeansBrief ==
    ASSUME TypeOK, Sound(entry), NEW k \in Kid, Fresh(entry, clock), k \notin entry.keys,
           Limited(entry, clock),
           life[k].from + MinInterval + EdgeTtl <= clock, clock < life[k].until
    PROVE  \E t \in failed : clock < t + MinInterval
<1>1. entry \in Entry
  BY DEF TypeOK, Fresh
<1>2. PICK t \in 0..clock : entry.fetchedAt <= t + EdgeTtl /\ entry.keys = Published(t)
  BY DEF Sound, PublishedSince, Fresh
<1>3. /\ life[k].from \in Nat /\ life[k].until \in Nat /\ clock \in Nat
      /\ entry.fetchedAt \in Nat /\ entry.attemptedAt \in Nat
  BY <1>1 DEF TypeOK, Life, Time, Entry
<1>4. clock < entry.attemptedAt + MinInterval
  BY DEF Limited
<1>5. CASE entry.attemptedAt = entry.fetchedAt
  <2>1. life[k].from <= t /\ t < life[k].until
    BY <1>2, <1>3, <1>4, <1>5, IntervalAssumption
  <2> QED
    BY <1>2, <2>1 DEF Published
<1>6. CASE entry.attemptedAt # entry.fetchedAt
  BY <1>4, <1>6 DEF Sound, Fresh
<1> QED
  BY <1>5, <1>6
----------------------------------------------------------------------------
(* A request arrives. *)

LEMMA ArriveKeeps ==
    ASSUME IInv, NEW s \in Slot, NEW k \in Kid, NEW r \in Request, Arrive(s, r),
           r.now = clock, r.kid = k, r.held \in {None, entry}, r.pc \in {"fetch", "accepted", "refused"},
           r.pc = "accepted" => life[k].until + Ttl + EdgeTtl > clock,
           r.pc = "refused" /\ life[k].from + MinInterval + EdgeTtl <= clock /\ clock < life[k].until
              => \E t \in failed : clock < t + MinInterval,
           r.pc = "fetch" => r.held = entry,
           r.pc = "fetch" /\ r.refetch => entry # None /\ entry.attemptedAt + MinInterval <= clock
    PROVE  IInv'
<1>0. TypeOK /\ Sound(entry) /\ (\A o \in Slot : SlotOK(o)) /\ AttemptsAreKnown /\ RefetchesAreSpaced
  BY IInvBySlot
<1>1. /\ UNCHANGED <<clock, life, entry, failed, latest>>
      /\ req'[s] = r /\ \A o \in Slot : o # s => req'[o] = req[o]
      /\ overlapped' \in BOOLEAN
      /\ ~Fetching(s)
  BY <1>0 DEF Arrive, TypeOK
<1>2. TypeOK'
  BY <1>0, <1>1 DEF TypeOK, Arrive
<1>3. Onward
  BY <1>0, <1>1 DEF Onward, TypeOK, Time
<1>4. Sound(entry)' /\ Sound(r.held)'
  BY <1>0, <1>1 DEF Sound, PublishedSince, Published
<1>5. SlotOK(s)'
  <2>1. (r.now <= clock)'
    BY <1>0, <1>1 DEF TypeOK, Time
  <2>2. r.kid # None
    BY NoneAssumption
  <2> QED
    BY <1>1, <1>4, <2>1, <2>2 DEF SlotOK, At
<1>6. \A o \in Slot : SlotOK(o)'
  BY <1>0, <1>1, <1>3, <1>5, SlotStays
<1>7. ASSUME ~overlapped'
      PROVE  ~overlapped /\ (r.pc = "fetch" => \A o \in Slot : ~Fetching(o))
  BY <1>7 DEF Arrive
<1>8. AttemptsAreKnown'
  <2> SUFFICES ASSUME ~overlapped'
               PROVE  /\ entry # None => latest = entry.attemptedAt
                      /\ \A o \in Slot : Fetching(o)' => (req[o].held)' = entry
                      /\ \A o, q \in Slot : Fetching(o)' /\ Fetching(q)' => o = q
                      /\ \A o \in Slot : Fetching(o)' /\ (req[o].refetch)' => entry # None
    BY <1>1 DEF AttemptsAreKnown
  <2>1. \A o \in Slot : o # s => (Fetching(o)' <=> Fetching(o))
    BY <1>1 DEF Fetching
  <2>2. Fetching(s)' <=> r.pc = "fetch"
    BY <1>1 DEF Fetching
  <2> QED
    BY <1>0, <1>1, <1>7, <2>1, <2>2 DEF AttemptsAreKnown
<1>9. RefetchesAreSpaced'
  <2> SUFFICES ASSUME ~overlapped', NEW o \in Slot, Fetching(o)', (req[o].refetch)'
               PROVE  latest + MinInterval <= (req[o].now)'
    BY <1>1 DEF RefetchesAreSpaced
  <2>1. CASE o # s
    BY <1>0, <1>1, <1>7, <2>1 DEF RefetchesAreSpaced, Fetching
  <2>2. CASE o = s
    BY <1>0, <1>1, <1>7, <2>2 DEF AttemptsAreKnown, Fetching
  <2> QED
    BY <2>1, <2>2
<1> QED
  BY <1>2, <1>4, <1>6, <1>8, <1>9, IInvAfterBySlot

LEMMA NewIsRequest ==
    ASSUME TypeOK, NEW k \in Kid, NEW pc \in {"fetch", "accepted", "refused"}
    PROVE  /\ New(k, pc) \in Request
           /\ New(k, pc).pc = pc /\ New(k, pc).kid = k /\ New(k, pc).now = clock /\ New(k, pc).held = None
  BY DEF TypeOK, New, Idle, Request, Time

LEMMA FetchIsRequest ==
    ASSUME TypeOK, NEW k \in Kid, NEW again \in BOOLEAN
    PROVE  /\ Fetch(k, again) \in Request
           /\ Fetch(k, again).pc = "fetch" /\ Fetch(k, again).kid = k /\ Fetch(k, again).now = clock
           /\ Fetch(k, again).held = entry /\ Fetch(k, again).refetch = again
  BY DEF TypeOK, Fetch, New, Idle, Request, Time

LEMMA ArrivalsKeep ==
    ASSUME IInv, NEW s \in Slot, NEW k \in Kid,
           FindCached(s, k) \/ RefuseUnknown(s, k) \/ StartRefetch(s, k) \/ StartFetch(s, k)
    PROVE  IInv'
<1>0. TypeOK /\ Sound(entry)
  BY DEF IInv
<1>1. CASE FindCached(s, k)
  <2> DEFINE r == New(k, "accepted")
  <2>1. /\ r \in Request /\ r.pc = "accepted" /\ r.kid = k /\ r.now = clock /\ r.held = None
    BY <1>0, NewIsRequest
  <2>2. Arrive(s, r) /\ life[k].until + Ttl + EdgeTtl > clock
    BY <1>0, <1>1, FreshMeansRecent DEF FindCached
  <2> HIDE DEF r
  <2>3. PICK c \in Request : c = r
    BY <2>1
  <2> QED
    BY <2>1, <2>2, <2>3, ArriveKeeps
<1>2. CASE RefuseUnknown(s, k)
  <2> DEFINE r == New(k, "refused")
  <2>1. /\ r \in Request /\ r.pc = "refused" /\ r.kid = k /\ r.now = clock /\ r.held = None
    BY <1>0, NewIsRequest
  <2>2. Arrive(s, r) /\ Fresh(entry, clock) /\ k \notin entry.keys /\ Limited(entry, clock)
    BY <1>2 DEF RefuseUnknown
  <2>3. life[k].from + MinInterval + EdgeTtl <= clock /\ clock < life[k].until
        => \E t \in failed : clock < t + MinInterval
    BY <1>0, <2>2, LimitedMeansBrief
  <2> HIDE DEF r
  <2>4. PICK c \in Request : c = r
    BY <2>1
  <2> QED
    BY <2>1, <2>2, <2>3, <2>4, ArriveKeeps
<1>3. CASE StartRefetch(s, k)
  <2> DEFINE r == Fetch(k, TRUE)
  <2>1. /\ r \in Request /\ r.pc = "fetch" /\ r.kid = k /\ r.now = clock /\ r.held = entry
    BY <1>0, FetchIsRequest
  <2>2. Arrive(s, r) /\ Fresh(entry, clock) /\ ~Limited(entry, clock)
    BY <1>3 DEF StartRefetch
  <2>3. entry # None /\ entry.attemptedAt + MinInterval <= clock
    BY <1>0, <2>2, IntervalAssumption DEF Fresh, Limited, TypeOK, Entry, Time
  <2> HIDE DEF r
  <2>4. PICK c \in Request : c = r
    BY <2>1
  <2> QED
    BY <2>1, <2>2, <2>3, <2>4, ArriveKeeps
<1>4. CASE StartFetch(s, k)
  <2> DEFINE r == Fetch(k, FALSE)
  <2>1. /\ r \in Request /\ r.pc = "fetch" /\ r.kid = k /\ r.now = clock /\ r.held = entry /\ ~r.refetch
    BY <1>0, FetchIsRequest
  <2>2. Arrive(s, r)
    BY <1>4 DEF StartFetch
  <2> HIDE DEF r
  <2>3. PICK c \in Request : c = r
    BY <2>1
  <2> QED
    BY <2>1, <2>2, <2>3, ArriveKeeps
<1> QED
  BY <1>1, <1>2, <1>3, <1>4
----------------------------------------------------------------------------
(* Answers and failures, which end a fetch. *)

\* What a request s ends with, its fetch over, the entry being e from now on.
LEMMA ConclusionKeeps ==
    ASSUME IInv, NEW s \in Slot, Fetching(s), UNCHANGED <<clock, life, overlapped>>,
           failed' \in SUBSET Time, failed \subseteq failed', latest' = req[s].now,
           entry' \in Entry \cup {None}, Sound(entry)',
           ~overlapped /\ entry' # None => entry'.attemptedAt = req[s].now,
           NEW r \in Request, req' = [req EXCEPT ![s] = r],
           r.pc \in {"accepted", "refused", "unavailable"}, r.kid = req[s].kid, r.now = req[s].now,
           r.held = None,
           r.pc = "accepted" /\ ~r.failed => life[r.kid].until + Ttl + EdgeTtl > r.now,
           r.pc = "refused" /\ life[r.kid].from + MinInterval + EdgeTtl <= r.now /\ clock < life[r.kid].until
              => \E t \in failed' : r.now < t + MinInterval
    PROVE  IInv'
<1>0. TypeOK /\ (\A o \in Slot : SlotOK(o)) /\ AttemptsAreKnown /\ RefetchesAreSpaced
  BY IInvBySlot
<1>1. /\ req'[s] = r /\ \A o \in Slot : o # s => req'[o] = req[o]
      /\ r.now \in Time /\ req[s].kid # None
  BY <1>0 DEF TypeOK, SlotOK, Fetching, At, Request
<1>2. TypeOK'
  BY <1>0, <1>1 DEF TypeOK, Time
<1>3. Onward
  BY <1>0 DEF Onward, TypeOK, Time
<1>4. SlotOK(s)'
  <2>1. (r.now <= clock)'
    BY <1>0 DEF SlotOK
  <2> QED
    BY <1>1, <2>1 DEF SlotOK, At, Sound
<1>5. \A o \in Slot : SlotOK(o)'
  BY <1>0, <1>1, <1>3, <1>4, SlotStays
<1>6. ASSUME ~overlapped, NEW o \in Slot
      PROVE  ~Fetching(o)'
  <2>1. CASE o = s
    BY <1>1, <2>1 DEF Fetching
  <2>2. CASE o # s
    BY <1>0, <1>1, <1>6, <2>2 DEF Fetching, AttemptsAreKnown
  <2> QED
    BY <2>1, <2>2
<1>7. AttemptsAreKnown' /\ RefetchesAreSpaced'
  BY <1>6 DEF AttemptsAreKnown, RefetchesAreSpaced
<1> QED
  BY <1>2, <1>5, <1>7, IInvAfterBySlot

LEMMA AnsweredIsRequest ==
    ASSUME TypeOK, NEW s \in Slot, NEW pc \in {"accepted", "refused", "unavailable"}, NEW own \in BOOLEAN
    PROVE  /\ Answered(s, pc, own) \in Request
           /\ Answered(s, pc, own).pc = pc /\ Answered(s, pc, own).kid = req[s].kid
           /\ Answered(s, pc, own).now = req[s].now /\ Answered(s, pc, own).held = None
           /\ Answered(s, pc, own).failed = own
  BY DEF TypeOK, Answered, Idle, Request, Time

LEMMA LandKeeps ==
    ASSUME IInv, NEW s \in Slot, Land(s)
    PROVE  IInv'
<1>0. TypeOK /\ SlotOK(s) /\ At(s, "answer")
  BY IInvBySlot DEF Land
<1>1. /\ req[s] \in Request /\ req[s].now \in Time /\ req[s].answer \in SUBSET Kid
      /\ req[s].kid \in Kid /\ req[s].now <= clock
  BY <1>0 DEF TypeOK, Request, SlotOK, At
<1>2. PICK t \in 0..clock : req[s].now <= t + EdgeTtl /\ req[s].answer = Published(t)
  BY <1>0 DEF SlotOK, PublishedSince
<1>3. /\ UNCHANGED <<clock, life, overlapped, failed>> /\ latest' = req[s].now
      /\ entry' = [keys |-> req[s].answer, fetchedAt |-> req[s].now, attemptedAt |-> req[s].now]
  BY DEF Land, Conclude
<1>4. entry' \in Entry /\ entry'.attemptedAt = req[s].now
  BY <1>1, <1>3 DEF Entry
<1>5. Sound(entry)'
  <2>1. PublishedSince(req[s].answer, req[s].now)
    BY <1>2 DEF PublishedSince
  <2> QED
    BY <1>1, <1>3, <2>1 DEF Sound, PublishedSince, Published
<1>6. life[req[s].kid].from \in Nat /\ life[req[s].kid].until \in Nat /\ clock \in Nat /\ t \in Nat
  BY <1>0, <1>1 DEF TypeOK, Life, Time
<1>7. req[s].kid \in req[s].answer => life[req[s].kid].until + Ttl + EdgeTtl > req[s].now
  BY <1>1, <1>2, <1>6, IntervalAssumption DEF Published, Time
<1>8. req[s].kid \notin req[s].answer =>
         ~(life[req[s].kid].from + MinInterval + EdgeTtl <= req[s].now /\ clock < life[req[s].kid].until)
  BY <1>1, <1>2, <1>6, IntervalAssumption DEF Published, Time
<1>9. PICK pc \in {"accepted", "refused"} :
         pc = IF req[s].kid \in req[s].answer THEN "accepted" ELSE "refused"
  OBVIOUS
<1> DEFINE r == Answered(s, pc, FALSE)
<1>10. /\ r \in Request /\ r.pc = pc /\ r.kid = req[s].kid /\ r.now = req[s].now /\ r.held = None
  BY ZenonT(40), <1>0, AnsweredIsRequest
<1>11. req' = [req EXCEPT ![s] = r]
  BY <1>9 DEF Land, Conclude
<1> HIDE DEF r
<1>12. PICK c \in Request : c = r
  BY <1>10
<1>13. Fetching(s) /\ failed' \in SUBSET Time
  BY <1>0, <1>3 DEF Fetching, At, TypeOK
<1> QED
  BY <1>3, <1>4, <1>5, <1>7, <1>8, <1>9, <1>10, <1>11, <1>12, <1>13, ConclusionKeeps

LEMMA FailKeeps ==
    ASSUME IInv, NEW s \in Slot, Fail(s)
    PROVE  IInv'
<1>0. TypeOK /\ SlotOK(s) /\ Fetching(s) /\ Sound(entry)
  BY IInvBySlot DEF Fail
<1>1. /\ req[s] \in Request /\ req[s].now \in Time /\ req[s].kid \in Kid /\ req[s].now <= clock
      /\ req[s].held \in Entry \cup {None} /\ Sound(req[s].held)
  BY <1>0 DEF TypeOK, Request, SlotOK, At, Fetching
<1>2. /\ UNCHANGED <<clock, life, overlapped>> /\ latest' = req[s].now
      /\ failed' = failed \cup {req[s].now}
  BY DEF Fail, Conclude
<1>3. failed' \in SUBSET Time /\ failed \subseteq failed'
  BY <1>0, <1>1, <1>2 DEF TypeOK
<1>4. Onward
  BY <1>0, <1>2, <1>3 DEF Onward, TypeOK, Time
<1>5. CASE req[s].held = None
  <2> DEFINE r == Answered(s, "unavailable", TRUE)
  <2>1. /\ r \in Request /\ r.pc = "unavailable" /\ r.kid = req[s].kid /\ r.now = req[s].now
        /\ r.held = None
    BY <1>0, AnsweredIsRequest
  <2>2. req' = [req EXCEPT ![s] = r] /\ entry' = entry
    BY <1>5 DEF Fail
  <2> HIDE DEF r
  <2>3. PICK c \in Request : c = r
    BY <2>1
  <2>4. ~overlapped => entry' = None
    BY <1>0, <1>5, <2>2 DEF IInv, AttemptsAreKnown
  <2>5. entry' \in Entry \cup {None} /\ Sound(entry)'
    BY <1>0, <1>2, <1>3, <2>2 DEF TypeOK, Sound, PublishedSince, Published
  <2> QED
    BY <1>0, <1>2, <1>3, <2>1, <2>2, <2>3, <2>4, <2>5, ConclusionKeeps
<1>6. CASE req[s].held # None
  <2>1. PICK pc \in {"accepted", "refused"} :
           pc = IF req[s].kid \in req[s].held.keys THEN "accepted" ELSE "refused"
    OBVIOUS
  <2>2. entry' = [req[s].held EXCEPT !.attemptedAt = req[s].now]
    BY <1>6 DEF Fail
  <2>3. PICK h \in Entry : h = req[s].held
    BY <1>1, <1>6
  <2>4. /\ entry' \in Entry /\ entry'.keys = h.keys /\ entry'.fetchedAt = h.fetchedAt
        /\ entry'.attemptedAt = req[s].now
    BY <1>1, <2>2, <2>3 DEF Entry
  <2>5. h.fetchedAt <= clock /\ PublishedSince(h.keys, h.fetchedAt)'
    <3>1. Sound(h) /\ h # None
      BY <1>1, <1>6, <2>3
    <3>2. h.fetchedAt \in Time
      BY DEF Entry
    <3> QED
      BY <1>0, <1>4, <3>1, <3>2, PublishedStays DEF Sound
  <2>6. Sound(entry)'
    BY <1>1, <1>2, <2>4, <2>5 DEF Sound, PublishedSince, Published
  <2> DEFINE r == Answered(s, pc, TRUE)
  <2>7. /\ r \in Request /\ r.pc = pc /\ r.kid = req[s].kid /\ r.now = req[s].now
        /\ r.held = None /\ r.failed
    BY ZenonT(40), <1>0, AnsweredIsRequest
  <2>8. req' = [req EXCEPT ![s] = r]
    BY <1>6, <2>1 DEF Fail, Conclude
  <2> HIDE DEF r
  <2>9. PICK c \in Request : c = r
    BY <2>7
  <2>10. \E t \in failed' : req[s].now < t + MinInterval
    BY <1>1, <1>2, IntervalAssumption DEF Time
  <2> QED
    BY <1>0, <1>2, <1>3, <2>1, <2>4, <2>6, <2>7, <2>8, <2>9, <2>10, ConclusionKeeps
<1> QED
  BY <1>5, <1>6

(* The rest. *)

LEMMA ServeKeeps ==
    ASSUME IInv, NEW s \in Slot, Serve(s)
    PROVE  IInv'
<1>0. /\ TypeOK /\ Sound(entry) /\ (\A o \in Slot : SlotOK(o)) /\ AttemptsAreKnown /\ RefetchesAreSpaced
      /\ At(s, "fetch")
  BY IInvBySlot DEF Serve
<1>1. PICK t \in 0..clock : /\ clock <= t + EdgeTtl
                            /\ req' = [req EXCEPT ![s].pc = "answer", ![s].answer = Published(t)]
  BY DEF Serve
<1>2. UNCHANGED <<clock, life, entry, failed, latest, overlapped>>
  BY DEF Serve
<1>3. req[s] \in Request
  BY <1>0 DEF TypeOK
<1>4. PICK r \in Request : r = [req[s] EXCEPT !.pc = "answer", !.answer = Published(t)]
  BY <1>3 DEF Request, Published
<1>5. /\ r.pc = "answer" /\ r.kid = req[s].kid /\ r.now = req[s].now /\ r.refetch = req[s].refetch
      /\ r.held = req[s].held /\ r.answer = Published(t)
  BY <1>3, <1>4 DEF Request
<1>6. req'[s] = r /\ req' = [req EXCEPT ![s] = r] /\ \A o \in Slot : o # s => req'[o] = req[o]
  BY <1>0, <1>1, <1>4 DEF TypeOK
<1>7. TypeOK'
  BY <1>0, <1>2, <1>6 DEF TypeOK
<1>8. Onward
  BY <1>0, <1>2 DEF Onward, TypeOK, Time
<1>9. SlotOK(s)'
  <2>1. r.now <= clock /\ r.kid # None /\ Sound(r.held) /\ r.held \in Entry \cup {None} /\ r.now \in Time
    BY <1>0, <1>3, <1>5 DEF SlotOK, At, Request
  <2>2. Sound(r.held)'
    BY <1>0, <1>8, <2>1, SoundStays
  <2>3. PublishedSince(r.answer, r.now)
    BY <1>0, <1>1, <1>5, <2>1, IntervalAssumption DEF PublishedSince, TypeOK, Time
  <2>4. PublishedSince(r.answer, r.now)'
    BY <1>0, <1>8, <2>1, <2>3, PublishedStays
  <2> QED
    BY <1>2, <1>5, <1>6, <2>1, <2>2, <2>4 DEF SlotOK, At
<1>10. \A o \in Slot : SlotOK(o)'
  BY <1>0, <1>6, <1>8, <1>9, SlotStays
<1>11. Sound(entry)'
  BY <1>0, <1>2 DEF Sound, PublishedSince, Published
<1>12. \A o \in Slot : /\ Fetching(o)' <=> Fetching(o)
                       /\ Fetching(o) => /\ (req[o].held)' = req[o].held /\ (req[o].now)' = req[o].now
                                         /\ (req[o].refetch)' = req[o].refetch
  BY <1>0, <1>5, <1>6 DEF Fetching, At
<1>13. AttemptsAreKnown' /\ RefetchesAreSpaced'
  BY <1>0, <1>2, <1>12 DEF AttemptsAreKnown, RefetchesAreSpaced
<1> QED
  BY <1>7, <1>10, <1>11, <1>13, IInvAfterBySlot

LEMMA RecycleKeeps ==
    ASSUME IInv, Recycle
    PROVE  IInv'
<1>1. TypeOK /\ UNCHANGED <<clock, life, failed, latest, overlapped>> /\ entry' = None
      /\ req' = [s \in Slot |-> Idle]
  BY DEF IInv, Recycle
<1>2. Idle \in Request
  BY DEF Idle, Request, Time
<1>3. TypeOK' /\ Sound(entry)'
  BY <1>1, <1>2 DEF TypeOK, Sound
<1>4. \A s \in Slot : SlotOK(s)'
  BY <1>1 DEF TypeOK, SlotOK, At, Idle, Sound, Time
<1>5. \A s \in Slot : ~Fetching(s)'
  BY <1>1 DEF Fetching, Idle
<1>6. AttemptsAreKnown' /\ RefetchesAreSpaced'
  BY <1>1, <1>5 DEF AttemptsAreKnown, RefetchesAreSpaced
<1> QED
  BY <1>3, <1>4, <1>6, IInvAfterBySlot

LEMMA TickKeeps ==
    ASSUME IInv, Tick \/ UNCHANGED vars
    PROVE  IInv'
<1>1. /\ TypeOK /\ Sound(entry) /\ (\A o \in Slot : SlotOK(o)) /\ AttemptsAreKnown /\ RefetchesAreSpaced
      /\ UNCHANGED <<life, entry, req, failed, latest, overlapped>>
  BY IInvBySlot DEF Tick, vars
<1>2. TypeOK' /\ Onward
  BY <1>1 DEF TypeOK, Onward, Tick, vars, Time
<1>3. Sound(entry)'
  <2>1. PICK e \in Entry \cup {None} : e = entry
    BY <1>1 DEF TypeOK
  <2>2. Sound(e)'
    BY <1>1, <1>2, <2>1, SoundStays
  <2> QED
    BY <1>1, <2>1, <2>2 DEF Sound
<1>4. \A s \in Slot : SlotOK(s)'
  BY <1>1, <1>2, SlotStays
<1>5. AttemptsAreKnown' /\ RefetchesAreSpaced'
  BY <1>1 DEF AttemptsAreKnown, RefetchesAreSpaced, Fetching
<1> QED
  BY <1>2, <1>3, <1>4, <1>5, IInvAfterBySlot
----------------------------------------------------------------------------
(* Theorems. *)

LEMMA InvInit == Init => IInv
<1> SUFFICES ASSUME Init PROVE IInv
  OBVIOUS
<1>1. Idle \in Request
  BY DEF Idle, Request, Time
<1>2. TypeOK
  BY <1>1, ScheduleAssumption DEF Init, TypeOK, Time
<1>3. \A s \in Slot : SlotOK(s) /\ ~Fetching(s)
  BY DEF Init, SlotOK, At, Idle, Sound, Fetching
<1>4. Sound(entry) /\ AttemptsAreKnown /\ RefetchesAreSpaced
  BY <1>3 DEF Init, Sound, AttemptsAreKnown, RefetchesAreSpaced
<1> QED
  BY <1>2, <1>3, <1>4, IInvBySlot

LEMMA InvNext == IInv /\ [Next]_vars => IInv'
  BY ArrivalsKeep, ServeKeeps, LandKeeps, FailKeeps, RecycleKeeps, TickKeeps DEF Next

\* In every execution of an isolate the entry is as recent as it says, and the
\* three properties that follow hold.
THEOREM KeysInvariant == Spec => []IInv
  BY InvInit, InvNext, PTL DEF Spec

\* A token is accepted on a key that was published lately, or after the failure
\* of the request's own fetch (jwks.ts:6-8, :251-273).
THEOREM OldKeysAreForgotten == Spec => []AcceptedKeysAreRecent
  <1>1. IInv => AcceptedKeysAreRecent
    BY DEF IInv
  <1> QED BY <1>1, KeysInvariant, PTL

\* A key that has long been published is refused only after a recent failure
\* (jwks.ts:10-15, :283-301).
THEOREM NewKeysAreNoticed == Spec => []RefusalsAreBrief
  <1>1. IInv => RefusalsAreBrief
    BY DEF IInv
  <1> QED BY <1>1, KeysInvariant, PTL

\* One after the other, refetches for unknown keys keep the limit (jwks.ts:17-19).
THEOREM RefetchesKeepTheLimit == Spec => []RefetchesAreSpaced
  <1>1. IInv => RefetchesAreSpaced
    BY DEF IInv
  <1> QED BY <1>1, KeysInvariant, PTL

\* Both limits on refetches (jwks.ts:10-19).
THEOREM RefetchesKeepTime == Spec => []RefetchesAreTimely
  <1>1. IInv => RefetchesAreTimely
    BY DEF IInv, RefetchesAreTimely
  <1> QED BY <1>1, KeysInvariant, PTL

(* The path of a request, where the scene is that of the keys, is theirs.    *)
LEMMA PathIsKeys == PathSpec => Spec
<1>1. PathInit => Init
  BY DEF PathInit
<1>2. [PathNext]_allVars => [Next]_vars
  BY DEF PathNext, allVars, keys, vars
<1> QED
  BY <1>1, <1>2, PTL DEF PathSpec, Spec

(* On the path that the run explores, tokens are accepted on recent keys and *)
(* refetches keep their distance (jwks.ts:10-19, :251-301).                  *)
THEOREM KeysOnThePath == PathSpec => [](AcceptedKeysAreRecent /\ RefetchesAreTimely)
  BY PathIsKeys, OldKeysAreForgotten, RefetchesKeepTime, PTL

----------------------------------------------------------------------------
(* A request's way. The first answer of a list is one of it, and there is    *)
(* none where all are zero.                                                  *)

LEMMA Smallest ==
    ASSUME NEW S \in SUBSET Nat, S # {}
    PROVE  \E i \in S : \A j \in S : i <= j
<1>1. PICK i \in S : \A j \in S : ~(<<j, i>> \in OpToRel(<, Nat))
  BY NatLessThanWellFounded, WFMin
<1>2. \A j \in S : ~(j < i)
  BY <1>1 DEF OpToRel
<1> QED
  BY <1>2

LEMMA FirstOf ==
    ASSUME NEW answers, NEW n \in Nat, DOMAIN answers = 1..n
    PROVE  /\ Http!First(answers) = 0 => \A i \in 1..n : answers[i] = 0
           /\ Http!First(answers) # 0 => \E i \in 1..n : answers[i] = Http!First(answers)
<1> DEFINE given == {i \in 1..n : answers[i] # 0}
<1>1. CASE given = {}
  BY <1>1 DEF Http!First
<1>2. CASE given # {}
  <2>1. \E i \in given : \A j \in given : i <= j
    <3>1. given \in SUBSET Nat
      OBVIOUS
    <3> HIDE DEF given
    <3> QED
      BY <1>2, <3>1, Smallest
  <2> DEFINE first == CHOOSE i \in given : \A j \in given : i <= j
  <2>2. first \in given
    BY <2>1
  <2>3. Http!First(answers) = answers[first]
    BY <1>2 DEF Http!First
  <2> QED
    BY <2>2, <2>3
<1> QED
  BY <1>1, <1>2

(* What is in a list of answers, whatever its order.                         *)
Given(answers) == {answers[i] : i \in 1..Len(answers)}

LEMMA FirstIsGiven ==
    ASSUME NEW answers \in Seq(Nat)
    PROVE  /\ Http!First(answers) \in Given(answers) \cup {0}
           /\ Http!First(answers) = 0 => Given(answers) \subseteq {0}
<1>1. Len(answers) \in Nat /\ DOMAIN answers = 1..Len(answers)
  OBVIOUS
<1>2. /\ Http!First(answers) = 0 => \A i \in 1..Len(answers) : answers[i] = 0
      /\ Http!First(answers) # 0 => \E i \in 1..Len(answers) : answers[i] = Http!First(answers)
  BY <1>1, FirstOf
<1> QED
  BY <1>2 DEF Given

LEMMA GivenByBoth ==
    ASSUME NEW s \in Seq(Nat), NEW t \in Seq(Nat)
    PROVE  s \o t \in Seq(Nat) /\ Given(s \o t) = Given(s) \cup Given(t)
<1>1. s \o t \in Seq(Nat) /\ Len(s \o t) = Len(s) + Len(t) /\ Len(s) \in Nat /\ Len(t) \in Nat
  OBVIOUS
<1>2. \A i \in 1..(Len(s) + Len(t)) :
         (s \o t)[i] = IF i <= Len(s) THEN s[i] ELSE t[i - Len(s)]
  BY ConcatProperties
<1>3. ASSUME NEW i \in 1..(Len(s) + Len(t))
      PROVE  (s \o t)[i] \in Given(s) \cup Given(t)
  BY <1>1, <1>2 DEF Given
<1>4. ASSUME NEW i \in 1..Len(s)
      PROVE  s[i] \in Given(s \o t)
  BY <1>1, <1>2 DEF Given
<1>5. ASSUME NEW i \in 1..Len(t)
      PROVE  t[i] \in Given(s \o t)
  <2>1. i + Len(s) \in 1..(Len(s) + Len(t)) /\ (s \o t)[i + Len(s)] = t[i]
    BY <1>1, <1>2
  <2> QED
    BY <1>1, <2>1 DEF Given
<1> QED
  BY <1>1, <1>3, <1>4, <1>5 DEF Given

LEMMA GivenOne ==
    ASSUME NEW a \in Nat
    PROVE  <<a>> \in Seq(Nat) /\ Given(<<a>>) = {a}
  BY DEF Given

LEMMA GivenTwo ==
    ASSUME NEW a \in Nat, NEW b \in Nat
    PROVE  <<a, b>> \in Seq(Nat) /\ Given(<<a, b>>) = {a, b}
  BY DEF Given

LEMMA GivenThree ==
    ASSUME NEW a \in Nat, NEW b \in Nat, NEW c \in Nat
    PROVE  <<a, b, c>> \in Seq(Nat) /\ Given(<<a, b, c>>) = {a, b, c}
  BY DEF Given

LEMMA GivenFour ==
    ASSUME NEW a \in Nat, NEW b \in Nat, NEW c \in Nat, NEW d \in Nat
    PROVE  <<a, b, c, d>> \in Seq(Nat) /\ Given(<<a, b, c, d>>) = {a, b, c, d}
  BY DEF Given

(* What is answered before the database is asked, and what is passed on.     *)
LEMMA GatesAnswer ==
    ASSUME NEW q
    PROVE  LET f == Http!First(Http!Gates(q)) IN
           /\ f \in {0, 200, 401, 403, 415, 500, 503}
           /\ f = 200 => q.surface = "api" /\ q.route.open
           /\ f = 500 => deployment \in {"ring", "vars", "access"}
           /\ f = 0 => /\ deployment \notin {"unbound", "ring", "vars", "access"}
                       /\ q.credential # "none"
                       /\ ~(deployment = "attested" /\ q.credential = "direct")
                       /\ IF q.surface = "api"
                          THEN ~Http!FromAnotherSite(q) /\ ~Http!NotJson(q)
                          ELSE ~Http!CrossSiteForm(q)
<1> DEFINE f == Http!First(Http!Gates(q))
           a == Http!Is("access", 500)
           u == Http!Is("unbound", 503)
           n == Http!When(q.credential = "none", 401)
           d == Http!When(deployment = "attested" /\ q.credential = "direct", 401)
           r == Http!Is("ring", 500)
           v == Http!Is("vars", 500)
           o == Http!When(Http!FromAnotherSite(q), 403)
           j == Http!When(Http!NotJson(q), 415)
           x == Http!When(Http!CrossSiteForm(q), 403)
<1>1. /\ a \in {0, 500} /\ (a = 0 <=> deployment # "access")
      /\ u \in {0, 503} /\ (u = 0 <=> deployment # "unbound")
      /\ r \in {0, 500} /\ (r = 0 <=> deployment # "ring")
      /\ v \in {0, 500} /\ (v = 0 <=> deployment # "vars")
  BY DEF Http!Is
<1>2. /\ n \in {0, 401} /\ (n = 0 <=> q.credential # "none")
      /\ d \in {0, 401} /\ (d = 0 <=> ~(deployment = "attested" /\ q.credential = "direct"))
      /\ o \in {0, 403} /\ (o = 0 <=> ~Http!FromAnotherSite(q))
      /\ j \in {0, 415} /\ (j = 0 <=> ~Http!NotJson(q))
      /\ x \in {0, 403} /\ (x = 0 <=> ~Http!CrossSiteForm(q))
  BY DEF Http!When
<1>3. /\ a \in Nat /\ u \in Nat /\ n \in Nat /\ d \in Nat /\ r \in Nat /\ v \in Nat
      /\ o \in Nat /\ j \in Nat /\ x \in Nat
  BY <1>1, <1>2
<1>4. Http!Gates(q) = <<u>> \o (IF q.surface = "api"
                                THEN <<r, v, o, j>> \o (IF q.route.open THEN <<200>> ELSE <<a, n, d>>)
                                ELSE <<x, r, v>> \o <<a, n, d>>)
  BY DEF Http!Gates, Http!Verify
<1> HIDE DEF a, u, n, d, r, v, o, j, x
<1> DEFINE one == <<u>>
           open == <<200>>
           shut == <<a, n, d>>
           four == <<r, v, o, j>>
           three == <<x, r, v>>
<1>5. one \in Seq(Nat) /\ Given(one) = {u}
  BY <1>3, GivenOne
<1>6. open \in Seq(Nat) /\ Given(open) = {200}
  BY GivenOne
<1>7. shut \in Seq(Nat) /\ Given(shut) = {a, n, d}
  BY <1>3, GivenThree
<1>8. four \in Seq(Nat) /\ Given(four) = {r, v, o, j}
  BY <1>3, GivenFour
<1>9. three \in Seq(Nat) /\ Given(three) = {x, r, v}
  BY <1>3, GivenThree
<1>10. Http!Gates(q) = one \o (IF q.surface = "api"
                                THEN four \o (IF q.route.open THEN open ELSE shut)
                                ELSE three \o shut)
  BY <1>4
<1> HIDE DEF one, open, shut, four, three
<1>11. /\ Http!Gates(q) \in Seq(Nat)
       /\ Given(Http!Gates(q)) =
            {u} \cup (IF q.surface = "api"
                      THEN {r, v, o, j} \cup (IF q.route.open THEN {200} ELSE {a, n, d})
                      ELSE {x, r, v} \cup {a, n, d})
  <2>1. CASE q.surface = "api" /\ q.route.open
    <3> DEFINE rest == four \o open
    <3>1. rest \in Seq(Nat) /\ Given(rest) = {r, v, o, j} \cup {200}
      BY <1>6, <1>8, GivenByBoth
    <3>2. Http!Gates(q) = one \o rest
      BY <1>10, <2>1
    <3> HIDE DEF rest
    <3>3. Http!Gates(q) \in Seq(Nat) /\ Given(Http!Gates(q)) = Given(one) \cup Given(rest)
      BY SMTT(40), <1>5, <3>1, <3>2, GivenByBoth
    <3> QED
      BY <1>5, <2>1, <3>1, <3>3
  <2>2. CASE q.surface = "api" /\ ~q.route.open
    <3>1. four \o shut \in Seq(Nat) /\ Given(four \o shut) = {r, v, o, j} \cup {a, n, d}
      BY <1>7, <1>8, GivenByBoth
    <3> QED
      BY <1>5, <1>10, <2>2, <3>1, GivenByBoth
  <2>3. CASE q.surface # "api"
    <3>1. three \o shut \in Seq(Nat) /\ Given(three \o shut) = {x, r, v} \cup {a, n, d}
      BY <1>7, <1>9, GivenByBoth
    <3> QED
      BY <1>5, <1>10, <2>3, <3>1, GivenByBoth
  <2> QED
    BY <2>1, <2>2, <2>3
<1>12. f \in Given(Http!Gates(q)) \cup {0} /\ (f = 0 => Given(Http!Gates(q)) \subseteq {0})
  BY <1>11, FirstIsGiven
<1> HIDE DEF f
<1>13. f \in {0, 200, 401, 403, 415, 500, 503}
  BY <1>1, <1>2, <1>11, <1>12
<1>14. f = 200 => q.surface = "api" /\ q.route.open
  BY <1>1, <1>2, <1>11, <1>12
<1>15. f = 500 => deployment \in {"ring", "vars", "access"}
  BY <1>1, <1>2, <1>11, <1>12
<1>16. ASSUME f = 0
       PROVE  /\ deployment \notin {"unbound", "ring", "vars", "access"}
              /\ q.credential # "none"
              /\ ~(deployment = "attested" /\ q.credential = "direct")
              /\ IF q.surface = "api"
                 THEN ~Http!FromAnotherSite(q) /\ ~Http!NotJson(q)
                 ELSE ~Http!CrossSiteForm(q)
  <2>1. u = 0 /\ r = 0 /\ v = 0 /\ a = 0 /\ n = 0 /\ d = 0
    <3>1. ~(q.surface = "api" /\ q.route.open)
      <4>1. 200 \notin Given(Http!Gates(q))
        BY <1>12, <1>16
      <4> QED
        BY <1>11, <4>1
    <3> QED
      BY <1>11, <1>12, <1>16, <3>1
  <2>2. q.surface = "api" => o = 0 /\ j = 0
    BY <1>11, <1>12, <1>16
  <2>3. q.surface # "api" => x = 0
    BY <1>11, <1>12, <1>16
  <2> QED
    BY <1>1, <1>2, <2>1, <2>2, <2>3
<1> QED
  BY <1>13, <1>14, <1>15, <1>16 DEF f

(* The routes, the requests and what becomes of them.                        *)
Methods == {"GET", "POST", "PATCH", "DELETE"}

RouteOK(route) ==
    /\ route.method \in Methods
    /\ route.open => ~route.changes

USE DEF Methods

LEMMA RecordRoutes ==
    /\ RouteOK(Http!Read) /\ RouteOK(Http!Open) /\ RouteOK(Http!Guarded) /\ RouteOK(Http!Unguarded)
    /\ \A m \in Methods : RouteOK(Http!Change(m)) /\ RouteOK(Http!Defaulted(m))
    /\ Http!Read.condition = "ignored" /\ Http!Change("POST").condition = "ignored"
    /\ RouteOK(Http!Change("POST"))
    /\ RouteOK([Http!Defaulted("POST") EXCEPT !.rekeys = TRUE])
    /\ RouteOK([Http!Change("POST") EXCEPT !.body = "apply"])
    /\ RouteOK([Http!Change("POST") EXCEPT !.body = "none"])
  BY DEF RouteOK, Http!Read, Http!Open, Http!Change, Http!Guarded, Http!Unguarded, Http!Defaulted

LEMMA MetaRoutesOK == \A route \in Http!RoutesOf(Http!MetaRoutes) : RouteOK(route)
  BY RecordRoutes DEF Http!RoutesOf, Http!MetaRoutes

LEMMA ProjectRoutesOK == \A route \in Http!RoutesOf(Http!ProjectRoutes) : RouteOK(route)
  BY RecordRoutes DEF Http!RoutesOf, Http!ProjectRoutes

LEMMA EnvironmentRoutesOK == \A route \in Http!RoutesOf(Http!EnvironmentRoutes) : RouteOK(route)
  BY RecordRoutes DEF Http!RoutesOf, Http!EnvironmentRoutes

LEMMA SecretRoutesOK == \A route \in Http!RoutesOf(Http!SecretRoutes) : RouteOK(route)
  BY RecordRoutes DEF Http!RoutesOf, Http!SecretRoutes

LEMMA AccessRoutesOK == \A route \in Http!RoutesOf(Http!AccessRoutes) : RouteOK(route)
  BY RecordRoutes DEF Http!RoutesOf, Http!AccessRoutes

LEMMA GroupRoutesOK == \A route \in Http!RoutesOf(Http!GroupRoutes) : RouteOK(route)
  BY RecordRoutes DEF Http!RoutesOf, Http!GroupRoutes

LEMMA MemberRoutesOK == \A route \in Http!RoutesOf(Http!MemberRoutes) : RouteOK(route)
  BY RecordRoutes DEF Http!RoutesOf, Http!MemberRoutes

LEMMA AdminRoutesOK == \A route \in Http!RoutesOf(Http!AdminRoutes) : RouteOK(route)
<1> DEFINE rekey == [Http!Defaulted("POST") EXCEPT !.rekeys = TRUE]
           plain == Http!Read
<1>1. RouteOK(rekey) /\ RouteOK(plain)
  BY RecordRoutes
<1>2. Http!AdminRoutes = [queryAudit |-> plain, getKeyringStatus |-> plain, rekey |-> rekey]
  BY DEF Http!AdminRoutes
<1> HIDE DEF rekey, plain
<1> QED
  BY <1>1, <1>2 DEF Http!RoutesOf

LEMMA TokenRoutesOK == \A route \in Http!RoutesOf(Http!TokenRoutes) : RouteOK(route)
  BY RecordRoutes DEF Http!RoutesOf, Http!TokenRoutes

LEMMA ApiRoutesOK == \A route \in Http!ApiRoutes : RouteOK(route)
  BY MetaRoutesOK, ProjectRoutesOK, EnvironmentRoutesOK, SecretRoutesOK, AccessRoutesOK,
     GroupRoutesOK, MemberRoutesOK, AdminRoutesOK, TokenRoutesOK DEF Http!ApiRoutes

LEMMA PageRoutesOK == \A route \in Http!PageRoutes : RouteOK(route) /\ route.condition = "ignored"
  BY RecordRoutes DEF Http!PageRoutes

(* What is asked of a request below: it is for the API or for a page, no     *)
(* route that is open changes anything, and no page has a condition.         *)
RequestOK(q) ==
    /\ q.surface \in {"api", "page"}
    /\ q.media \in Http!Media /\ q.origin \in Http!Origin
    /\ RouteOK(q.route)
    /\ q.surface = "page" => q.route.condition = "ignored"

LEMMA GoodIsOK ==
    ASSUME NEW q \in Http!GoodRequests
    PROVE  /\ RequestOK(q)
           /\ q = [surface |-> q.surface, route |-> q.route, origin |-> q.origin, media |-> q.media,
                   credential |-> q.credential, match |-> q.match, expected |-> q.expected,
                   body |-> q.body, allowed |-> q.allowed]
<1>1. CASE \E route \in Http!ApiRoutes : q = Http!Good("api", route)
  BY <1>1, ApiRoutesOK DEF Http!Good, RequestOK, Http!Media, Http!Origin
<1>2. CASE \E route \in Http!PageRoutes : q = Http!Good("page", route)
  BY <1>2, PageRoutesOK DEF Http!Good, RequestOK, Http!Media, Http!Origin
<1> QED
  BY <1>1, <1>2 DEF Http!GoodRequests

(* A request with other headers, another condition, another body.            *)
Headed(q, o, m, c) == [q EXCEPT !.origin = o, !.media = m, !.credential = c]
Conditional(q, h, e) == [q EXCEPT !.match = h, !.expected = e]
Filled(q, b, a) == [q EXCEPT !.body = b, !.allowed = a]

LEMMA RequestsAre ==
    Http!Requests =
        {Headed(q, o, m, c) :
            q \in Http!GoodRequests, o \in Http!Origin, m \in Http!Media, c \in Http!Credential} \cup
        {Conditional(q, h, e) :
            q \in Http!GoodRequests, h \in Http!Match, e \in {"absent", "same", "other"}} \cup
        {Filled(q, b, a) : q \in Http!GoodRequests, b \in Http!Body, a \in BOOLEAN}
  BY DEF Http!Requests, Headed, Conditional, Filled

LEMMA AnyIsOK ==
    ASSUME NEW q \in Http!Requests
    PROVE  RequestOK(q)
<1>1. CASE \E g \in Http!GoodRequests, o \in Http!Origin, m \in Http!Media, c \in Http!Credential :
              q = Headed(g, o, m, c)
  <2>1. PICK g \in Http!GoodRequests, o \in Http!Origin, m \in Http!Media, c \in Http!Credential :
              q = Headed(g, o, m, c)
    BY <1>1
  <2>2. RequestOK(g) /\ g = [surface |-> g.surface, route |-> g.route, origin |-> g.origin,
                   media |-> g.media, credential |-> g.credential, match |-> g.match,
                   expected |-> g.expected, body |-> g.body, allowed |-> g.allowed]
    BY GoodIsOK
  <2>3. q.surface = g.surface /\ q.route = g.route /\ q.media = m /\ q.origin = o
    BY <2>1, <2>2 DEF Headed
  <2> QED
    BY <2>2, <2>3 DEF RequestOK
<1>2. CASE \E g \in Http!GoodRequests, h \in Http!Match, e \in {"absent", "same", "other"} :
              q = Conditional(g, h, e)
  <2>1. PICK g \in Http!GoodRequests, h \in Http!Match, e \in {"absent", "same", "other"} :
              q = Conditional(g, h, e)
    BY <1>2
  <2>2. RequestOK(g) /\ g = [surface |-> g.surface, route |-> g.route, origin |-> g.origin,
                   media |-> g.media, credential |-> g.credential, match |-> g.match,
                   expected |-> g.expected, body |-> g.body, allowed |-> g.allowed]
    BY GoodIsOK
  <2>3. q.surface = g.surface /\ q.route = g.route /\ q.media = g.media /\ q.origin = g.origin
    BY <2>1, <2>2 DEF Conditional
  <2> QED
    BY <2>2, <2>3 DEF RequestOK
<1>3. CASE \E g \in Http!GoodRequests, b \in Http!Body, a \in BOOLEAN : q = Filled(g, b, a)
  <2>1. PICK g \in Http!GoodRequests, b \in Http!Body, a \in BOOLEAN : q = Filled(g, b, a)
    BY <1>3
  <2>2. RequestOK(g) /\ g = [surface |-> g.surface, route |-> g.route, origin |-> g.origin,
                   media |-> g.media, credential |-> g.credential, match |-> g.match,
                   expected |-> g.expected, body |-> g.body, allowed |-> g.allowed]
    BY GoodIsOK
  <2>3. q.surface = g.surface /\ q.route = g.route /\ q.media = g.media /\ q.origin = g.origin
    BY <2>1, <2>2 DEF Filled
  <2> QED
    BY <2>2, <2>3 DEF RequestOK
<1> QED
  BY <1>1, <1>2, <1>3, RequestsAre

LEMMA IdleIsOK == Http!Idle.q \in Http!Requests
<1> DEFINE g == Http!Good("page", Http!Read)
<1>1. g \in Http!GoodRequests
  BY DEF Http!GoodRequests, Http!PageRoutes
<1>2. g.match = "absent" /\ g.expected = "absent"
  BY DEF Http!Good
<1> HIDE DEF g
<1>3. g = [surface |-> g.surface, route |-> g.route, origin |-> g.origin,
           media |-> g.media, credential |-> g.credential, match |-> g.match,
           expected |-> g.expected, body |-> g.body, allowed |-> g.allowed]
  BY <1>1, GoodIsOK
<1>4. g = Conditional(g, "absent", "absent")
  BY <1>2, <1>3 DEF Conditional
<1>5. g \in Http!Requests
  BY <1>1, <1>4, RequestsAre DEF Http!Match
<1> QED
  BY <1>5 DEF Http!Idle, g

(* What a body, a form and a condition are refused with; and what is read.   *)
LEMMA UnreadAnswers ==
    ASSUME NEW k
    PROVE  /\ Http!Unread(k) \in {0, 400, 413, 415, 422}
           /\ Http!Unread(k) = 0 =>
                 /\ k.q.surface = "page" /\ ~Http!Safe(k.q) => k.q.media # "json"
                 /\ k.q.surface # "page" /\ k.q.route.condition = "refused" => k.q.match = "absent"
<1> DEFINE a == Http!When(~Http!Safe(k.q) /\ k.q.media = "json", 415)
           b == Http!When(~Http!Safe(k.q) /\ k.q.body # "good", 400)
           c == Http!When(k.q.route.body # "none" /\ k.q.body = "large", 413)
           d == Http!When(Http!Misshapen(k.q), 422)
           e == Http!When(k.q.route.condition = "refused" /\ k.q.match # "absent", 400)
           f == Http!When(k.q.route.condition = "kept" /\ (k.q.match = "list" \/ Http!Disagree(k)), 400)
<1>1. /\ a \in {0, 415} /\ (a = 0 <=> ~(~Http!Safe(k.q) /\ k.q.media = "json"))
      /\ b \in {0, 400} /\ c \in {0, 413} /\ d \in {0, 422} /\ f \in {0, 400}
      /\ e \in {0, 400} /\ (e = 0 <=> ~(k.q.route.condition = "refused" /\ k.q.match # "absent"))
  BY DEF Http!When
<1>2. Http!Unread(k) = Http!First(IF k.q.surface = "page" THEN <<a, b>> ELSE <<c, d, e, f>>)
  BY DEF Http!Unread
<1> HIDE DEF a, b, c, d, e, f
<1> DEFINE page == <<a, b>>
           api == <<c, d, e, f>>
<1>3. page \in Seq(Nat) /\ Given(page) = {a, b}
  BY <1>1, GivenTwo
<1>4. api \in Seq(Nat) /\ Given(api) = {c, d, e, f}
  BY <1>1, GivenFour
<1> HIDE DEF page, api
<1>5. CASE k.q.surface = "page"
  <2>1. /\ Http!Unread(k) \in {0, a, b}
        /\ Http!Unread(k) = 0 => a = 0
    <3>1. Http!Unread(k) = Http!First(page)
      BY <1>2, <1>5 DEF page
    <3>2. Http!First(page) \in Given(page) \cup {0} /\ (Http!First(page) = 0 => Given(page) \subseteq {0})
      BY <1>3, FirstIsGiven
    <3> QED
      BY <1>3, <3>1, <3>2
  <2> QED
    BY <1>1, <1>5, <2>1
<1>6. CASE k.q.surface # "page"
  <2>1. /\ Http!Unread(k) \in {0, c, d, e, f}
        /\ Http!Unread(k) = 0 => e = 0
    <3>1. Http!Unread(k) = Http!First(api)
      BY <1>2, <1>6 DEF api
    <3>2. Http!First(api) \in Given(api) \cup {0} /\ (Http!First(api) = 0 => Given(api) \subseteq {0})
      BY <1>4, FirstIsGiven
    <3> QED
      BY <1>4, <3>1, <3>2
  <2> QED
    BY <1>1, <1>6, <2>1
<1> QED
  BY <1>5, <1>6

LEMMA RefusalAnswers ==
    ASSUME NEW k, NEW c
    PROVE  LET x == Http!First(<<Http!Unread(k), Http!When(~k.q.allowed, 403), Http!When(c, 412)>>) IN
           /\ x \in {0, 400, 403, 412, 413, 415, 422}
           /\ x = 0 => Http!Unread(k) = 0 /\ ~c
<1> DEFINE u == Http!Unread(k)
           a == Http!When(~k.q.allowed, 403)
           m == Http!When(c, 412)
<1>1. u \in {0, 400, 413, 415, 422} /\ a \in {0, 403} /\ m \in {0, 412} /\ (m = 0 <=> ~c)
  BY UnreadAnswers DEF Http!When
<1> HIDE DEF u, a, m
<1> DEFINE all == <<u, a, m>>
<1>2. all \in Seq(Nat) /\ Given(all) = {u, a, m}
  BY <1>1, GivenThree
<1> HIDE DEF all
<1>3. Http!First(all) \in Given(all) \cup {0} /\ (Http!First(all) = 0 => Given(all) \subseteq {0})
  BY <1>2, FirstIsGiven
<1>4. /\ Http!First(all) \in {0, 400, 403, 412, 413, 415, 422}
      /\ Http!First(all) = 0 => u = 0 /\ ~c
  BY <1>1, <1>2, <1>3
<1> QED
  BY <1>4 DEF u, a, m, all

(* The invariant: types, what is known of the instance, and of each request  *)
(* how far it has come and what that took.                                   *)
Statuses == {0, 200, 400, 401, 403, 412, 413, 415, 422, 500, 503}



RequestState ==
    [at : {"idle", "admins", "identity", "hydrate", "instance", "wait", "handler", "done"},
     q : Http!Requests, tag : Nat, told : BOOLEAN, before : Nat, touched : BOOLEAN,
     wrote : BOOLEAN, against : Nat, lost : BOOLEAN, status : Statuses, id : BOOLEAN]

HttpTypeOK ==
    /\ deployment \in Http!Deployment
    /\ row \in BOOLEAN
    /\ cache \in {"empty", "pending", "id"}
    /\ read \in {"nothing", "id", "none", "failed"}
    /\ rev \in Nat /\ faults \in Nat
    /\ request \in [Caller -> RequestState]

(* An instance id that is known or on its way is that of the row; a read is  *)
(* under way only while its answer is awaited.                               *)
InstanceOK ==
    /\ read # "nothing" => cache = "pending"
    /\ read = "failed" => faults > 0
    /\ read = "id" \/ cache = "id" => row

(* Nothing that the gates refuse is behind them.                             *)
Passed(q, d) ==
    /\ d \notin {"unbound", "ring", "vars", "access"}
    /\ q.credential # "none"
    /\ ~(d = "attested" /\ q.credential = "direct")
    /\ IF q.surface = "api" THEN ~Http!FromAnotherSite(q) /\ ~Http!NotJson(q)
                            ELSE ~Http!CrossSiteForm(q)

Admitted(q, d) == Passed(q, d) /\ d # "admins"

(* How far a request has come.                                               *)
WayOK(k, d) ==
    /\ k.at \in {"admins", "identity", "hydrate", "instance", "wait", "handler"} => Passed(k.q, d)
    /\ k.at \in {"identity", "hydrate", "instance", "wait", "handler"} => Admitted(k.q, d)
    /\ k.touched \/ k.id \/ k.wrote => Admitted(k.q, d)
    /\ k.status = 200 => Admitted(k.q, d) \/ (k.q.surface = "api" /\ k.q.route.open)

(* What its answer says of what it has done.                                 *)
AnswerOK(k) ==
    /\ k.at # "done" => ~k.wrote /\ k.status = 0
    /\ k.wrote => k.status = 200 \/ k.lost
    /\ k.wrote => ~Http!Foreign(k.q)
    /\ k.status = 200 /\ Http!Changes(k.q) => k.wrote
    /\ k.wrote /\ k.q.match = "tag" =>
          CASE k.q.route.condition = "kept" -> k.against = k.tag
            [] k.q.route.condition = "refused" -> FALSE
            [] OTHER -> TRUE

(* What it knows of the instance, and of the reads and statements that fail. *)
ToldOK(k, d, c, rd, f) ==
    /\ k.id \/ k.told => c = "id"
    /\ k.at = "wait" => c = "pending"
    /\ k.told /\ k.q.surface = "api" /\ (k.at = "handler" \/ k.wrote) => k.id
    /\ k.at # "idle" => k.before <= f /\ (rd = "failed" => k.before < f)
    /\ k.status = 500 /\ d \notin {"ring", "vars", "access"} => f > k.before

ProgressOK(k, d, c, rd, f) == WayOK(k, d) /\ AnswerOK(k) /\ ToldOK(k, d, c, rd, f)

HttpInv ==
    /\ HttpTypeOK
    /\ InstanceOK
    /\ \A r \in Caller : ProgressOK(request[r], deployment, cache, read, faults)

LEMMA SetKeeps ==
    ASSUME HttpInv, NEW r \in Caller, NEW k \in RequestState,
           deployment' = deployment, request' = [request EXCEPT ![r] = k],
           ProgressOK(k, deployment, cache', read', faults'),
           \A s \in Caller \ {r} : ProgressOK(request[s], deployment, cache', read', faults')
    PROVE  /\ request' \in [Caller -> RequestState]
           /\ \A s \in Caller : ProgressOK(request[s], deployment, cache, read, faults)'
<1>1. request \in [Caller -> RequestState]
  BY DEF HttpInv, HttpTypeOK
<1>2. request' \in [Caller -> RequestState]
  BY <1>1
<1>3. ASSUME NEW s \in Caller
      PROVE  ProgressOK(request'[s], deployment', cache', read', faults')
  <2>1. CASE s = r
    BY <1>1, <2>1
  <2>2. CASE s # r
    <3>1. request'[s] = request[s]
      BY <1>1, <2>2
    <3> QED
      BY <2>2, <3>1
  <2> QED
    BY <2>1, <2>2
<1> QED
  BY <1>2, <1>3

(* What a request knows stays true while the instance and the faults go on.  *)
LEMMA StaysOK ==
    ASSUME NEW k \in RequestState, NEW d, NEW c, NEW rd, NEW f \in Nat, ProgressOK(k, d, c, rd, f),
           NEW c2, NEW rd2, NEW f2 \in Nat,
           c = "id" => c2 = "id", k.at = "wait" => c2 = "pending",
           f <= f2, rd2 = "failed" => rd = "failed" \/ f < f2
    PROVE  ProgressOK(k, d, c2, rd2, f2)
<1>1. k.before \in Nat
  BY DEF RequestState
<1> QED
  BY <1>1 DEF ProgressOK, ToldOK

LEMMA AnswerFields ==
    ASSUME NEW k \in RequestState, NEW status \in Statuses
    PROVE  LET a == Http!Answer(k, status) IN
           /\ a \in RequestState
           /\ a.at = "done" /\ a.status = status /\ a.q = k.q /\ a.tag = k.tag /\ a.told = k.told
           /\ a.before = k.before /\ a.touched = k.touched /\ a.wrote = k.wrote
           /\ a.against = k.against /\ a.lost = k.lost /\ a.id = k.id
  BY DEF Http!Answer, RequestState

(* Whatever is on its way may be refused, or fail with its statement.        *)
LEMMA RefusedIsOK ==
    ASSUME NEW k \in RequestState, NEW d, NEW c, NEW rd, NEW f \in Nat, ProgressOK(k, d, c, rd, f),
           k.at \notin {"idle", "done"},
           NEW status \in Statuses \ {0, 200}, NEW f2 \in Nat, f <= f2,
           status = 500 => f2 > k.before
    PROVE  Http!Answer(k, status) \in RequestState /\ ProgressOK(Http!Answer(k, status), d, c, rd, f2)
<1> DEFINE a == Http!Answer(k, status)
<1>1. /\ a \in RequestState
      /\ a.at = "done" /\ a.status = status /\ a.q = k.q /\ a.tag = k.tag /\ a.told = k.told
      /\ a.before = k.before /\ a.touched = k.touched /\ a.wrote = k.wrote
      /\ a.against = k.against /\ a.lost = k.lost /\ a.id = k.id
  BY AnswerFields
<1> HIDE DEF a
<1>2. ~k.wrote /\ k.before \in Nat
  BY DEF ProgressOK, AnswerOK, RequestState
<1>3. WayOK(a, d)
  BY <1>1 DEF ProgressOK, WayOK
<1>4. AnswerOK(a)
  BY <1>1, <1>2 DEF ProgressOK, AnswerOK
<1>5. ToldOK(a, d, c, rd, f2)
  BY <1>1, <1>2 DEF ProgressOK, ToldOK
<1> QED
  BY <1>1, <1>3, <1>4, <1>5 DEF ProgressOK, a

(* A request goes on to the next of its steps.                               *)
LEMMA OnwardIsOK ==
    ASSUME NEW k \in RequestState, NEW d, NEW c, NEW rd, NEW f \in Nat, ProgressOK(k, d, c, rd, f),
           NEW n \in RequestState,
           n.q = k.q /\ n.tag = k.tag /\ n.told = k.told /\ n.before = k.before,
           n.wrote = k.wrote /\ n.against = k.against /\ n.lost = k.lost /\ n.status = k.status,
           k.at \notin {"idle", "done"},
           n.at \in {"identity", "hydrate", "instance", "wait", "handler"}, Admitted(k.q, d),
           n.id => c = "id",
           n.at = "wait" => c = "pending",
           n.at = "handler" /\ k.told /\ k.q.surface = "api" => n.id
    PROVE  ProgressOK(n, d, c, rd, f)
<1>1. ~k.wrote /\ k.status = 0
  BY DEF ProgressOK, AnswerOK
<1>2. WayOK(n, d)
  BY <1>1 DEF ProgressOK, WayOK, Admitted
<1>3. AnswerOK(n)
  BY <1>1 DEF ProgressOK, AnswerOK
<1>4. ToldOK(n, d, c, rd, f)
  BY <1>1 DEF ProgressOK, ToldOK
<1> QED
  BY <1>2, <1>3, <1>4 DEF ProgressOK

LEMMA ArriveOK ==
    ASSUME HttpInv, NEW r \in Caller, NEW q \in Sent[r], Http!Arrive(r, q)
    PROVE  HttpInv'
<1> DEFINE over == IF read = "failed" THEN faults - 1 ELSE faults
           told == \E s \in Caller : request[s].id
           k == [Http!Idle EXCEPT !.q = q, !.tag = rev, !.before = over, !.told = told]
           refusal == Http!First(Http!Gates(q))
           n == IF refusal # 0 THEN Http!Answer(k, refusal) ELSE [k EXCEPT !.at = "admins"]
<1>1. /\ request' = [request EXCEPT ![r] = n]
      /\ UNCHANGED <<deployment, row, cache, read, rev, faults>>
  BY DEF Http!Arrive, Http!Set, Http!Instance
<1>2. q \in Http!Requests /\ RequestOK(q)
  BY SentAssumption, AnyIsOK
<1>3. faults \in Nat /\ rev \in Nat /\ (read = "failed" => faults > 0)
  BY DEF HttpInv, HttpTypeOK, InstanceOK
<1>4. /\ k \in RequestState
      /\ k.at = "idle" /\ k.q = q /\ k.status = 0 /\ ~k.touched /\ ~k.wrote /\ ~k.lost /\ ~k.id
      /\ k.before = over /\ k.told = told
  <2>1. over \in Nat /\ told \in BOOLEAN
    BY <1>3
  <2>2. 0 \in Statuses
    BY DEF Statuses
  <2> HIDE DEF over, told
  <2>3. /\ Http!Idle \in RequestState
        /\ Http!Idle.at = "idle" /\ Http!Idle.status = 0 /\ ~Http!Idle.touched
        /\ ~Http!Idle.wrote /\ ~Http!Idle.lost /\ ~Http!Idle.id
    BY <2>2, IdleIsOK DEF Http!Idle, RequestState
  <2> QED
    BY <1>2, <1>3, <2>1, <2>3 DEF RequestState
<1>5. k.before <= faults /\ (read = "failed" => k.before < faults)
  BY <1>3, <1>4
<1>6. k.told => cache = "id"
  <2>1. ASSUME NEW s \in Caller, request[s].id
        PROVE  cache = "id"
    BY <2>1 DEF HttpInv, ProgressOK, ToldOK
  <2> QED
    BY <1>4, <2>1
<1>7. /\ refusal \in {0, 200, 401, 403, 415, 500, 503}
      /\ refusal = 200 => q.surface = "api" /\ q.route.open
      /\ refusal = 500 => deployment \in {"ring", "vars", "access"}
      /\ refusal = 0 => Passed(q, deployment)
  BY GatesAnswer DEF Passed
<1>8. refusal = 200 => ~Http!Changes(q)
  BY <1>2, <1>7 DEF RequestOK, RouteOK, Http!Changes
<1> HIDE DEF k, refusal, over, told
<1>9. n \in RequestState /\ ProgressOK(n, deployment, cache, read, faults)
  <2>1. CASE refusal # 0
    <3> DEFINE a == Http!Answer(k, refusal)
    <3>1. /\ a \in RequestState
          /\ a.at = "done" /\ a.status = refusal /\ a.q = q /\ a.told = k.told
          /\ a.before = k.before /\ ~a.touched /\ ~a.wrote /\ ~a.lost /\ ~a.id
      <4>1. refusal \in Statuses
        BY <1>7 DEF Statuses
      <4> QED
        BY <1>4, <4>1, AnswerFields
    <3>2. n = a
      BY <2>1
    <3> HIDE DEF a
    <3>3. WayOK(a, deployment)
      BY <1>7, <3>1 DEF WayOK
    <3>4. AnswerOK(a)
      BY <1>8, <3>1 DEF AnswerOK
    <3>5. ToldOK(a, deployment, cache, read, faults)
      BY <1>4, <1>6, <1>7, <1>5, <3>1 DEF ToldOK
    <3> QED
      BY <3>1, <3>2, <3>3, <3>4, <3>5 DEF ProgressOK
  <2>2. CASE refusal = 0
    <3> DEFINE a == [k EXCEPT !.at = "admins"]
    <3>1. /\ a \in RequestState
          /\ a.at = "admins" /\ a.status = 0 /\ a.q = q /\ a.told = k.told
          /\ a.before = k.before /\ ~a.touched /\ ~a.wrote /\ ~a.lost /\ ~a.id
      BY <1>4 DEF RequestState
    <3>2. n = a
      BY <2>2
    <3> HIDE DEF a
    <3>3. WayOK(a, deployment)
      BY <1>7, <2>2, <3>1 DEF WayOK
    <3>4. AnswerOK(a)
      BY <3>1 DEF AnswerOK
    <3>5. ToldOK(a, deployment, cache, read, faults)
      BY <1>4, <1>6, <1>5, <3>1 DEF ToldOK
    <3> QED
      BY <3>1, <3>2, <3>3, <3>4, <3>5 DEF ProgressOK
  <2> QED
    BY <2>1, <2>2
<1> HIDE DEF n
<1>10. /\ request' \in [Caller -> RequestState]
      /\ \A s \in Caller : ProgressOK(request[s], deployment, cache, read, faults)'
  <2>1. \A s \in Caller \ {r} : ProgressOK(request[s], deployment, cache', read', faults')
    BY <1>1 DEF HttpInv
  <2> QED
    BY <1>1, <1>9, <2>1, SetKeeps
<1> QED
  BY <1>1, <1>10 DEF HttpInv, HttpTypeOK, InstanceOK

(* The steps of one request, which leave the rest as it is.                  *)
LEMMA AloneOK ==
    ASSUME HttpInv, NEW r \in Caller, NEW n \in RequestState,
           request' = [request EXCEPT ![r] = n],
           deployment' = deployment, row' = row, cache' = cache, read' = read,
           rev' \in Nat, faults' \in Nat, faults <= faults',
           ProgressOK(n, deployment, cache, read, faults')
    PROVE  HttpInv'
<1>1. \A s \in Caller \ {r} : ProgressOK(request[s], deployment, cache', read', faults')
  <2> SUFFICES ASSUME NEW s \in Caller \ {r}
               PROVE  ProgressOK(request[s], deployment, cache, read, faults')
    OBVIOUS
  <2>1. /\ request[s] \in RequestState /\ faults \in Nat
        /\ ProgressOK(request[s], deployment, cache, read, faults)
    BY DEF HttpInv, HttpTypeOK
  <2>2. request[s].at = "wait" => cache = "pending"
    BY <2>1 DEF ProgressOK, ToldOK
  <2> QED
    BY <2>1, <2>2, StaysOK
<1>2. /\ request' \in [Caller -> RequestState]
      /\ \A s \in Caller : ProgressOK(request[s], deployment, cache, read, faults)'
  BY <1>1, SetKeeps
<1> QED
  BY <1>2 DEF HttpInv, HttpTypeOK, InstanceOK

LEMMA AssertAdminsConfiguredOK ==
    ASSUME HttpInv, NEW r \in Caller, Http!AssertAdminsConfigured(r)
    PROVE  HttpInv'
<1> DEFINE k == request[r]
           n == [k EXCEPT !.at = "identity"]
<1>1. /\ k.at = "admins" /\ k \in RequestState /\ faults \in Nat /\ rev \in Nat
      /\ ProgressOK(k, deployment, cache, read, faults) /\ Passed(k.q, deployment)
      /\ UNCHANGED <<deployment, row, cache, read, rev, faults>>
      /\ request' = [request EXCEPT ![r] =
                        IF deployment = "admins" THEN Http!Answer(k, 503) ELSE n]
  BY DEF Http!AssertAdminsConfigured, Http!Set, Http!Instance, HttpInv, HttpTypeOK, ProgressOK, WayOK
<1> HIDE DEF k
<1>2. CASE deployment = "admins"
  <2>1. /\ Http!Answer(k, 503) \in RequestState
        /\ ProgressOK(Http!Answer(k, 503), deployment, cache, read, faults)
    BY <1>1, RefusedIsOK DEF Statuses
  <2> DEFINE a == Http!Answer(k, 503)
  <2>2. request' = [request EXCEPT ![r] = a]
    BY <1>1, <1>2
  <2>3. rev' \in Nat /\ faults' \in Nat /\ faults <= faults' /\ ProgressOK(a, deployment, cache, read, faults')
    BY <1>1, <2>1
  <2>4. a \in RequestState
    BY <2>1
  <2> HIDE DEF a
  <2> QED
    BY <1>1, <2>2, <2>3, <2>4, AloneOK
<1>3. CASE deployment # "admins"
  <2>1. /\ n \in RequestState /\ n.at = "identity"
        /\ n.q = k.q /\ n.tag = k.tag /\ n.told = k.told /\ n.before = k.before
        /\ n.wrote = k.wrote /\ n.against = k.against /\ n.lost = k.lost /\ n.status = k.status
        /\ n.id = k.id
    BY <1>1 DEF RequestState
  <2>2. k.id => cache = "id"
    BY <1>1 DEF ProgressOK, ToldOK
  <2> HIDE DEF n
  <2>3. ProgressOK(n, deployment, cache, read, faults)
    BY <1>1, <1>3, <2>1, <2>2, OnwardIsOK DEF Admitted
  <2>4. rev' \in Nat /\ faults' \in Nat /\ faults <= faults' /\ ProgressOK(n, deployment, cache, read, faults')
    BY <1>1, <2>3
  <2>5. request' = [request EXCEPT ![r] = n]
    BY <1>1, <1>3
  <2> QED
    BY <1>1, <2>1, <2>4, <2>5, AloneOK
<1> QED
  BY <1>2, <1>3

LEMMA IdentifyOK ==
    ASSUME HttpInv, NEW r \in Caller, Http!Identify(r)
    PROVE  HttpInv'
<1> DEFINE k == request[r]
           n == [k EXCEPT !.touched = TRUE, !.at = "hydrate"]
<1>1. /\ k.at = "identity" /\ k \in RequestState /\ faults \in Nat /\ rev \in Nat
      /\ ProgressOK(k, deployment, cache, read, faults) /\ Admitted(k.q, deployment)
      /\ UNCHANGED <<deployment, row, cache, read, rev, faults>>
      /\ request' = [request EXCEPT ![r] = n]
  BY DEF Http!Identify, Http!Set, Http!Instance, HttpInv, HttpTypeOK, ProgressOK, WayOK
<1> HIDE DEF k
<1>2. /\ n \in RequestState /\ n.at = "hydrate"
      /\ n.q = k.q /\ n.tag = k.tag /\ n.told = k.told /\ n.before = k.before
      /\ n.wrote = k.wrote /\ n.against = k.against /\ n.lost = k.lost /\ n.status = k.status
      /\ n.id = k.id
  BY <1>1 DEF RequestState
<1>3. k.id => cache = "id"
  BY <1>1 DEF ProgressOK, ToldOK
<1> HIDE DEF n
<1>4. ProgressOK(n, deployment, cache, read, faults)
  BY <1>1, <1>2, <1>3, OnwardIsOK
<1>5. rev' \in Nat /\ faults' \in Nat /\ faults <= faults' /\ ProgressOK(n, deployment, cache, read, faults')
  BY <1>1, <1>4
<1> QED
  BY <1>1, <1>2, <1>5, AloneOK

LEMMA HydrateOK ==
    ASSUME HttpInv, NEW r \in Caller, Http!Hydrate(r)
    PROVE  HttpInv'
<1> DEFINE k == request[r]
           at == IF k.q.surface = "api" THEN "instance" ELSE "handler"
           n == [k EXCEPT !.at = at]
<1>1. /\ k.at = "hydrate" /\ k \in RequestState /\ faults \in Nat /\ rev \in Nat
      /\ ProgressOK(k, deployment, cache, read, faults) /\ Admitted(k.q, deployment)
      /\ UNCHANGED <<deployment, row, cache, read, rev, faults>>
      /\ request' = [request EXCEPT ![r] = n]
  BY DEF Http!Hydrate, Http!Set, Http!Instance, HttpInv, HttpTypeOK, ProgressOK, WayOK
<1> HIDE DEF k
<1>2. at \in {"instance", "handler"} /\ (at = "handler" => k.q.surface # "api")
  OBVIOUS
<1> HIDE DEF at
<1>3. /\ n \in RequestState /\ n.at = at
      /\ n.q = k.q /\ n.tag = k.tag /\ n.told = k.told /\ n.before = k.before
      /\ n.wrote = k.wrote /\ n.against = k.against /\ n.lost = k.lost /\ n.status = k.status
      /\ n.id = k.id
  BY <1>1, <1>2 DEF RequestState
<1>4. k.id => cache = "id"
  BY <1>1 DEF ProgressOK, ToldOK
<1> HIDE DEF n
<1>5. ProgressOK(n, deployment, cache, read, faults)
  BY <1>1, <1>2, <1>3, <1>4, OnwardIsOK
<1>6. rev' \in Nat /\ faults' \in Nat /\ faults <= faults' /\ ProgressOK(n, deployment, cache, read, faults')
  BY <1>1, <1>5
<1> QED
  BY <1>1, <1>3, <1>6, AloneOK

LEMMA FailOK ==
    ASSUME HttpInv, NEW r \in Caller, Http!Fail(r)
    PROVE  HttpInv'
<1> DEFINE k == request[r]
<1>1. /\ k.at \notin {"idle", "done"} /\ k \in RequestState /\ faults \in Nat /\ rev \in Nat
      /\ ProgressOK(k, deployment, cache, read, faults)
      /\ UNCHANGED <<deployment, row, cache, read, rev>> /\ faults' = faults + 1
      /\ request' = [request EXCEPT ![r] = Http!Answer(k, 500)]
  BY DEF Http!Fail, Http!Set, Http!Instance, HttpInv, HttpTypeOK
<1> HIDE DEF k
<1>2. k.before <= faults /\ k.before \in Nat
  BY <1>1 DEF ProgressOK, ToldOK, RequestState
<1>3. 500 \in Statuses \ {0, 200} /\ faults + 1 \in Nat /\ faults <= faults + 1 /\ faults + 1 > k.before
  BY <1>1, <1>2 DEF Statuses
<1>4. /\ Http!Answer(k, 500) \in RequestState
      /\ ProgressOK(Http!Answer(k, 500), deployment, cache, read, faults + 1)
  BY <1>1, <1>3, RefusedIsOK
<1> DEFINE a == Http!Answer(k, 500)
<1>5. a \in RequestState /\ request' = [request EXCEPT ![r] = a]
  BY <1>1, <1>4
<1>6. rev' \in Nat /\ faults' \in Nat /\ faults <= faults' /\ ProgressOK(a, deployment, cache, read, faults')
  BY <1>1, <1>3, <1>4
<1> HIDE DEF a
<1> QED
  BY <1>1, <1>5, <1>6, AloneOK

(* A read that has an answer, for a request that is there for it.            *)
LEMMA ToldIsOK ==
    ASSUME NEW k \in RequestState, NEW d, NEW f \in Nat, NEW outcome \in {"id", "none", "failed"},
           NEW c, NEW c2, NEW rd,
           ProgressOK(k, d, c, rd, f), k.at \in {"instance", "wait"},
           outcome = "id" => c2 = "id",
           k.told \/ k.id => outcome = "id",
           outcome = "failed" => f > k.before
    PROVE  /\ Http!Told(k, outcome) \in RequestState
           /\ ProgressOK(Http!Told(k, outcome), d, c2, "nothing", f)
<1>1. Admitted(k.q, d) /\ k.before \in Nat /\ ~k.wrote /\ k.status = 0 /\ k.before <= f
  BY DEF ProgressOK, WayOK, AnswerOK, ToldOK, RequestState
<1>2. CASE outcome = "failed"
  <2> DEFINE a == Http!Answer(k, 500)
  <2>1. /\ a \in RequestState
        /\ a.at = "done" /\ a.status = 500 /\ a.q = k.q /\ a.told = k.told
        /\ a.before = k.before /\ a.touched = k.touched /\ a.wrote = k.wrote
        /\ a.lost = k.lost /\ a.id = k.id
    BY AnswerFields DEF Statuses
  <2>2. Http!Told(k, outcome) = a
    BY <1>2 DEF Http!Told
  <2> HIDE DEF a
  <2>3. WayOK(a, d)
    BY <1>1, <2>1 DEF WayOK
  <2>4. AnswerOK(a)
    BY <1>1, <2>1 DEF AnswerOK
  <2>5. ToldOK(a, d, c2, "nothing", f)
    BY <1>1, <1>2, <2>1 DEF ToldOK
  <2> QED
    BY <2>1, <2>2, <2>3, <2>4, <2>5 DEF ProgressOK
<1>3. CASE outcome # "failed"
  <2> DEFINE id == outcome = "id"
             a == [k EXCEPT !.at = "handler", !.id = id]
  <2>1. id \in BOOLEAN /\ (id <=> outcome = "id")
    OBVIOUS
  <2> HIDE DEF id
  <2>2. /\ a \in RequestState
        /\ a.at = "handler" /\ a.status = k.status /\ a.q = k.q /\ a.told = k.told
        /\ a.before = k.before /\ a.touched = k.touched /\ a.wrote = k.wrote
        /\ a.lost = k.lost /\ a.id = id
    BY <2>1 DEF RequestState
  <2>3. Http!Told(k, outcome) = a
    BY <1>3 DEF Http!Told, id
  <2> HIDE DEF a
  <2>4. WayOK(a, d)
    BY <1>1, <2>2 DEF WayOK, Admitted
  <2>5. AnswerOK(a)
    BY <1>1, <2>2 DEF AnswerOK
  <2>6. ToldOK(a, d, c2, "nothing", f)
    BY <1>1, <2>1, <2>2 DEF ToldOK
  <2> QED
    BY <2>2, <2>3, <2>4, <2>5, <2>6 DEF ProgressOK
<1> QED
  BY <1>2, <1>3

LEMMA ReadInstanceOK ==
    ASSUME HttpInv, NEW r \in Caller, Http!ReadInstance(r)
    PROVE  HttpInv'
<1> DEFINE k == request[r]
           n == [k EXCEPT !.at = "wait"]
<1>1. /\ k.at = "instance" /\ k \in RequestState /\ faults \in Nat /\ rev \in Nat
      /\ ProgressOK(k, deployment, cache, read, faults) /\ Admitted(k.q, deployment)
      /\ cache \in {"empty", "pending", "id"} /\ request \in [Caller -> RequestState]
      /\ (read # "nothing" => cache = "pending")
      /\ UNCHANGED <<deployment, row, read, rev, faults>>
      /\ \/ cache \in {"empty", "pending"} /\ cache' = "pending" /\ request' = [request EXCEPT ![r] = n]
         \/ cache = "id" /\ cache' = "id" /\ request' = [request EXCEPT ![r] = Http!Told(k, "id")]
  BY DEF Http!ReadInstance, Http!Set, Http!Instance, HttpInv, HttpTypeOK, InstanceOK, ProgressOK, WayOK
<1> HIDE DEF k
<1>2. CASE cache # "id"
  <2>1. cache' = "pending" /\ request' = [request EXCEPT ![r] = n]
    BY <1>1, <1>2
  <2>2. /\ n \in RequestState /\ n.at = "wait"
        /\ n.q = k.q /\ n.tag = k.tag /\ n.told = k.told /\ n.before = k.before
        /\ n.wrote = k.wrote /\ n.against = k.against /\ n.lost = k.lost /\ n.status = k.status
        /\ n.id = k.id
    BY <1>1 DEF RequestState
  <2> HIDE DEF n
  <2>3. ProgressOK(k, deployment, "pending", read, faults) /\ ~k.id
    <3>1. ~k.id
      BY <1>1, <1>2 DEF ProgressOK, ToldOK
    <3> QED
      BY <1>1, <1>2, <3>1, StaysOK
  <2>4. ProgressOK(n, deployment, "pending", read, faults)
    BY <1>1, <2>2, <2>3, OnwardIsOK
  <2>5. ASSUME NEW s \in Caller \ {r}
        PROVE  ProgressOK(request[s], deployment, "pending", read, faults)
    <3>1. request[s] \in RequestState /\ ProgressOK(request[s], deployment, cache, read, faults)
      BY <1>1 DEF HttpInv
    <3> QED
      BY <1>1, <1>2, <3>1, StaysOK
  <2>6. /\ request' \in [Caller -> RequestState]
        /\ \A s \in Caller : ProgressOK(request[s], deployment, cache, read, faults)'
    BY <1>1, <2>1, <2>2, <2>4, <2>5, SetKeeps
  <2> QED
    BY <1>1, <1>2, <2>1, <2>6 DEF HttpInv, HttpTypeOK, InstanceOK
<1>3. CASE cache = "id"
  <2> DEFINE t == Http!Told(k, "id")
  <2>1. read = "nothing"
    BY <1>1, <1>3
  <2>2. t \in RequestState /\ ProgressOK(t, deployment, cache, read, faults)
    BY <1>1, <1>3, <2>1, ToldIsOK
  <2>3. request' = [request EXCEPT ![r] = t] /\ cache' = cache
    BY <1>1, <1>3
  <2>4. rev' \in Nat /\ faults' \in Nat /\ faults <= faults' /\ ProgressOK(t, deployment, cache, read, faults')
    BY <1>1, <2>2
  <2> HIDE DEF t
  <2> QED
    BY <1>1, <2>2, <2>3, <2>4, AloneOK
<1> QED
  BY <1>2, <1>3

LEMMA EvaluateOK ==
    ASSUME HttpInv, Http!Evaluate
    PROVE  HttpInv'
<1>1. /\ cache = "pending" /\ read = "nothing" /\ faults \in Nat
      /\ UNCHANGED <<deployment, row, cache, rev, request>>
      /\ request \in [Caller -> RequestState]
      /\ \/ read' = (IF row THEN "id" ELSE "none") /\ faults' = faults
         \/ faults' = faults + 1 /\ read' = "failed"
  BY DEF Http!Evaluate, HttpInv, HttpTypeOK
<1>2. ASSUME NEW s \in Caller
      PROVE  ProgressOK(request[s], deployment, cache, read', faults')
  <2>1. request[s] \in RequestState /\ ProgressOK(request[s], deployment, cache, read, faults)
    BY <1>1 DEF HttpInv
  <2>2. /\ faults' \in Nat /\ faults <= faults' /\ (read' = "failed" => faults < faults')
        /\ (request[s].at = "wait" => cache = "pending")
    BY <1>1
  <2> QED
    BY <1>1, <2>1, <2>2, StaysOK
<1> QED
  BY <1>1, <1>2 DEF HttpInv, HttpTypeOK, InstanceOK

LEMMA SettleOK ==
    ASSUME HttpInv, Http!Settle
    PROVE  HttpInv'
<1>1. /\ read \in {"id", "none", "failed"} /\ cache = "pending" /\ faults \in Nat
      /\ cache' = (IF read = "id" THEN "id" ELSE "empty") /\ read' = "nothing"
      /\ UNCHANGED <<deployment, row, rev, faults>>
      /\ request \in [Caller -> RequestState]
      /\ request' = [r \in Caller |-> IF request[r].at = "wait" THEN Http!Told(request[r], read)
                                                                ELSE request[r]]
  BY DEF Http!Settle, Http!Remembered, HttpInv, HttpTypeOK, InstanceOK
<1>2. ASSUME NEW s \in Caller
      PROVE  request'[s] \in RequestState /\ ProgressOK(request'[s], deployment, cache', read', faults)
  <2> DEFINE k == request[s]
  <2>1. k \in RequestState /\ ProgressOK(k, deployment, cache, read, faults)
    BY <1>1 DEF HttpInv
  <2>2. ~k.told /\ ~k.id
    BY <1>1, <2>1 DEF ProgressOK, ToldOK
  <2>3. CASE k.at = "wait"
    <3> DEFINE t == Http!Told(k, read)
    <3>1. request'[s] = t
      BY <1>1, <2>3
    <3>2. read = "failed" => faults > k.before
      BY <1>1, <2>1, <2>3 DEF ProgressOK, ToldOK, RequestState
    <3> HIDE DEF k
    <3>3. t \in RequestState /\ ProgressOK(t, deployment, cache', "nothing", faults)
      BY <1>1, <2>1, <2>2, <2>3, <3>2, ToldIsOK
    <3> HIDE DEF t
    <3> QED
      BY <1>1, <3>1, <3>3
  <2>4. CASE k.at # "wait"
    <3>1. request'[s] = k
      BY <1>1, <2>4
    <3> HIDE DEF k
    <3>2. ProgressOK(k, deployment, cache', "nothing", faults)
      BY <1>1, <2>1, <2>4, StaysOK
    <3> QED
      BY <1>1, <2>1, <3>1, <3>2
  <2> QED
    BY <2>3, <2>4
<1>3. request' \in [Caller -> RequestState]
  BY <1>1, <1>2
<1> QED
  BY <1>1, <1>2, <1>3 DEF HttpInv, HttpTypeOK, InstanceOK

LEMMA MigrateOK ==
    ASSUME HttpInv, Http!Migrate
    PROVE  HttpInv'
  BY DEF Http!Migrate, HttpInv, HttpTypeOK, InstanceOK

(* What is written was not asked for by another site, and was written        *)
(* against the revision that it names.                                       *)
LEMMA WrittenIsOwn ==
    ASSUME NEW k, NEW d, RequestOK(k.q), Passed(k.q, d), Http!Unread(k) = 0
    PROVE  ~Http!Foreign(k.q)
<1>1. k.q.surface = "page" /\ ~Http!Safe(k.q) => k.q.media # "json"
  BY UnreadAnswers
<1> QED
  BY <1>1 DEF RequestOK, RouteOK, Passed, Http!Foreign, Http!FromAnotherSite, Http!NotJson,
              Http!CrossSiteForm, Http!Safe, Http!Media, Http!Origin

LEMMA WrittenAsNamed ==
    ASSUME NEW k, NEW v, RequestOK(k.q), Http!Unread(k) = 0, Http!Expected(k) \in {{}, {v}},
           k.q.match = "tag"
    PROVE  /\ k.q.route.condition = "kept" => v = k.tag
           /\ k.q.route.condition # "refused"
<1>1. k.q.surface # "page" /\ k.q.route.condition = "refused" => k.q.match = "absent"
  BY UnreadAnswers
<1>2. k.q.route.condition # "refused"
  BY <1>1 DEF RequestOK
<1>3. k.q.route.condition = "kept" => k.tag \in Http!Expected(k)
  BY DEF Http!Expected, Http!FromIfMatch
<1> QED
  BY <1>2, <1>3

LEMMA WroteIsOK ==
    ASSUME NEW k \in RequestState, NEW d, NEW c, NEW rd, NEW f \in Nat, ProgressOK(k, d, c, rd, f),
           k.at = "handler", Http!Unread(k) = 0, NEW v \in Nat, Http!Expected(k) \in {{}, {v}},
           NEW n \in RequestState, NEW f2 \in Nat, f <= f2,
           n.q = k.q, n.tag = k.tag, n.told = k.told, n.before = k.before, n.id = k.id,
           n.at = "done", n.wrote, n.against = v,
           n.status = 200 \/ (n.lost /\ n.status = 500 /\ f < f2)
    PROVE  ProgressOK(n, d, c, rd, f2)
<1>1. RequestOK(k.q) /\ k.before \in Nat
  BY AnyIsOK DEF RequestState
<1>2. Admitted(k.q, d) /\ Passed(k.q, d)
  BY DEF ProgressOK, WayOK
<1>3. ~Http!Foreign(k.q)
  BY <1>1, <1>2, WrittenIsOwn
<1>4. k.q.match = "tag" => /\ k.q.route.condition = "kept" => v = k.tag
                           /\ k.q.route.condition # "refused"
  BY <1>1, WrittenAsNamed
<1>5. WayOK(n, d)
  BY <1>2 DEF WayOK
<1>6. AnswerOK(n)
  BY <1>3, <1>4 DEF AnswerOK
<1>7. ToldOK(n, d, c, rd, f2)
  BY <1>1 DEF ProgressOK, ToldOK
<1> QED
  BY <1>5, <1>6, <1>7 DEF ProgressOK

LEMMA LookedIsOK ==
    ASSUME NEW k \in RequestState, NEW d, NEW c, NEW rd, NEW f \in Nat, ProgressOK(k, d, c, rd, f),
           k.at = "handler", ~Http!Changes(k.q)
    PROVE  Http!Answer(k, 200) \in RequestState /\ ProgressOK(Http!Answer(k, 200), d, c, rd, f)
<1> DEFINE a == Http!Answer(k, 200)
<1>1. /\ a \in RequestState
      /\ a.at = "done" /\ a.status = 200 /\ a.q = k.q /\ a.tag = k.tag /\ a.told = k.told
      /\ a.before = k.before /\ a.touched = k.touched /\ a.wrote = k.wrote
      /\ a.against = k.against /\ a.lost = k.lost /\ a.id = k.id
  BY AnswerFields DEF Statuses
<1> HIDE DEF a
<1>2. ~k.wrote /\ Admitted(k.q, d)
  BY DEF ProgressOK, AnswerOK, WayOK
<1>3. WayOK(a, d)
  BY <1>1, <1>2 DEF WayOK
<1>4. AnswerOK(a)
  BY <1>1, <1>2 DEF AnswerOK
<1>5. ToldOK(a, d, c, rd, f)
  BY <1>1, <1>2 DEF ProgressOK, ToldOK
<1> QED
  BY <1>1, <1>3, <1>4, <1>5 DEF ProgressOK, a

LEMMA HandleOK ==
    ASSUME HttpInv, NEW r \in Caller, Http!Handle(r)
    PROVE  HttpInv'
<1> DEFINE k == request[r]
           passed == Http!Expected(k) \notin {{}, {rev}}
           refusal == Http!First(<<Http!Unread(k), Http!When(~k.q.allowed, 403),
                                   Http!When(passed, 412)>>)
           done == Http!Done(k)
           lost == [done EXCEPT !.lost = TRUE]
<1>1. /\ k.at = "handler" /\ k \in RequestState /\ faults \in Nat /\ rev \in Nat
      /\ ProgressOK(k, deployment, cache, read, faults)
      /\ deployment' = deployment /\ row' = row /\ cache' = cache /\ read' = read
  BY DEF Http!Handle, Http!Instance, HttpInv, HttpTypeOK
<1>2. \/ /\ refusal # 0 /\ rev' = rev /\ faults' = faults
         /\ request' = [request EXCEPT ![r] = Http!Answer(k, refusal)]
      \/ /\ refusal = 0 /\ ~Http!Changes(k.q) /\ rev' = rev /\ faults' = faults
         /\ request' = [request EXCEPT ![r] = Http!Answer(k, 200)]
      \/ /\ refusal = 0 /\ rev' = rev + 1 /\ faults' = faults
         /\ request' = [request EXCEPT ![r] = Http!Answer(done, 200)]
      \/ /\ refusal = 0 /\ rev' = rev + 1 /\ faults' = faults + 1
         /\ request' = [request EXCEPT ![r] = Http!Answer(lost, 500)]
  BY DEF Http!Handle, Http!Set
<1>3. /\ refusal \in {0, 400, 403, 412, 413, 415, 422}
      /\ refusal = 0 => Http!Unread(k) = 0 /\ Http!Expected(k) \in {{}, {rev}}
  <2>1. ~passed => Http!Expected(k) \in {{}, {rev}}
    OBVIOUS
  <2> HIDE DEF passed, k
  <2>2. /\ refusal \in {0, 400, 403, 412, 413, 415, 422}
        /\ refusal = 0 => Http!Unread(k) = 0 /\ ~passed
    BY RefusalAnswers
  <2> QED
    BY <2>1, <2>2
<1>4. /\ done \in RequestState /\ done.wrote /\ done.against = rev
      /\ done.q = k.q /\ done.tag = k.tag /\ done.told = k.told /\ done.before = k.before
      /\ done.touched = k.touched /\ done.id = k.id
  BY <1>1 DEF Http!Done, RequestState
<1> HIDE DEF k, passed, refusal, done
<1>5. /\ lost \in RequestState /\ lost.wrote /\ lost.against = rev /\ lost.lost
      /\ lost.q = k.q /\ lost.tag = k.tag /\ lost.told = k.told /\ lost.before = k.before
      /\ lost.touched = k.touched /\ lost.id = k.id
  BY <1>4 DEF RequestState
<1> HIDE DEF lost
<1>6. CASE /\ refusal # 0 /\ rev' = rev /\ faults' = faults
           /\ request' = [request EXCEPT ![r] = Http!Answer(k, refusal)]
  <2> DEFINE a == Http!Answer(k, refusal)
  <2>1. refusal \in Statuses \ {0, 200} /\ refusal # 500
    BY <1>3, <1>6 DEF Statuses
  <2>2. a \in RequestState /\ ProgressOK(a, deployment, cache, read, faults)
    BY <1>1, <2>1, RefusedIsOK
  <2>3. rev' \in Nat /\ faults' \in Nat /\ faults <= faults' /\ ProgressOK(a, deployment, cache, read, faults')
    BY <1>1, <1>6, <2>2
  <2>4. request' = [request EXCEPT ![r] = a]
    BY <1>6
  <2> HIDE DEF a
  <2> QED
    BY <1>1, <2>2, <2>3, <2>4, AloneOK
<1>7. CASE /\ refusal = 0 /\ ~Http!Changes(k.q) /\ rev' = rev /\ faults' = faults
           /\ request' = [request EXCEPT ![r] = Http!Answer(k, 200)]
  <2> DEFINE a == Http!Answer(k, 200)
  <2>1. a \in RequestState /\ ProgressOK(a, deployment, cache, read, faults)
    BY <1>1, <1>7, LookedIsOK
  <2>2. rev' \in Nat /\ faults' \in Nat /\ faults <= faults' /\ ProgressOK(a, deployment, cache, read, faults')
    BY <1>1, <1>7, <2>1
  <2>3. request' = [request EXCEPT ![r] = a]
    BY <1>7
  <2> HIDE DEF a
  <2> QED
    BY <1>1, <2>1, <2>2, <2>3, AloneOK
<1>8. CASE /\ refusal = 0 /\ rev' = rev + 1 /\ faults' = faults
           /\ request' = [request EXCEPT ![r] = Http!Answer(done, 200)]
  <2> DEFINE a == Http!Answer(done, 200)
  <2>1. /\ a \in RequestState /\ a.at = "done" /\ a.status = 200 /\ a.wrote /\ a.against = rev
        /\ a.q = k.q /\ a.tag = k.tag /\ a.told = k.told /\ a.before = k.before /\ a.id = k.id
    BY <1>4, AnswerFields DEF Statuses
  <2>2. request' = [request EXCEPT ![r] = a]
    BY <1>8
  <2> HIDE DEF a
  <2>3. rev' \in Nat /\ faults' \in Nat /\ faults <= faults' /\ ProgressOK(a, deployment, cache, read, faults')
    BY <1>1, <1>3, <1>8, <2>1, WroteIsOK
  <2> QED
    BY <1>1, <2>1, <2>2, <2>3, AloneOK
<1>9. CASE /\ refusal = 0 /\ rev' = rev + 1 /\ faults' = faults + 1
           /\ request' = [request EXCEPT ![r] = Http!Answer(lost, 500)]
  <2> DEFINE a == Http!Answer(lost, 500)
  <2>1. /\ a \in RequestState /\ a.at = "done" /\ a.status = 500 /\ a.wrote /\ a.against = rev
        /\ a.lost
        /\ a.q = k.q /\ a.tag = k.tag /\ a.told = k.told /\ a.before = k.before /\ a.id = k.id
    BY <1>5, AnswerFields DEF Statuses
  <2>2. request' = [request EXCEPT ![r] = a]
    BY <1>9
  <2> HIDE DEF a
  <2>3. faults' \in Nat /\ faults < faults' /\ faults <= faults' /\ rev' \in Nat
    BY <1>1, <1>9
  <2>4. ProgressOK(a, deployment, cache, read, faults')
    BY <1>1, <1>3, <1>9, <2>1, <2>3, WroteIsOK
  <2> QED
    BY <1>1, <2>1, <2>2, <2>3, <2>4, AloneOK
<1> QED
  BY <1>2, <1>6, <1>7, <1>8, <1>9

LEMMA HttpInit == Http!Init => HttpInv
<1> SUFFICES ASSUME Http!Init
             PROVE  HttpInv
  OBVIOUS
<1>1. /\ Http!Idle \in RequestState
      /\ Http!Idle.at = "idle" /\ Http!Idle.status = 0 /\ ~Http!Idle.touched /\ ~Http!Idle.told
      /\ ~Http!Idle.wrote /\ ~Http!Idle.lost /\ ~Http!Idle.id
  BY IdleIsOK DEF Http!Idle, RequestState, Statuses
<1>2. HttpTypeOK /\ InstanceOK
  BY <1>1 DEF Http!Init, HttpTypeOK, InstanceOK
<1>3. ASSUME NEW r \in Caller
      PROVE  ProgressOK(request[r], deployment, cache, read, faults)
  <2>1. request[r] = Http!Idle /\ cache = "empty" /\ read = "nothing"
    BY DEF Http!Init
  <2> QED
    BY <1>1, <2>1 DEF ProgressOK, WayOK, AnswerOK, ToldOK
<1> QED
  BY <1>2, <1>3 DEF HttpInv

LEMMA HttpNext ==
    ASSUME HttpInv, Http!Next
    PROVE  HttpInv'
<1>1. ASSUME NEW r \in Caller, NEW q \in Sent[r], Http!Arrive(r, q)
      PROVE  HttpInv'
  BY <1>1, ArriveOK
<1>2. ASSUME NEW r \in Caller,
             \/ Http!AssertAdminsConfigured(r) \/ Http!Identify(r) \/ Http!Hydrate(r)
             \/ Http!ReadInstance(r) \/ Http!Handle(r) \/ Http!Fail(r)
      PROVE  HttpInv'
  BY <1>2, AssertAdminsConfiguredOK, IdentifyOK, HydrateOK, ReadInstanceOK, HandleOK, FailOK
<1>3. CASE Http!Evaluate \/ Http!Settle \/ Http!Migrate
  BY <1>3, EvaluateOK, SettleOK, MigrateOK
<1> QED
  BY <1>1, <1>2, <1>3 DEF Http!Next

LEMMA HttpStays ==
    ASSUME HttpInv, http' = http
    PROVE  HttpInv'
  BY DEF http, HttpInv, HttpTypeOK, InstanceOK

(* Whatever is sent, and whatever fails (middleware.ts, http/context.ts,     *)
(* core/instance.ts): the types, and the three parts of what is known of a   *)
(* request, hold.                                                            *)
THEOREM HttpInvariant == PathSpec => []HttpInv
<1>1. PathInit => HttpInv
  BY HttpInit DEF PathInit
<1>2. HttpInv /\ [PathNext]_allVars => HttpInv'
  <2> SUFFICES ASSUME HttpInv, [PathNext]_allVars
               PROVE  HttpInv'
    OBVIOUS
  <2>1. Http!Next \/ http' = http
    BY DEF PathNext, allVars
  <2> QED
    BY <2>1, HttpNext, HttpStays
<1> QED
  BY <1>1, <1>2, PTL DEF PathSpec

LEMMA HttpAnswers == HttpInv => Http!AnswersAreTrue /\ Http!InstanceIsTold
<1> SUFFICES ASSUME HttpInv, NEW r \in Caller
             PROVE  LET k == request[r] IN
                    /\ k.wrote => k.status = 200 \/ k.lost
                    /\ k.status = 200 /\ Http!Changes(k.q) => k.wrote
                    /\ k.wrote /\ k.q.match = "tag" =>
                          CASE k.q.route.condition = "kept" -> k.against = k.tag
                            [] k.q.route.condition = "refused" -> FALSE
                            [] OTHER -> TRUE
                    /\ k.id => row
                    /\ k.told /\ k.q.surface = "api" /\ (k.at = "handler" \/ k.wrote) => k.id
                    /\ k.status = 500 /\ deployment \notin {"ring", "vars", "access"} => faults > k.before
  BY DEF Http!AnswersAreTrue, Http!InstanceIsTold
<1>1. ProgressOK(request[r], deployment, cache, read, faults) /\ InstanceOK
  BY DEF HttpInv
<1> QED
  BY <1>1 DEF ProgressOK, AnswerOK, ToldOK, InstanceOK

(* AnswersAreTrue: of a write, of its condition and of its instance, however *)
(* requests, reads, failures and the migration interleave (middleware.ts     *)
(* :453-519, core/instance.ts:39-65, http/errors.ts:97-122).                 *)
THEOREM AnswersStayTrue == PathSpec => []AnswersAreTrue
<1>1. HttpInv => AnswersAreTrue
  BY HttpAnswers DEF AnswersAreTrue
<1> QED
  BY <1>1, HttpInvariant, PTL

LEMMA HttpStrangers == HttpInv => Http!StrangersTouchNothing
<1> SUFFICES ASSUME HttpInv, NEW r \in Caller
             PROVE  LET k == request[r] IN
                    /\ Http!Foreign(k.q) => ~k.wrote /\ (k.q.surface = "api" => ~k.touched)
                    /\ Http!Stranger(k.q) =>
                          /\ ~k.wrote /\ ~k.touched /\ ~k.id
                          /\ k.status = 200 => k.q.route.open
  BY DEF Http!StrangersTouchNothing
<1> DEFINE k == request[r]
<1>1. WayOK(k, deployment) /\ AnswerOK(k)
  BY DEF HttpInv, ProgressOK
<1>2. Http!Stranger(k.q) => ~Admitted(k.q, deployment)
  BY DEF Http!Stranger, Admitted, Passed
<1>3. Http!Foreign(k.q) /\ k.q.surface = "api" => ~Passed(k.q, deployment)
  BY DEF Http!Foreign, Passed, Http!FromAnotherSite, Http!NotJson
<1> HIDE DEF k
<1>4. Http!Foreign(k.q) => ~k.wrote /\ (k.q.surface = "api" => ~k.touched)
  BY <1>1, <1>3 DEF WayOK, AnswerOK, Admitted
<1>5. Http!Stranger(k.q) => ~k.wrote /\ ~k.touched /\ ~k.id /\ (k.status = 200 => k.q.route.open)
  BY <1>1, <1>2 DEF WayOK
<1> QED
  BY <1>4, <1>5 DEF k

-----------------------------------------------------------------------------
(* Who a request is. Its offer and its actor stay what they were when it     *)
(* came; a name that an administrator sets while it looks for one marks it.  *)
Brought == {Login!NoOffer} \cup
           UNION {Offers(th, v) : th \in {"settings", "claims", "names"}, v \in Visitor}
Subjects == {"ann", "bob", "job"}
Actors == [kind : {"none", "user", "service"}, subject : Subjects \cup {"none"}]

Visit == [pc : {"idle", "refused", "known", "snapshot", "fetch", "write", "done"},
          offer : Brought, now : Nat, actor : Actors, cookie : BOOLEAN,
          fetched : {"none", "Ann A."}, overtaken : BOOLEAN]

Names == [known : BOOLEAN, name : {"none", "Ann", "Ann A."}, synced : Nat,
          by : {"nobody", "sync", "administrator"}]

LoginTypeOK ==
    /\ theme \in {"settings", "claims", "names"}
    /\ time \in Nat
    /\ visits \in [Visitor -> Visit]
    /\ identities \in [Subjects -> Names]

Edited(name) == name.by = "administrator" /\ name.name # "none"

(* What the assertion of an accepted request was, and what that of a refused *)
(* one was not.                                                              *)
Accepted(a, now, s, actor) ==
    /\ Login!SignedByItsKey(a) /\ Login!InTime(a, now)
    /\ a.iss = s.team /\ s.aud \in a.aud.tags
    /\ actor = Login!ClassifyClaims(a) /\ actor # Login!Nobody

Refused(a, now, s) ==
    s = Login!Good => \A at \in Login!IssuedAt(a) : now + Skew < at \/ now >= at + AssertionLife

VisitOK(v, names, s) ==
    /\ v.pc \in {"known", "snapshot", "fetch", "write"} => v.actor.subject \in Subjects
    /\ v.pc = "known" => Accepted(Login!ExtractAssertion(v.offer), v.now, s, v.actor)
    /\ v.pc = "refused" => Refused(Login!ExtractAssertion(v.offer), v.now, s)
    /\ v.pc \in {"fetch", "write"} /\ Edited(names[v.actor.subject]) => v.overtaken

LoginInv == LoginTypeOK /\ \A v \in Visitor : VisitOK(visits[v], identities, settings)

LEMMA ActorIs ==
    ASSUME NEW offer, NEW now
    PROVE  LET x == Login!Actor(offer, now) IN
           /\ x \in Actors
           /\ x # Login!Nobody => x.subject \in Subjects
<1> DEFINE a == Login!ExtractAssertion(offer)
           c == Login!ClassifyClaims(a)
<1>1. Login!Email(a) \in {"ann", "bob", "none"} /\ Login!CommonName(a) \in {"job", "none"}
  BY DEF Login!Email, Login!CommonName
<1>2. c \in Actors /\ (c # Login!Nobody => c.subject \in Subjects)
  BY <1>1 DEF Login!ClassifyClaims, Actors, Subjects, Login!Nobody
<1>3. Login!Nobody \in Actors
  BY DEF Login!Nobody, Actors
<1> QED
  BY <1>2, <1>3 DEF Login!Actor

(* Every assertion that Access issued for this application is accepted in    *)
(* its time.                                                                 *)
LEMMA IssuedIsAccepted ==
    ASSUME NEW offer, NEW now \in Nat, settings = Login!Good,
           NEW at \in 0..LastTime, NEW kind \in {"user", "service"},
           Login!ExtractAssertion(offer) = Login!Issued(kind, at),
           now + Skew >= at, now < at + AssertionLife
    PROVE  Login!Actor(offer, now) # Login!Nobody
<1> DEFINE a == Login!Issued(kind, at)
<1>1. /\ Skew \in Nat /\ AssertionLife \in Nat /\ at \in Nat
      /\ at < 1000 /\ at + AssertionLife \in Nat /\ at + AssertionLife < 1000
  BY TimesAssumption DEF Login!Absent
<1>2. /\ a.form = "jwt" /\ a.alg = "RS256" /\ a.kid = "k1" /\ a.typ = "JWT"
      /\ a.signed = [kid |-> "k1", alg |-> "RS256"]
      /\ a.iss = "acme" /\ a.aud.form \in {"list", "string"} /\ a.aud.tags = {"prick"}
      /\ a.exp = at + AssertionLife /\ a.iat = at
      /\ a.nbf = IF kind = "user" THEN at ELSE 1000
  BY DEF Login!Issued, Login!Absent
<1>3. /\ a.sub = IF kind = "user" THEN "s" ELSE ""
      /\ a.email = IF kind = "user" THEN "ann" ELSE "absent"
      /\ a.commonName = IF kind = "user" THEN "absent" ELSE "job"
  BY DEF Login!Issued
<1> HIDE DEF a
<1>4. Login!Decodes(a) /\ Login!SignedByItsKey(a)
  BY <1>2 DEF Login!Decodes, Login!SignedByItsKey, Login!Alg
<1>5. a.iss = settings.team /\ Login!ForThisApplication(a)
  BY <1>2 DEF Login!Good, Login!ForThisApplication
<1>6. Login!InTime(a, now)
  BY <1>1, <1>2 DEF Login!InTime, Login!Absent, Login!Malformed
<1>7. Login!VerifyAccessJwt(a, now)
  BY <1>3, <1>4, <1>5, <1>6 DEF Login!VerifyAccessJwt
<1>8. /\ ~Login!Misconfigured(settings) /\ ~Login!Unverifiable(settings)
      /\ ~Login!RequiresCtxAccess(settings)
  BY DEF Login!Good, Login!Misconfigured, Login!Unverifiable, Login!RequiresCtxAccess
<1>9. Login!ClassifyClaims(a) # Login!Nobody
  <2>1. /\ Login!Email(a) = IF kind = "user" THEN "ann" ELSE "none"
        /\ Login!CommonName(a) = IF kind = "user" THEN "none" ELSE "job"
    BY <1>3 DEF Login!Email, Login!CommonName
  <2>2. CASE kind = "user"
    BY <1>3, <2>1, <2>2 DEF Login!ClassifyClaims, Login!Nobody
  <2>3. CASE kind = "service"
    BY <1>3, <2>1, <2>3 DEF Login!ClassifyClaims, Login!Nobody
  <2> QED
    BY <2>2, <2>3
<1> QED
  BY <1>7, <1>8, <1>9 DEF Login!Actor, a

LEMMA ActorClaims ==
    ASSUME NEW offer, NEW now \in Nat
    PROVE  LET a == Login!ExtractAssertion(offer) actor == Login!Actor(offer, now) IN
           /\ actor # Login!Nobody => Accepted(a, now, settings, actor)
           /\ actor = Login!Nobody => Refused(a, now, settings)
<1> DEFINE a == Login!ExtractAssertion(offer)
           actor == Login!Actor(offer, now)
<1>1. ASSUME actor # Login!Nobody
      PROVE  Accepted(a, now, settings, actor)
  BY <1>1 DEF Login!Actor, Login!VerifyAccessJwt, Login!ForThisApplication, Accepted
<1>2. ASSUME actor = Login!Nobody, settings = Login!Good, NEW at \in Login!IssuedAt(a),
             ~(now + Skew < at), ~(now >= at + AssertionLife)
      PROVE  FALSE
  <2>1. at \in 0..LastTime /\ \E kind \in {"user", "service"} : a = Login!Issued(kind, at)
    BY DEF Login!IssuedAt
  <2>2. now + Skew >= at /\ now < at + AssertionLife
    BY <1>2, <2>1, TimesAssumption
  <2> QED
    BY <1>2, <2>1, <2>2, IssuedIsAccepted
<1> QED
  BY <1>1, <1>2 DEF Refused

LEMMA NoOfferIsBrought == Login!NoOffer \in Brought
  BY DEF Brought

LEMMA IdleVisit == Login!Idle \in Visit /\ Login!Idle.pc = "idle"
  BY NoOfferIsBrought DEF Login!Idle, Visit, Login!Nobody, Actors

(* One visit changes, and the names stay.                                    *)
LEMMA VisitKeeps ==
    ASSUME LoginInv, NEW v \in Visitor, NEW n \in Visit, VisitOK(n, identities, settings),
           visits' = [visits EXCEPT ![v] = n],
           identities' = identities, theme' = theme, settings' = settings, time' = time
    PROVE  LoginInv'
<1>1. visits \in [Visitor -> Visit] /\ \A w \in Visitor : VisitOK(visits[w], identities, settings)
  BY DEF LoginInv, LoginTypeOK
<1>2. visits' \in [Visitor -> Visit]
  BY <1>1
<1>3. ASSUME NEW w \in Visitor
      PROVE  VisitOK(visits'[w], identities', settings')
  <2>1. CASE w = v
    BY <1>1, <2>1
  <2>2. CASE w # v
    BY <1>1, <2>2
  <2> QED
    BY <2>1, <2>2
<1> QED
  BY <1>2, <1>3 DEF LoginInv, LoginTypeOK

LEMMA VisitArrives ==
    ASSUME LoginInv, NEW v \in Visitor, Login!Arrive(v)
    PROVE  LoginInv'
<1>1. PICK offer \in Offers(theme, v) :
        visits' = [visits EXCEPT ![v] = [Login!Idle EXCEPT
                      !.pc = IF Login!Actor(offer, time) = Login!Nobody THEN "refused" ELSE "known",
                      !.offer = offer, !.now = time, !.actor = Login!Actor(offer, time),
                      !.cookie = offer.cookie.form # "blank"]]
  BY DEF Login!Arrive
<1> DEFINE actor == Login!Actor(offer, time)
           pc == IF actor = Login!Nobody THEN "refused" ELSE "known"
           cookie == offer.cookie.form # "blank"
           n == [Login!Idle EXCEPT !.pc = pc, !.offer = offer, !.now = time, !.actor = actor,
                                   !.cookie = cookie]
<1>2. /\ theme \in {"settings", "claims", "names"} /\ time \in Nat
      /\ identities' = identities /\ theme' = theme /\ settings' = settings /\ time' = time
  BY DEF Login!Arrive, LoginInv, LoginTypeOK
<1>3. offer \in Brought
  BY <1>2 DEF Brought
<1>4. actor \in Actors /\ (actor # Login!Nobody => actor.subject \in Subjects)
  BY ActorIs
<1>5. pc \in {"refused", "known"} /\ (pc = "refused" <=> actor = Login!Nobody) /\ cookie \in BOOLEAN
  OBVIOUS
<1>6. Login!Idle \in Visit
  BY IdleVisit
<1>7. visits' = [visits EXCEPT ![v] = n]
  BY <1>1
<1> HIDE DEF pc, cookie
<1>8. n \in Visit /\ n.pc = pc /\ n.offer = offer /\ n.now = time /\ n.actor = actor
  <2> HIDE DEF actor
  <2> QED
    BY <1>2, <1>3, <1>4, <1>5, <1>6 DEF Visit
<1> HIDE DEF n
<1>9. VisitOK(n, identities, settings)
  <2>1. /\ actor # Login!Nobody => Accepted(Login!ExtractAssertion(offer), time, settings, actor)
        /\ actor = Login!Nobody => Refused(Login!ExtractAssertion(offer), time, settings)
    BY <1>2, ActorClaims
  <2> HIDE DEF actor
  <2> QED
    BY <1>4, <1>5, <1>8, <2>1 DEF VisitOK
<1> QED
  BY <1>2, <1>7, <1>8, <1>9, VisitKeeps

LEMMA VisitUpserts ==
    ASSUME LoginInv, NEW v \in Visitor, Login!UpsertIdentity(v)
    PROVE  LoginInv'
<1> DEFINE k == visits[v]
           i == k.actor.subject
           row1 == [identities[i] EXCEPT !.known = TRUE]
           n == [k EXCEPT !.pc = "snapshot", !.offer = Login!NoOffer]
<1>1. /\ visits \in [Visitor -> Visit] /\ identities \in [Subjects -> Names]
      /\ \A w \in Visitor : VisitOK(visits[w], identities, settings)
      /\ k.pc = "known" /\ k \in Visit /\ theme' = theme /\ settings' = settings /\ time' = time
  BY DEF Login!UpsertIdentity, LoginInv, LoginTypeOK
<1>2. i \in Subjects
  BY <1>1 DEF VisitOK
<1>3. /\ identities' = [identities EXCEPT ![i] = row1]
      /\ visits' = [visits EXCEPT ![v] = n]
  BY <1>1, <1>2 DEF Login!UpsertIdentity
<1>4. row1 \in Names /\ row1.by = identities[i].by /\ row1.name = identities[i].name
  BY ZenonT(40), <1>1, <1>2 DEF Names
<1>5. n \in Visit /\ n.pc = "snapshot" /\ n.actor = k.actor
  BY <1>1, NoOfferIsBrought DEF Visit
<1>6. /\ identities' \in [Subjects -> Names]
      /\ \A j \in Subjects : Edited(identities'[j]) <=> Edited(identities[j])
  BY <1>1, <1>2, <1>3, <1>4 DEF Edited
<1> HIDE DEF n, row1
<1>7. visits' \in [Visitor -> Visit]
  BY <1>1, <1>3, <1>5
<1>8. ASSUME NEW w \in Visitor
      PROVE  VisitOK(visits'[w], identities', settings')
  <2>1. CASE w = v
    <3>1. visits'[w] = n
      BY <1>1, <1>3, <2>1
    <3> QED
      BY <1>2, <1>5, <3>1 DEF VisitOK
  <2>2. CASE w # v
    <3>1. visits'[w] = visits[w] /\ VisitOK(visits[w], identities, settings)
      BY <1>1, <1>3, <2>2
    <3> QED
      BY <1>1, <1>6, <3>1 DEF VisitOK
  <2> QED
    BY <2>1, <2>2
<1> QED
  BY <1>1, <1>6, <1>7, <1>8 DEF LoginInv, LoginTypeOK

LEMMA VisitSnapshots ==
    ASSUME LoginInv, NEW v \in Visitor, Login!Snapshot(v)
    PROVE  LoginInv'
<1> DEFINE k == visits[v]
           wants == Login!WantsName(k, identities[k.actor.subject])
           pc == IF wants THEN "fetch" ELSE "done"
           n == [k EXCEPT !.pc = pc]
<1>1. /\ k.pc = "snapshot" /\ k \in Visit /\ VisitOK(k, identities, settings) /\ visits \in [Visitor -> Visit]
      /\ theme' = theme /\ settings' = settings /\ time' = time /\ identities' = identities
      /\ visits' = [visits EXCEPT ![v] = n]
  BY DEF Login!Snapshot, LoginInv, LoginTypeOK
<1>2. wants => identities[k.actor.subject].name = "none"
  BY DEF Login!WantsName
<1>3. pc \in {"fetch", "done"} /\ (pc = "fetch" => wants)
  OBVIOUS
<1> HIDE DEF k, wants, pc
<1>4. n \in Visit /\ n.pc = pc /\ n.actor = k.actor
  BY <1>1, <1>3 DEF Visit
<1> HIDE DEF n
<1>5. VisitOK(n, identities, settings)
  BY <1>1, <1>2, <1>3, <1>4 DEF VisitOK, Edited
<1> QED
  BY <1>1, <1>4, <1>5, VisitKeeps

LEMMA VisitFetches ==
    ASSUME LoginInv, NEW v \in Visitor, Login!FetchAccessDisplayName(v)
    PROVE  LoginInv'
<1> DEFINE k == visits[v]
<1>1. PICK name \in {"none", "Ann A."} :
        visits' = [visits EXCEPT ![v].pc = "write", ![v].fetched = name]
  BY DEF Login!FetchAccessDisplayName
<1> DEFINE n == [k EXCEPT !.pc = "write", !.fetched = name]
<1>2. /\ k.pc = "fetch" /\ k \in Visit /\ VisitOK(k, identities, settings) /\ visits \in [Visitor -> Visit]
      /\ theme' = theme /\ settings' = settings /\ time' = time /\ identities' = identities
  BY DEF Login!FetchAccessDisplayName, LoginInv, LoginTypeOK
<1>3. visits' = [visits EXCEPT ![v] = n]
  BY <1>1, <1>2
<1> HIDE DEF k
<1>4. n \in Visit /\ n.pc = "write" /\ n.actor = k.actor /\ n.overtaken = k.overtaken
  BY <1>2 DEF Visit
<1> HIDE DEF n
<1>5. VisitOK(n, identities, settings)
  BY <1>2, <1>4 DEF VisitOK
<1> QED
  BY <1>2, <1>3, <1>4, <1>5, VisitKeeps

LEMMA VisitCancels ==
    ASSUME LoginInv, NEW v \in Visitor, Login!Cancel(v) \/ Login!Again(v)
    PROVE  LoginInv'
<1> DEFINE k == visits[v]
           n == [k EXCEPT !.pc = "done"]
<1>1. /\ k \in Visit /\ visits \in [Visitor -> Visit]
      /\ theme' = theme /\ settings' = settings /\ time' = time /\ identities' = identities
      /\ visits' = [visits EXCEPT ![v] = n] \/ visits' = [visits EXCEPT ![v] = Login!Idle]
  BY DEF Login!Cancel, Login!Again, LoginInv, LoginTypeOK
<1>2. n \in Visit /\ n.pc = "done"
  BY <1>1 DEF Visit
<1>3. Login!Idle \in Visit /\ Login!Idle.pc = "idle"
  BY IdleVisit
<1> HIDE DEF k, n
<1>4. VisitOK(n, identities, settings) /\ VisitOK(Login!Idle, identities, settings)
  BY <1>2, <1>3 DEF VisitOK
<1> QED
  BY <1>1, <1>2, <1>3, <1>4, VisitKeeps

(* A name is written: whoever still looks for one has been overtaken if it   *)
(* was an administrator who wrote it.                                        *)
LEMMA VisitWrites ==
    ASSUME LoginInv, NEW v \in Visitor, Login!WriteName(v)
    PROVE  LoginInv'
<1> DEFINE k == visits[v]
           i == k.actor.subject
           row1 == [identities[i] EXCEPT !.name = k.fetched, !.synced = k.now, !.by = "sync"]
           n == [k EXCEPT !.pc = "done"]
<1>1. /\ visits \in [Visitor -> Visit] /\ identities \in [Subjects -> Names]
      /\ \A w \in Visitor : VisitOK(visits[w], identities, settings)
      /\ k.pc = "write" /\ k \in Visit /\ theme' = theme /\ settings' = settings /\ time' = time
  BY DEF Login!WriteName, LoginInv, LoginTypeOK
<1>2. i \in Subjects
  BY <1>1 DEF VisitOK
<1>3. /\ identities' = [identities EXCEPT ![i] = row1]
      /\ visits' = [visits EXCEPT ![v] = n]
  BY <1>1, <1>2 DEF Login!WriteName
<1>4. row1 \in Names /\ row1.by = "sync"
  BY <1>1, <1>2 DEF Names, Visit
<1>5. n \in Visit /\ n.pc = "done"
  BY <1>1 DEF Visit
<1>6. /\ identities' \in [Subjects -> Names]
      /\ \A j \in Subjects : Edited(identities'[j]) => Edited(identities[j])
  BY <1>1, <1>2, <1>3, <1>4 DEF Edited
<1> HIDE DEF n, row1
<1>7. visits' \in [Visitor -> Visit]
  BY <1>1, <1>3, <1>5
<1>8. ASSUME NEW w \in Visitor
      PROVE  VisitOK(visits'[w], identities', settings')
  <2>1. CASE w = v
    <3>1. visits'[w] = n
      BY <1>1, <1>3, <2>1
    <3> QED
      BY <1>5, <3>1 DEF VisitOK
  <2>2. CASE w # v
    <3>1. visits'[w] = visits[w] /\ VisitOK(visits[w], identities, settings)
      BY <1>1, <1>3, <2>2
    <3> QED
      BY <1>1, <1>6, <3>1 DEF VisitOK
  <2> QED
    BY <2>1, <2>2
<1> QED
  BY <1>1, <1>6, <1>7, <1>8 DEF LoginInv, LoginTypeOK

LEMMA VisitRenamed ==
    ASSUME LoginInv, Login!Rename
    PROVE  LoginInv'
<1>1. /\ visits \in [Visitor -> Visit] /\ identities \in [Subjects -> Names]
      /\ \A w \in Visitor : VisitOK(visits[w], identities, settings)
      /\ theme' = theme /\ settings' = settings /\ time' = time
  BY DEF Login!Rename, LoginInv, LoginTypeOK
<1>2. PICK i \in Subjects, name \in {"Ann", "none"} :
        /\ identities' = [identities EXCEPT ![i].name = name, ![i].by = "administrator"]
        /\ visits' = [s \in Visitor |->
               IF visits[s].pc \in {"fetch", "write"} /\ visits[s].actor.subject = i
               THEN [visits[s] EXCEPT !.overtaken = TRUE] ELSE visits[s]]
  <2>1. DOMAIN identities = Subjects
    BY <1>1
  <2> QED
    BY ZenonT(40), <2>1 DEF Login!Rename
<1>3. /\ identities' \in [Subjects -> Names]
      /\ \A j \in Subjects \ {i} : identities'[j] = identities[j]
  <2> DEFINE row1 == [identities[i] EXCEPT !.name = name, !.by = "administrator"]
  <2>1. row1 \in Names
    BY <1>1 DEF Names
  <2>2. identities' = [identities EXCEPT ![i] = row1]
    BY <1>1, <1>2
  <2> HIDE DEF row1
  <2> QED
    BY <1>1, <2>1, <2>2
<1>4. ASSUME NEW w \in Visitor
      PROVE  visits'[w] \in Visit /\ VisitOK(visits'[w], identities', settings')
  <2> DEFINE k == visits[w]
             n == [k EXCEPT !.overtaken = TRUE]
  <2>1. k \in Visit /\ VisitOK(k, identities, settings)
    BY <1>1
  <2>2. CASE k.pc \in {"fetch", "write"} /\ k.actor.subject = i
    <3>1. visits'[w] = n
      BY <1>2, <2>2
    <3> HIDE DEF k
    <3>2. n \in Visit /\ n.pc = k.pc /\ n.actor = k.actor /\ n.overtaken
      BY <2>1 DEF Visit
    <3> HIDE DEF n
    <3> QED
      BY <2>1, <2>2, <3>1, <3>2 DEF VisitOK
  <2>3. CASE ~(k.pc \in {"fetch", "write"} /\ k.actor.subject = i)
    <3>1. visits'[w] = k
      BY <1>2, <2>3
    <3> HIDE DEF k
    <3> QED
      BY <1>1, <1>3, <2>1, <2>3, <3>1 DEF VisitOK
  <2> QED
    BY <2>2, <2>3
<1>5. visits' \in [Visitor -> Visit]
  BY <1>2, <1>4
<1> QED
  BY <1>1, <1>3, <1>4, <1>5 DEF LoginInv, LoginTypeOK

LEMMA VisitTicks ==
    ASSUME LoginInv, Login!Tick
    PROVE  LoginInv'
  BY DEF Login!Tick, LoginInv, LoginTypeOK

LEMMA LoginStays ==
    ASSUME LoginInv, login' = login
    PROVE  LoginInv'
  BY DEF login, LoginInv, LoginTypeOK

LEMMA LoginInit == Login!Init => LoginInv
<1> SUFFICES ASSUME Login!Init
             PROVE  LoginInv
  OBVIOUS
<1>1. Login!Idle \in Visit /\ Login!Idle.pc = "idle"
  BY IdleVisit
<1>2. Login!NoRow \in Names
  BY DEF Login!NoRow, Names, Login!Absent
<1>3. LoginTypeOK
  BY <1>1, <1>2 DEF Login!Init, LoginTypeOK, Subjects
<1>4. ASSUME NEW v \in Visitor
      PROVE  VisitOK(visits[v], identities, settings)
  <2>1. visits[v] = Login!Idle
    BY DEF Login!Init
  <2> QED
    BY <1>1, <2>1 DEF VisitOK
<1> QED
  BY <1>3, <1>4 DEF LoginInv

LEMMA LoginNext ==
    ASSUME LoginInv, Login!Next
    PROVE  LoginInv'
<1>1. ASSUME NEW v \in Visitor,
             \/ Login!Arrive(v) \/ Login!UpsertIdentity(v) \/ Login!Snapshot(v) \/ Login!Again(v)
             \/ Login!FetchAccessDisplayName(v) \/ Login!WriteName(v) \/ Login!Cancel(v)
      PROVE  LoginInv'
  BY <1>1, VisitArrives, VisitUpserts, VisitSnapshots, VisitFetches, VisitWrites, VisitCancels
<1>2. CASE Login!Rename \/ Login!Tick
  BY <1>2, VisitRenamed, VisitTicks
<1> QED
  BY <1>1, <1>2 DEF Login!Next

(* Who came in was vouched for, who was refused was not, and a name that is  *)
(* overwritten was looked for before (auth/access.ts, directory.ts).         *)
THEOREM LoginInvariant == PathSpec => []LoginInv
<1>1. PathInit => LoginInv
  BY LoginInit DEF PathInit
<1>2. LoginInv /\ [PathNext]_allVars => LoginInv'
  <2> SUFFICES ASSUME LoginInv, [PathNext]_allVars
               PROVE  LoginInv'
    OBVIOUS
  <2>1. Login!Next \/ login' = login
    BY DEF PathNext, allVars
  <2> QED
    BY <2>1, LoginNext, LoginStays
<1> QED
  BY <1>1, <1>2, PTL DEF PathSpec

LEMMA LoginAnswers == LoginInv => Login!AcceptedWhileValid /\ Login!OneIdentityEach
<1> SUFFICES ASSUME LoginInv, NEW v \in Visitor
             PROVE  LET r == visits[v] a == Login!ExtractAssertion(r.offer) IN
                    /\ r.pc = "refused" /\ settings = Login!Good =>
                         \A at \in Login!IssuedAt(a) :
                            r.now + Skew < at \/ r.now >= at + AssertionLife
                    /\ r.pc = "known" =>
                         /\ r.now < a.exp
                         /\ \A at \in Login!IssuedAt(a) : r.now + Skew >= at
                         /\ a.signed = [kid |-> a.kid, alg |-> Login!Alg[a.kid]]
                         /\ settings.aud \in a.aud.tags /\ a.iss = settings.team
                         /\ (Login!Email(a) = "none") # (Login!CommonName(a) = "none")
                         /\ r.actor.kind = "service" <=> a.sub = ""
                         /\ r.actor.subject \in {Login!Email(a), Login!CommonName(a)}
  BY DEF Login!AcceptedWhileValid, Login!OneIdentityEach
<1> DEFINE r == visits[v]
           a == Login!ExtractAssertion(r.offer)
<1>1. r.now \in Nat /\ VisitOK(r, identities, settings)
  BY DEF LoginInv, LoginTypeOK, Visit
<1> HIDE DEF r
<1>2. r.pc = "refused" => Refused(a, r.now, settings)
  BY <1>1 DEF VisitOK
<1>3. r.pc = "known" => Accepted(a, r.now, settings, r.actor)
  BY <1>1 DEF VisitOK
<1> HIDE DEF a
<1>4. ASSUME r.pc = "known", NEW at \in Login!IssuedAt(a)
      PROVE  r.now + Skew >= at
  <2>1. Login!InTime(a, r.now) /\ at \in 0..LastTime /\ at # 1000
    BY <1>3, <1>4, TimesAssumption DEF Accepted, Login!IssuedAt, Login!Absent
  <2>2. a.iat = at
    <3>1. PICK kind \in {"user", "service"} : a = Login!Issued(kind, at)
      BY <1>4 DEF Login!IssuedAt
    <3> QED
      BY <3>1 DEF Login!Issued
  <2> QED
    BY <2>1, <2>2, <1>1, TimesAssumption DEF Login!InTime, Login!Absent
<1>5. ASSUME r.pc = "known"
      PROVE  /\ (Login!Email(a) = "none") # (Login!CommonName(a) = "none")
             /\ r.actor.kind = "service" <=> a.sub = ""
             /\ r.actor.subject \in {Login!Email(a), Login!CommonName(a)}
  <2>1. r.actor = Login!ClassifyClaims(a) /\ r.actor # Login!Nobody
    BY <1>3, <1>5 DEF Accepted
  <2>2. \/ /\ a.sub # "" /\ Login!Email(a) # "none" /\ Login!CommonName(a) = "none"
           /\ r.actor = [kind |-> "user", subject |-> Login!Email(a)]
        \/ /\ a.sub = "" /\ Login!CommonName(a) # "none" /\ Login!Email(a) = "none"
           /\ r.actor = [kind |-> "service", subject |-> Login!CommonName(a)]
    BY <2>1 DEF Login!ClassifyClaims
  <2>3. (Login!Email(a) = "none") <=> ~(Login!CommonName(a) = "none")
    BY <2>2
  <2>4. (Login!Email(a) = "none") # (Login!CommonName(a) = "none")
    BY <2>3, Zenon
  <2>5. /\ r.actor.kind = "service" <=> a.sub = ""
        /\ r.actor.subject \in {Login!Email(a), Login!CommonName(a)}
    <3> DEFINE actor == r.actor
    <3> HIDE DEF actor
    <3>1. CASE a.sub # "" /\ actor = [kind |-> "user", subject |-> Login!Email(a)]
      <4>1. (actor.kind = "service" <=> a.sub = "") /\ actor.subject = Login!Email(a)
        BY <3>1
      <4> QED
        BY <4>1, Zenon DEF actor
    <3>2. CASE a.sub = "" /\ actor = [kind |-> "service", subject |-> Login!CommonName(a)]
      <4>1. (actor.kind = "service" <=> a.sub = "") /\ actor.subject = Login!CommonName(a)
        BY <3>2
      <4> QED
        BY <4>1, Zenon DEF actor
    <3> QED
      BY <2>2, <3>1, <3>2 DEF actor
  <2> QED
    BY <2>4, <2>5, Zenon
<1>6. ASSUME r.pc = "known"
      PROVE  /\ r.now < a.exp
             /\ a.signed = [kid |-> a.kid, alg |-> Login!Alg[a.kid]]
             /\ settings.aud \in a.aud.tags /\ a.iss = settings.team
  BY <1>1, <1>3, <1>6 DEF Accepted, Login!SignedByItsKey, Login!InTime
<1> QED
  BY <1>2, <1>4, <1>5, <1>6 DEF Refused, r, a

(* A name that an administrator set is written over only by who has been     *)
(* overtaken, so that its looking began before the name was there.           *)
LEMMA LoginSteps ==
    ASSUME LoginInv, [Login!Next]_(Login!vars), NEW i \in DOMAIN identities,
           Edited(identities[i]), identities'[i].by = "sync"
    PROVE  \E s \in Visitor : /\ visits[s].pc = "write" /\ visits'[s].pc = "done"
                              /\ visits[s].actor.subject = i /\ visits[s].overtaken
<1>1. /\ visits \in [Visitor -> Visit] /\ identities \in [Subjects -> Names]
      /\ \A w \in Visitor : VisitOK(visits[w], identities, settings)
      /\ i \in Subjects /\ identities[i].by = "administrator"
  BY DEF LoginInv, LoginTypeOK, Edited
<1>2. CASE UNCHANGED identities
  BY <1>1, <1>2
<1>3. ASSUME NEW v \in Visitor, Login!UpsertIdentity(v)
      PROVE  identities'[i].by = "administrator"
  BY <1>1, <1>3 DEF Login!UpsertIdentity, Names
<1>4. ASSUME Login!Rename
      PROVE  identities'[i].by = "administrator"
  <2>1. PICK j \in DOMAIN identities, name \in {"Ann", "none"} :
          identities' = [identities EXCEPT ![j].name = name, ![j].by = "administrator"]
    BY <1>4 DEF Login!Rename
  <2> DEFINE row1 == [identities[j] EXCEPT !.name = name, !.by = "administrator"]
  <2>2. identities' = [identities EXCEPT ![j] = row1]
    BY <1>1, <2>1
  <2>3. row1.by = "administrator"
    BY <1>1 DEF Names
  <2> HIDE DEF row1
  <2> QED
    BY <1>1, <2>2, <2>3
<1>5. ASSUME NEW v \in Visitor, Login!WriteName(v)
      PROVE  visits[v].pc = "write" /\ visits'[v].pc = "done"
             /\ visits[v].actor.subject = i /\ visits[v].overtaken
  <2>1. /\ visits[v].pc = "write" /\ visits'[v].pc = "done"
        /\ \A j \in Subjects : j # visits[v].actor.subject => identities'[j] = identities[j]
    BY <1>1, <1>5 DEF Login!WriteName, Visit
  <2>2. visits[v].actor.subject = i
    BY <1>1, <2>1
  <2> QED
    BY <1>1, <2>1, <2>2 DEF VisitOK
<1>6. ASSUME NEW v \in Visitor,
             \/ Login!Arrive(v) \/ Login!Snapshot(v) \/ Login!Again(v)
             \/ Login!FetchAccessDisplayName(v) \/ Login!Cancel(v)
      PROVE  UNCHANGED identities
  BY <1>6 DEF Login!Arrive, Login!Snapshot, Login!Again, Login!FetchAccessDisplayName, Login!Cancel
<1>7. CASE Login!Next
  <2>1. CASE Login!Rename
    BY <1>4, <2>1
  <2>2. CASE Login!Tick
    BY <1>2, <2>2 DEF Login!Tick
  <2>3. ASSUME NEW v \in Visitor, Login!WriteName(v)
        PROVE  \E s \in Visitor : /\ visits[s].pc = "write" /\ visits'[s].pc = "done"
                                  /\ visits[s].actor.subject = i /\ visits[s].overtaken
    BY <1>5, <2>3
  <2> QED
    BY <1>2, <1>3, <1>6, <1>7, <2>1, <2>2, <2>3 DEF Login!Next
<1>8. CASE UNCHANGED Login!vars
  BY <1>2, <1>8 DEF Login!vars
<1> QED
  BY <1>7, <1>8

(* Nobody is let in unvouched for or in another's name, no site reaches what *)
(* is not its own, and no name that was set is lost to a later look (csrf.ts *)
(* :25-45, middleware.ts:313-362, auth/access.ts:409-442, directory.ts:168). *)
THEOREM StrangersStayOut == PathSpec => StrangersTouchNothing
<1> DEFINE Stands ==
       \A i \in DOMAIN identities :
           /\ identities[i].by = "administrator" /\ identities[i].name # "none"
           /\ identities'[i].by = "sync"
           => \E s \in Visitor : /\ visits[s].pc = "write" /\ visits'[s].pc = "done"
                                 /\ visits[s].actor.subject = i /\ visits[s].overtaken
<1>1. HttpInv => (scene = "http" => Http!StrangersTouchNothing)
  BY HttpStrangers
<1>2. LoginInv => (scene = "login" => Login!AcceptedWhileValid /\ Login!OneIdentityEach)
  BY LoginAnswers
<1>3. LoginInv /\ [PathNext]_allVars => [Stands]_(Login!vars)
  <2> SUFFICES ASSUME LoginInv, [PathNext]_allVars
               PROVE  Stands \/ UNCHANGED Login!vars
    OBVIOUS
  <2>1. Login!Next \/ UNCHANGED Login!vars
    BY DEF PathNext, allVars, login, Login!vars
  <2>2. CASE Login!Next
    BY <2>2, LoginSteps DEF Edited
  <2> QED
    BY <2>1, <2>2
<1> QED
  BY <1>1, <1>2, <1>3, HttpInvariant, LoginInvariant, PTL
     DEF PathSpec, StrangersTouchNothing, Login!EditsStand
=============================================================================
