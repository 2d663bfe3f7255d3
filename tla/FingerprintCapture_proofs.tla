----------------------- MODULE FingerprintCapture_proofs -----------------------
(***************************************************************************)
(* What a capture may answer and what a save leaves in the bucket, for     *)
(* every set of requests, every retry limit and whatever the agent does.   *)
(*                                                                         *)
(* The messages of a request are numbered by its attempts, and a message   *)
(* is in one place only: on the wire, in the reader, or answered.  So the  *)
(* reader that refuses a first attempt is at work for somebody else.       *)
(*                                                                         *)
(* Attempts stay within their limit and the pauses between them, which     *)
(* double, within the next power of two.  That the powers exist and grow   *)
(* is shown of the least number they would fail at.                        *)
(*                                                                         *)
(* The second part is about the files of guards and employees, a component *)
(* of its own (PersonnelFiles), which shares no variable with the first.   *)
(***************************************************************************)
EXTENDS FingerprintCapture, PersonnelFiles, FiniteSetTheorems, TLAPS

Counted == Nat \ {0}

\* A request that has asked, or will ask again, for a capture.
Capturing(k) == k.phase = "SLEEP" \/ (k.phase \in {"ASK", "DONE"} /\ k.kind = "capture")

Asked(k) == k.phase \in {"ASK", "SLEEP", "DONE"}

\* What the fields of a request are used for.
Shaped(k) ==
  /\ k.phase = "ASK" => k.kind \in {"capture", "health"}
  /\ Capturing(k) => k.attempt \in Counted
  /\ k.phase = "SLEEP" => k.error \in NetworkErrors
  /\ k.phase = "PUT" => k.at \in 0 .. MaxNow

Ranges ==
  /\ DOMAIN request = Requests /\ \A r \in Requests : Shaped(request[r])
  /\ agent \in [up : BOOLEAN, plugged : BOOLEAN, scan : (Requests \X Counted) \cup {None}]
  /\ wire \subseteq Requests \X Counted
  /\ \A a \in answers : a.to \in Requests \X Counted
  /\ now \in 0 .. MaxNow
  /\ DOMAIN bucket = 0 .. MaxNow

\* A message that was sent belongs to an attempt its request has come to.
Sent(m) ==
  /\ Asked(request[m[1]])
  /\ Capturing(request[m[1]]) => m[2] <= request[m[1]].attempt

MessagesSent ==
  /\ \A m \in wire : Sent(m) /\ (agent.scan # None => m # agent.scan)
  /\ agent.scan # None => Sent(agent.scan) /\ Capturing(request[agent.scan[1]])

\* A reason for the agent to refuse a capture of r.
Overlapped(r) ==
  \/ Capturing(request[r]) /\ request[r].attempt > 1
  \/ \E other \in Requests \ {r} : Capturing(request[other])

AnswersFounded ==
  \A a \in answers :
    /\ a.is = "IMAGE" => a.to \in taken
    /\ a.is = "CONCURRENT_CAPTURE" => Overlapped(a.to[1])

OutcomeFounded(r) ==
  /\ Capturing(request[r]) /\ request[r].phase = "DONE" /\ request[r].outcome = "IMAGE" =>
       Pending(r) \in taken
  /\ request[r].phase = "DONE" /\ request[r].outcome = "CONCURRENT_CAPTURE" => Overlapped(r)

OutcomesFounded == \A r \in Requests : OutcomeFounded(r)

IInv == Ranges /\ MessagesSent /\ AnswersFounded /\ OutcomesFounded /\ SavedImageStays
-----------------------------------------------------------------------------
(* One request moves on.                                                     *)

\* Attempts are counted up, and what was asked for stays asked for.
Evolves(k, n) ==
  /\ Shaped(n)
  /\ Capturing(k) => Capturing(n) /\ n.attempt >= k.attempt
  /\ Capturing(n) => Capturing(k) \/ k.phase = "NEW"
  /\ Asked(k) => Asked(n)

Onward(k, n) == Evolves(k, n) /\ k.phase # "SAVED" /\ n.phase # "SAVED"

\* What a request may end with.
Founded(r, n) ==
  n.phase = "DONE" =>
    /\ n.kind = "capture" /\ n.outcome = "IMAGE" => <<r, n.attempt>> \in taken
    /\ n.outcome = "CONCURRENT_CAPTURE" =>
         Capturing(n) /\ (n.attempt > 1 \/ \E other \in Requests \ {r} : Capturing(request[other]))

\* The message of the attempt n has come to is a new one.
Fresh(k, n) == ~Asked(k) \/ (Capturing(k) /\ n.attempt > k.attempt)

LEMMA Becoming ==
  ASSUME Ranges, NEW r \in Requests, NEW n, Becomes(r, n)
  PROVE  /\ DOMAIN request' = Requests /\ request'[r] = n
         /\ \A q \in Requests \ {r} : request'[q] = request[q]
BY DEF Becomes, Ranges

\* What one request does leaves the reasons of the others.
LEMMA StillOverlapped ==
  ASSUME Ranges, NEW r \in Requests, NEW n, Becomes(r, n), Evolves(request[r], n),
         NEW q \in Requests, Overlapped(q)
  PROVE  Overlapped(q)'
<1>1. \A x \in Requests : Capturing(request[x]) =>
        Capturing(request'[x]) /\ request'[x].attempt >= request[x].attempt
        /\ request[x].attempt \in Nat /\ request'[x].attempt \in Nat
  BY Becoming DEF Evolves, Ranges, Shaped, Counted
<1>2. CASE \E other \in Requests \ {q} : Capturing(request[other])
  BY <1>1, <1>2 DEF Overlapped
<1>3. CASE Capturing(request[q]) /\ request[q].attempt > 1
  BY <1>1, <1>3 DEF Overlapped
<1> QED BY <1>2, <1>3 DEF Overlapped

LEMMA StillSent ==
  ASSUME Ranges, NEW r \in Requests, NEW n, Becomes(r, n), Evolves(request[r], n),
         NEW m \in Requests \X Counted, Sent(m)
  PROVE  /\ Sent(m)'
         /\ Capturing(request[m[1]]) => Capturing(request'[m[1]])
<1>1. PICK q \in Requests : q = m[1]
  OBVIOUS
<1>2. m[2] \in Nat
  BY DEF Counted
<1>3. CASE q # r
  BY <1>1, <1>3, Becoming DEF Sent
<1>4. CASE q = r
  <2>1. request'[q] = n /\ Asked(request[q]) /\ (Capturing(request[q]) => m[2] <= request[q].attempt)
    BY <1>1, <1>4, Becoming DEF Sent
  <2>2. Capturing(n) => Capturing(request[q])
    BY <1>4, <2>1 DEF Evolves, Asked
  <2>3. Capturing(n) => request[q].attempt \in Nat /\ n.attempt \in Nat /\ n.attempt >= request[q].attempt
    BY <1>4, <2>2 DEF Evolves, Ranges, Shaped, Counted
  <2>4. Asked(n) /\ (Capturing(request[q]) => Capturing(n))
    BY <1>4, <2>1 DEF Evolves
  <2> QED BY <1>1, <1>2, <2>1, <2>2, <2>3, <2>4 DEF Sent
<1> QED BY <1>3, <1>4

\* Every message is still of an attempt that was made, and every answer and
\* outcome still has its reason.
LEMMA RequestMoves ==
  ASSUME IInv, NEW r \in Requests, NEW n, Becomes(r, n), Evolves(request[r], n), Founded(r, n),
         UNCHANGED <<agent, taken>>, answers' \subseteq answers,
         \/ wire' \subseteq wire
         \/ /\ wire' = wire \cup {<<r, n.attempt>>}
            /\ n.phase = "ASK" /\ n.attempt \in Counted /\ Fresh(request[r], n)
  PROVE  MessagesSent' /\ AnswersFounded' /\ OutcomesFounded'
<1>1. /\ DOMAIN request' = Requests /\ request'[r] = n
      /\ \A q \in Requests \ {r} : request'[q] = request[q]
  BY Becoming DEF IInv
<1>2. AnswersFounded'
  BY StillOverlapped DEF IInv, Ranges, AnswersFounded
<1>3. OutcomesFounded'
  <2>1. ASSUME NEW q \in Requests \ {r}
        PROVE  OutcomeFounded(q)'
    <3>1. OutcomeFounded(q) /\ request'[q] = request[q] /\ taken' = taken
      BY <1>1, <2>1 DEF IInv, OutcomesFounded
    <3>2. Overlapped(q) => Overlapped(q)'
      BY StillOverlapped DEF IInv
    <3> QED BY <3>1, <3>2 DEF OutcomeFounded, Pending
  <2>2. OutcomeFounded(r)'
    BY <1>1 DEF Founded, OutcomeFounded, Pending, Overlapped, Capturing, Evolves
  <2> QED BY <2>1, <2>2 DEF OutcomesFounded
<1>4. MessagesSent'
  <2>1. agent.scan # None => agent.scan \in Requests \X Counted
    BY DEF IInv, Ranges
  <2>2. agent'.scan # None => Sent(agent.scan)' /\ Capturing(request'[agent'.scan[1]])
    BY <2>1, StillSent DEF IInv, MessagesSent
  <2>3. \A m \in wire : Sent(m)' /\ (agent'.scan # None => m # agent'.scan)
    BY StillSent DEF IInv, MessagesSent, Ranges
  <2>4. CASE wire' \subseteq wire
    BY <2>2, <2>3, <2>4 DEF MessagesSent
  <2>5. CASE /\ wire' = wire \cup {<<r, n.attempt>>}
             /\ n.phase = "ASK" /\ n.attempt \in Counted /\ Fresh(request[r], n)
    <3>1. Sent(<<r, n.attempt>>)'
      BY <1>1, <2>5 DEF Sent, Asked, Counted
    <3>2. agent.scan # <<r, n.attempt>> \/ agent.scan = None
      <4> SUFFICES ASSUME agent.scan # None, agent.scan = <<r, n.attempt>> PROVE FALSE
        OBVIOUS
      <4>1. Sent(<<r, n.attempt>>)
        BY DEF IInv, MessagesSent
      <4> QED BY <2>5, <4>1 DEF Sent, Fresh, IInv, Ranges, Shaped, Counted
    <3> QED BY <2>2, <2>3, <2>5, <3>1, <3>2 DEF MessagesSent
  <2> QED BY <2>4, <2>5
<1> QED BY <1>2, <1>3, <1>4
-----------------------------------------------------------------------------
(* The steps of a request.                                                   *)

\* A step that leaves the files alone keeps what was said of them.
LEMMA FilesStay ==
  ASSUME IInv, UNCHANGED files, DOMAIN request' = Requests,
         \A r \in Requests : request[r].phase = "SAVED" \/ request'[r].phase = "SAVED" =>
                               request'[r] = request[r]
  PROVE  SavedImageStays' /\ now' \in 0 .. MaxNow /\ DOMAIN bucket' = 0 .. MaxNow
<1>1. now' \in 0 .. MaxNow /\ DOMAIN bucket' = 0 .. MaxNow /\ bucket' = bucket
  BY DEF IInv, Ranges, files
<1>2. SavedImageStays'
  BY <1>1 DEF IInv, SavedImageStays, Key
<1> QED BY <1>1, <1>2

LEMMA RequestSteps ==
  ASSUME IInv, NEW r \in Requests, NEW n, Becomes(r, n), Onward(request[r], n), Founded(r, n),
         UNCHANGED <<agent, taken, files>>, answers' \subseteq answers,
         \/ wire' \subseteq wire
         \/ /\ wire' = wire \cup {<<r, n.attempt>>}
            /\ n.phase = "ASK" /\ n.attempt \in Counted /\ Fresh(request[r], n)
  PROVE  IInv'
<1>1. /\ DOMAIN request' = Requests /\ request'[r] = n
      /\ \A q \in Requests \ {r} : request'[q] = request[q]
  BY Becoming DEF IInv
<1>2. MessagesSent' /\ AnswersFounded' /\ OutcomesFounded'
  BY RequestMoves DEF Onward
<1>3. SavedImageStays' /\ now' \in 0 .. MaxNow /\ DOMAIN bucket' = 0 .. MaxNow
  BY <1>1, FilesStay DEF Onward, Evolves
<1>4. Ranges'
  BY <1>1, <1>3 DEF IInv, Ranges, Onward, Evolves
<1> QED BY <1>2, <1>3, <1>4 DEF IInv

\* Requests that have nothing to do with the agent.
LEMMA ElsewhereSteps ==
  ASSUME IInv, NEW r \in Requests, NEW n, Becomes(r, n), UNCHANGED <<network, files>>,
         request[r].phase \notin {"ASK", "SLEEP", "DONE", "SAVED"},
         n.phase \notin {"ASK", "SLEEP", "DONE", "SAVED"},
         n.phase = "PUT" => n.at \in 0 .. MaxNow
  PROVE  IInv'
<1>1. Onward(request[r], n) /\ Founded(r, n)
  BY DEF Onward, Evolves, Founded, Shaped, Capturing, Asked
<1> QED BY <1>1, RequestSteps DEF network

\* A request that is begun.
LEMMA BeginSteps == ASSUME IInv, NEW r \in Requests, Begin(r) PROVE IInv'
<1>1. ASSUME NEW limit \in RetryLimits, Capture(r, limit)
      PROVE  IInv'
  <2>1. PICK n : n = [phase |-> "ASK", kind |-> "capture", limit |-> limit, attempt |-> 1, slept |-> 0]
    OBVIOUS
  <2>2. Becomes(r, n) /\ wire' = wire \cup {<<r, n.attempt>>} /\ request[r].phase = "NEW"
    BY <1>1, <2>1 DEF Capture
  <2>3. /\ Onward(request[r], n) /\ Founded(r, n) /\ Fresh(request[r], n)
        /\ n.phase = "ASK" /\ n.attempt \in Counted
    BY <2>1, <2>2 DEF Onward, Evolves, Founded, Fresh, Shaped, Capturing, Asked, Counted
  <2> QED BY <1>1, <2>2, <2>3, RequestSteps DEF Capture, files
<1>2. CASE CheckHealth(r)
  <2>1. PICK n : n = [phase |-> "ASK", kind |-> "health", limit |-> 2, attempt |-> 1, slept |-> 0]
    OBVIOUS
  <2>2. Becomes(r, n) /\ wire' = wire \cup {<<r, n.attempt>>} /\ request[r].phase = "NEW"
    BY <1>2, <2>1 DEF CheckHealth
  <2>3. /\ Onward(request[r], n) /\ Founded(r, n) /\ Fresh(request[r], n)
        /\ n.phase = "ASK" /\ n.attempt \in Counted
    BY <2>1, <2>2 DEF Onward, Evolves, Founded, Fresh, Shaped, Capturing, Asked, Counted
  <2> QED BY <1>2, <2>2, <2>3, RequestSteps DEF CheckHealth, files
<1>3. ASSUME \/ Save(r)
             \/ \E u \in Users : FindUser(r, u)
      PROVE  IInv'
  <2>1. request[r].phase = "NEW" /\ UNCHANGED <<network, files>>
    BY <1>3 DEF Save, FindUser
  <2>2. ASSUME NEW phase \in {"KEY", "REFUSED"}, Becomes(r, [phase |-> phase])
        PROVE  IInv'
    <3>1. PICK n : n = [phase |-> phase]
      OBVIOUS
    <3> QED BY <2>1, <2>2, <3>1, ElsewhereSteps
  <2>3. ASSUME NEW wanted \in {"SAVE_CONFIG", "FIND_CONFIG"}, NEW u \in Users,
               Becomes(r, [phase |-> wanted, user |-> u])
        PROVE  IInv'
    <3>1. PICK n : n = [phase |-> wanted, user |-> u]
      OBVIOUS
    <3> QED BY <2>1, <2>3, <3>1, ElsewhereSteps
  <2>4. CASE Save(r)
    BY <2>2, <2>4 DEF Save
  <2>5. ASSUME NEW u \in Users, FindUser(r, u)
        PROVE  IInv'
    BY <2>2, <2>3, <2>5 DEF FindUser
  <2> QED BY <1>3, <2>4, <2>5
<1> QED BY <1>1, <1>2, <1>3 DEF Begin

\* The end of a request that has asked.
LEMMA Finishing ==
  ASSUME IInv, NEW r \in Requests, Asking(r), NEW outcome, Finish(r, outcome),
         outcome = "IMAGE" => Pending(r) \in taken,
         outcome = "CONCURRENT_CAPTURE" => Overlapped(r),
         UNCHANGED <<agent, taken, files>>, answers' \subseteq answers, wire' \subseteq wire
  PROVE  IInv'
<1>1. Shaped(request[r]) /\ request[r].phase = "ASK"
  BY DEF IInv, Ranges, Asking
<1>2. CASE request[r].kind = "health"
  <2>1. PICK n : /\ Becomes(r, n) /\ n.phase = "DONE" /\ n.kind = "health"
                 /\ n.outcome # "CONCURRENT_CAPTURE"
    BY <1>2 DEF Finish, Health
  <2>2. Onward(request[r], n) /\ Founded(r, n)
    BY <1>1, <1>2, <2>1 DEF Onward, Evolves, Founded, Shaped, Capturing, Asked
  <2> QED BY <2>1, <2>2, RequestSteps
<1>3. CASE request[r].kind # "health"
  <2>1. PICK n : /\ Becomes(r, n) /\ n.phase = "DONE" /\ n.kind = "capture"
                 /\ n.attempt = request[r].attempt /\ n.outcome = outcome
    BY <1>3 DEF Finish
  <2>2. Capturing(request[r]) /\ request[r].attempt \in Counted
    BY <1>1, <1>3 DEF Shaped, Capturing
  <2>3. Onward(request[r], n)
    BY <1>1, <2>1, <2>2 DEF Onward, Evolves, Shaped, Capturing, Asked, Counted
  <2>4. Founded(r, n)
    BY <1>1, <2>1, <2>2 DEF Founded, Capturing, Pending, Overlapped
  <2> QED BY <2>1, <2>3, <2>4, RequestSteps
<1> QED BY <1>2, <1>3

LEMMA Failing ==
  ASSUME IInv, NEW r \in Requests, Asking(r), NEW error \in NetworkErrors, Fails(r, error),
         UNCHANGED <<agent, taken, files>>, answers' \subseteq answers, wire' \subseteq wire
  PROVE  IInv'
<1>1. error # "IMAGE" /\ error # "CONCURRENT_CAPTURE"
  BY DEF NetworkErrors
<1>2. CASE Finish(r, error)
  BY <1>1, <1>2, Finishing
<1>3. CASE ~Finish(r, error)
  <2>1. PICK n : /\ Becomes(r, n) /\ n.phase = "SLEEP" /\ n.attempt = request[r].attempt
                 /\ n.error = error /\ request[r].kind # "health"
    BY <1>3 DEF Fails
  <2>2. Shaped(request[r]) /\ request[r].phase = "ASK"
    BY DEF IInv, Ranges, Asking
  <2>3. Onward(request[r], n) /\ Founded(r, n)
    BY <2>1, <2>2 DEF Onward, Evolves, Founded, Shaped, Capturing, Asked, Counted
  <2> QED BY <2>1, <2>3, RequestSteps
<1> QED BY <1>2, <1>3

LEMMA AskingSteps ==
  ASSUME IInv, NEW r \in Requests, TimesOut(r) \/ Disconnected(r) \/ Receives(r)
  PROVE  IInv'
<1>1. CASE TimesOut(r)
  BY <1>1, Failing DEF TimesOut, network, NetworkErrors
<1>2. CASE Disconnected(r)
  BY <1>2, Failing DEF Disconnected, NetworkErrors
<1>3. CASE Receives(r)
  <2>1. PICK a \in answers : a.to = Pending(r) /\ Finish(r, a.is) /\ answers' = answers \ {a}
    BY <1>3 DEF Receives
  <2>2. a.is = "IMAGE" => Pending(r) \in taken
    BY <2>1 DEF IInv, AnswersFounded
  <2>3. a.is = "CONCURRENT_CAPTURE" => Overlapped(r)
    BY <2>1 DEF IInv, AnswersFounded, Pending
  <2> QED BY <1>3, <2>1, <2>2, <2>3, Finishing DEF Receives
<1> QED BY <1>1, <1>2, <1>3

LEMMA WakesStep == ASSUME IInv, NEW r \in Requests, Wakes(r) PROVE IInv'
<1>1. /\ request[r].phase = "SLEEP" /\ Capturing(request[r])
      /\ request[r].attempt \in Counted /\ request[r].error \in NetworkErrors
      /\ UNCHANGED <<agent, answers, taken, files, accounts>>
  BY DEF Wakes, IInv, Ranges, Shaped, Capturing
<1>2. CASE 2 * (request[r].attempt + 1) <= request[r].limit
  <2>1. PICK n : n = [phase |-> "ASK", kind |-> "capture", limit |-> request[r].limit,
                      attempt |-> request[r].attempt + 1, slept |-> request[r].slept]
    OBVIOUS
  <2>2. Becomes(r, n) /\ wire' = wire \cup {<<r, n.attempt>>}
    BY <1>2, <2>1 DEF Wakes
  <2>3. /\ Onward(request[r], n) /\ Founded(r, n) /\ Fresh(request[r], n)
        /\ n.phase = "ASK" /\ n.attempt \in Counted
    BY <1>1, <2>1 DEF Onward, Evolves, Founded, Fresh, Shaped, Capturing, Asked, Counted
  <2> QED BY <1>1, <2>2, <2>3, RequestSteps
<1>3. CASE ~(2 * (request[r].attempt + 1) <= request[r].limit)
  <2>1. PICK n : /\ Becomes(r, n) /\ n.phase = "DONE" /\ n.kind = "capture"
                 /\ n.attempt = request[r].attempt /\ n.outcome \in NetworkErrors
                 /\ wire' = wire
    BY <1>1, <1>3 DEF Wakes
  <2>2. Onward(request[r], n) /\ Founded(r, n)
    BY <1>1, <2>1 DEF Onward, Evolves, Founded, Shaped, Capturing, Asked, Counted, NetworkErrors
  <2> QED BY <1>1, <2>1, <2>2, RequestSteps
<1> QED BY <1>2, <1>3

\* A save, from its key to the upload.
LEMMA SaveSteps == ASSUME IInv, NEW r \in Requests, ChooseKey(r) \/ Put(r) PROVE IInv'
<1>1. CASE ChooseKey(r)
  <2>1. PICK n : n = [phase |-> "PUT", at |-> now]
    OBVIOUS
  <2>2. Becomes(r, n) /\ n.phase = "PUT" /\ n.at \in 0 .. MaxNow
    BY <1>1, <2>1 DEF ChooseKey, IInv, Ranges
  <2> QED BY <1>1, <2>2, ElsewhereSteps DEF ChooseKey
<1>2. CASE Put(r)
  <2>1. /\ request[r].phase = "PUT" /\ request[r].at \in 0 .. MaxNow
        /\ UNCHANGED <<agent, wire, answers, taken, now>>
    BY <1>2 DEF Put, IInv, Ranges, Shaped, network
  <2>2. CASE Becomes(r, [phase |-> "REFUSED"]) /\ UNCHANGED bucket
    <3>1. PICK n : n = [phase |-> "REFUSED"]
      OBVIOUS
    <3> QED BY <2>1, <2>2, <3>1, ElsewhereSteps DEF network, files
  <2>3. CASE /\ bucket' = [bucket EXCEPT ![Key(request[r].at)] = r]
             /\ Becomes(r, [phase |-> "SAVED", at |-> request[r].at])
    <3>1. PICK n : n = [phase |-> "SAVED", at |-> request[r].at]
      OBVIOUS
    <3>2. Becomes(r, n) /\ Evolves(request[r], n) /\ Founded(r, n)
      BY <2>1, <2>3, <3>1 DEF Evolves, Founded, Shaped, Capturing, Asked
    <3>3. MessagesSent' /\ AnswersFounded' /\ OutcomesFounded'
      BY <2>1, <3>2, RequestMoves
    <3>4. /\ DOMAIN request' = Requests /\ request'[r] = n
          /\ \A q \in Requests \ {r} : request'[q] = request[q]
      BY <3>2, Becoming DEF IInv
    <3>5. /\ DOMAIN bucket' = 0 .. MaxNow /\ bucket'[request[r].at] = r
          /\ \A t \in 0 .. MaxNow : t # request[r].at => bucket'[t] = bucket[t]
      BY <2>1, <2>3 DEF Key, IInv, Ranges
    <3>6. Ranges'
      BY <2>1, <3>2, <3>4, <3>5 DEF IInv, Ranges, Evolves
    <3>7. SavedImageStays'
      <4> SUFFICES ASSUME NEW q \in Requests, request'[q].phase = "SAVED"
                   PROVE  \/ bucket'[request'[q].at] = q
                          \/ \E other \in Requests \ {q} :
                               request'[other].phase = "SAVED" /\ request'[other].at = request'[q].at
        BY DEF SavedImageStays, Key
      <4>1. CASE q = r
        BY <3>1, <3>4, <3>5, <4>1
      <4>2. CASE q # r /\ request[q].at = request[r].at
        BY <3>1, <3>4, <4>2
      <4>3. CASE q # r /\ request[q].at # request[r].at
        <5>1. request'[q] = request[q] /\ request[q].phase = "SAVED"
          BY <3>4, <4>3
        <5>2. CASE \E other \in Requests \ {q} :
                     request[other].phase = "SAVED" /\ request[other].at = request[q].at
          BY <2>1, <3>4, <5>1, <5>2
        <5>3. CASE bucket[request[q].at] = q
          BY <2>3, <3>5, <4>3, <5>1, <5>3 DEF Key, IInv, Ranges
        <5> QED BY <5>1, <5>2, <5>3 DEF IInv, SavedImageStays, Key
      <4> QED BY <4>1, <4>2, <4>3
    <3> QED BY <3>3, <3>6, <3>7 DEF IInv
  <2> QED BY <1>2, <2>2, <2>3 DEF Put
<1> QED BY <1>1, <1>2

LEMMA ConfigSteps ==
  ASSUME IInv, NEW r \in Requests, Upsert(r) \/ FindConfig(r) \/ DeleteConfig(r)
  PROVE  IInv'
<1>1. PICK n : /\ Becomes(r, n) /\ request[r].phase \in {"SAVE_CONFIG", "FIND_CONFIG", "DELETE_CONFIG"}
               /\ n.phase \in {"CONFIGURED", "REFUSED", "DELETE_CONFIG"}
  BY DEF Upsert, FindConfig, DeleteConfig
<1> QED BY <1>1, ElsewhereSteps DEF Upsert, FindConfig, DeleteConfig
-----------------------------------------------------------------------------
(* The steps of the agent and of the world.                                  *)

\* Nothing that requests have come to depends on them.
LEMMA AgentMoves ==
  ASSUME IInv, UNCHANGED <<request, files>>, taken \subseteq taken',
         agent' \in [up : BOOLEAN, plugged : BOOLEAN, scan : (Requests \X Counted) \cup {None}],
         wire' \subseteq wire, MessagesSent',
         \A a \in answers' :
           \/ a \in answers
           \/ /\ a.to \in Requests \X Counted
              /\ a.is = "IMAGE" => a.to \in taken'
              /\ a.is = "CONCURRENT_CAPTURE" => Overlapped(a.to[1])
  PROVE  IInv'
<1>1. \A q : Overlapped(q)' <=> Overlapped(q)
  BY DEF Overlapped
<1>2. AnswersFounded'
  BY <1>1 DEF IInv, AnswersFounded
<1>3. OutcomesFounded'
  BY <1>1 DEF IInv, OutcomesFounded, OutcomeFounded, Pending
<1>4. Ranges' /\ SavedImageStays'
  BY DEF IInv, Ranges, SavedImageStays, files
<1> QED BY <1>2, <1>3, <1>4 DEF IInv

LEMMA AgentTakesStep == ASSUME IInv, NEW m \in wire, AgentTakes(m) PROVE IInv'
<1>1. /\ m \in Requests \X Counted /\ wire' = wire \ {m}
      /\ UNCHANGED <<request, taken, files, accounts>>
      /\ Sent(m) /\ (agent.scan # None => m # agent.scan)
  BY DEF AgentTakes, IInv, Ranges, MessagesSent
<1>2. KindOf(m) = "capture" => Capturing(request[m[1]])
  BY <1>1 DEF KindOf, Sent, Asked, Asking, Capturing
<1>3. ASSUME UNCHANGED agent, NEW is, Answer(m, is),
             is # "IMAGE", is = "CONCURRENT_CAPTURE" => Overlapped(m[1])
      PROVE  IInv'
  <2>1. MessagesSent'
    BY <1>1, <1>3 DEF IInv, MessagesSent, Sent
  <2>2. \A a \in answers' : a \in answers \/ (a.to = m /\ a.is = is)
    BY <1>3 DEF Answer
  <2> QED BY <1>1, <1>3, <2>1, <2>2, AgentMoves DEF IInv, Ranges
<1>4. CASE KindOf(m) = "health"
  BY <1>3, <1>4 DEF AgentTakes
<1>5. CASE KindOf(m) = "capture" /\ ~agent.plugged
  BY <1>3, <1>5 DEF AgentTakes
<1>6. CASE KindOf(m) = "capture" /\ agent.plugged /\ agent.scan # None
  <2>1. /\ agent.scan \in Requests \X Counted /\ Sent(agent.scan)
        /\ Capturing(request[agent.scan[1]])
    BY <1>6 DEF IInv, Ranges, MessagesSent
  <2>2. PICK r \in Requests, i \in Counted : m = <<r, i>>
    BY <1>1
  <2>3. PICK q \in Requests, j \in Counted : agent.scan = <<q, j>>
    BY <2>1
  <2>4. ASSUME q = r
        PROVE  Overlapped(r)
    <3>1. i # j /\ i <= request[r].attempt /\ j <= request[r].attempt
      BY <1>1, <1>2, <1>6, <2>1, <2>2, <2>3, <2>4 DEF Sent
    <3>2. request[r].attempt \in Counted /\ Capturing(request[r])
      BY <1>2, <1>6, <2>2 DEF IInv, Ranges, Shaped
    <3> QED BY <3>1, <3>2 DEF Overlapped, Counted
  <2>5. Overlapped(m[1])
    BY <2>1, <2>2, <2>3, <2>4 DEF Overlapped
  <2> QED BY <1>3, <1>6, <2>5 DEF AgentTakes
<1>7. CASE KindOf(m) = "capture" /\ agent.plugged /\ agent.scan = None
  <2>1. agent' = [agent EXCEPT !.scan = m] /\ UNCHANGED answers
    BY <1>7 DEF AgentTakes
  <2>2. /\ agent' \in [up : BOOLEAN, plugged : BOOLEAN, scan : (Requests \X Counted) \cup {None}]
        /\ agent'.scan = m
    BY <1>1, <2>1 DEF IInv, Ranges
  <2>3. MessagesSent'
    BY <1>1, <1>2, <1>7, <2>2 DEF IInv, MessagesSent, Sent
  <2> QED BY <1>1, <2>1, <2>2, <2>3, AgentMoves
<1> QED BY <1>4, <1>5, <1>6, <1>7 DEF AgentTakes

LEMMA AgentSteps == ASSUME IInv, Agent PROVE IInv'
<1>1. CASE AgentScans
  <2>1. PICK m \in Requests \X Counted : m = agent.scan
    <3>1. agent.scan # None /\ agent.scan \in (Requests \X Counted) \cup {None}
      BY <1>1 DEF AgentScans, IInv, Ranges
    <3> QED BY <3>1
  <2>2. /\ agent' \in [up : BOOLEAN, plugged : BOOLEAN, scan : (Requests \X Counted) \cup {None}]
        /\ agent'.scan = None /\ UNCHANGED <<request, wire, files>>
    BY <1>1 DEF AgentScans, IInv, Ranges
  <2>3. MessagesSent'
    BY <2>2 DEF IInv, MessagesSent, Sent
  <2>4. PICK is \in {"IMAGE", "CAPTURE_TIMEOUT", "DEVICE_NOT_CONNECTED"} :
          /\ answers' = answers \cup {[to |-> m, is |-> is]}
          /\ is = "IMAGE" => m \in taken'
          /\ taken \subseteq taken'
    BY <1>1, <2>1 DEF AgentScans, Answer
  <2> QED BY <2>2, <2>3, <2>4, AgentMoves
<1>2. CASE AgentStops
  <2>1. /\ agent' \in [up : BOOLEAN, plugged : BOOLEAN, scan : (Requests \X Counted) \cup {None}]
        /\ agent'.scan = None /\ wire' = {} /\ answers' = {} /\ UNCHANGED <<request, taken, files>>
    BY <1>2 DEF AgentStops, IInv, Ranges
  <2>2. MessagesSent'
    BY <2>1 DEF MessagesSent
  <2> QED BY <2>1, <2>2, AgentMoves
<1>3. CASE AgentStarts \/ ReaderMoves
  <2>1. /\ agent' \in [up : BOOLEAN, plugged : BOOLEAN, scan : (Requests \X Counted) \cup {None}]
        /\ agent'.scan = agent.scan /\ UNCHANGED <<request, wire, answers, taken, files>>
    BY <1>3 DEF AgentStarts, ReaderMoves, IInv, Ranges
  <2>2. MessagesSent'
    BY <2>1 DEF IInv, MessagesSent, Sent
  <2> QED BY <2>1, <2>2, AgentMoves
<1> QED BY <1>1, <1>2, <1>3, AgentTakesStep DEF Agent

LEMMA OtherSteps ==
  ASSUME IInv, Tick \/ (\E u \in Users : RemoveUser(u)) \/ UNCHANGED vars
  PROVE  IInv'
<1>1. UNCHANGED <<request, agent, wire, answers, taken, bucket>>
  BY DEF Tick, RemoveUser, vars, network, files
<1>2. now' \in 0 .. MaxNow
  BY MaxNowAssumption DEF Tick, RemoveUser, vars, files, IInv, Ranges
<1>3. \A q : Overlapped(q)' <=> Overlapped(q)
  BY <1>1 DEF Overlapped
<1>4. MessagesSent' /\ AnswersFounded' /\ SavedImageStays'
  BY <1>1, <1>3 DEF IInv, MessagesSent, Sent, AnswersFounded, SavedImageStays, Key
<1>5. OutcomesFounded'
  BY <1>1, <1>3 DEF IInv, OutcomesFounded, OutcomeFounded, Pending
<1>6. Ranges'
  BY <1>1, <1>2 DEF IInv, Ranges
<1> QED BY <1>4, <1>5, <1>6 DEF IInv

\* Messages are where their attempts are, and answers have their reasons.
THEOREM Invariant == Spec => []IInv
<1>1. Init => IInv
  <2> SUFFICES ASSUME Init PROVE IInv
    OBVIOUS
  <2>1. Ranges
    BY MaxNowAssumption DEF Init, Ranges, Shaped, Capturing
  <2>2. MessagesSent /\ AnswersFounded /\ OutcomesFounded /\ SavedImageStays
    BY DEF Init, MessagesSent, AnswersFounded, OutcomesFounded, OutcomeFounded, SavedImageStays
  <2> QED BY <2>1, <2>2 DEF IInv
<1>2. IInv /\ [Next]_vars => IInv'
  <2> SUFFICES ASSUME IInv, [Next]_vars PROVE IInv'
    OBVIOUS
  <2>1. ASSUME NEW r \in Requests, Begin(r) \/ Serve(r) \/ Receives(r) \/ Disconnected(r)
        PROVE  IInv'
    BY <2>1, BeginSteps, AskingSteps, WakesStep, SaveSteps, ConfigSteps DEF Serve
  <2> QED BY <2>1, AgentSteps, OtherSteps DEF Next
<1> QED BY <1>1, <1>2, PTL DEF Spec

\* An image is the one of the attempt the server was waiting for, however many
\* attempts there were and whatever came late.
THEOREM ImagesAreOfTheLastAttempt == Spec => []ImageOfTheLastAttempt
<1>1. IInv => ImageOfTheLastAttempt
  <2> SUFFICES ASSUME IInv, NEW r \in Requests, request[r].phase = "DONE",
                      request[r].kind = "capture", StatusOf(request[r].outcome) = 200
               PROVE  Pending(r) \in taken
    BY DEF ImageOfTheLastAttempt
  <2>1. request[r].outcome = "IMAGE"
    BY DEF StatusOf
  <2> QED BY <2>1 DEF IInv, OutcomesFounded, OutcomeFounded, Capturing
<1> QED BY <1>1, Invariant, PTL

\* A capture is refused only when it overlaps another one, of its own or not.
THEOREM RefusedOnlyByOverlap == Spec => []BusyOnlyByOverlap
<1>1. IInv => BusyOnlyByOverlap
  BY DEF IInv, OutcomesFounded, OutcomeFounded, Overlapped, Capturing, BusyOnlyByOverlap
<1> QED BY <1>1, Invariant, PTL

\* What a save has returned the key of is replaced in the same millisecond or
\* not at all.
THEOREM SavedImagesStay == Spec => []SavedImageStays
<1>1. IInv => SavedImageStays
  BY DEF IInv
<1> QED BY <1>1, Invariant, PTL
-----------------------------------------------------------------------------
(* Powers of two.                                                            *)

\* A set of numbers that has a member has a least one.
LEMMA LeastMember ==
  ASSUME NEW B \in SUBSET Nat, B # {}
  PROVE  \E m \in B : \A k \in B : m <= k
<1>1. PICK m \in B : \A k \in B : ~ (<<k, m>> \in OpToRel(<, Nat))
  BY NatLessThanWellFounded, WFMin
<1>2. \A k \in B : k \in Nat /\ m \in Nat /\ ~(k < m)
  BY <1>1 DEF OpToRel
<1> QED
  BY <1>2

\* The first powers of two, up to the n-th.
Powers(p, n) ==
  /\ p \in [0 .. n -> Nat \ {0}] /\ p[0] = 1
  /\ \A i \in 1 .. n : p[i] = 2 * p[i - 1]

\* There are such powers for every n: the least one without would be zero or
\* follow one that has them.
LEMMA SomePowers == ASSUME NEW n \in Nat PROVE \E p : Powers(p, n)
<1> DEFINE Bad == {m \in Nat : ~ \E p : Powers(p, m)}
<1> SUFFICES ASSUME Bad # {} PROVE FALSE
  OBVIOUS
<1>1. PICK m \in Bad : \A k \in Bad : m <= k
  BY LeastMember
<1>2. m # 0
  <2> DEFINE p == [i \in 0 .. 0 |-> 1]
  <2>1. Powers(p, 0)
    BY DEF Powers
  <2> HIDE DEF p
  <2> QED
    BY <2>1
<1>3. m - 1 \in Nat /\ m - 1 < m /\ (m - 1) + 1 = m
  BY <1>2
<1>4. PICK p : Powers(p, m - 1)
  BY <1>1, <1>3
<1> DEFINE q == [i \in 0 .. m |-> IF i = m THEN 2 * p[m - 1] ELSE p[i]]
<1>5. Powers(q, m)
  <2>1. \A i \in 0 .. (m - 1) : p[i] \in Nat \ {0}
    BY <1>4 DEF Powers
  <2>2. p[m - 1] \in Nat \ {0} /\ 2 * p[m - 1] \in Nat \ {0}
    BY <1>3, <2>1
  <2>3. \A i \in 0 .. m : q[i] \in Nat \ {0}
    BY <1>3, <2>1, <2>2
  <2>4. q[0] = 1
    BY <1>2, <1>3, <1>4 DEF Powers
  <2>5. ASSUME NEW i \in 1 .. m PROVE q[i] = 2 * q[i - 1]
    <3>1. i - 1 \in 0 .. m /\ i - 1 # m /\ q[i - 1] = p[i - 1]
      BY <1>3
    <3>2. CASE i = m
      BY <3>1, <3>2
    <3>3. CASE i # m
      <4>1. i \in 1 .. (m - 1)
        BY <1>3, <3>3
      <4>2. p[i] = 2 * p[i - 1]
        BY <1>4, <4>1 DEF Powers
      <4> QED
        BY <3>1, <3>3, <4>2
    <3> QED
      BY <3>2, <3>3
  <2>6. q \in [0 .. m -> Nat \ {0}]
    BY <2>3
  <2> HIDE DEF q
  <2> QED
    BY <2>4, <2>5, <2>6 DEF Powers
<1> HIDE DEF q
<1> QED
  BY <1>1, <1>5

\* A finite set of numbers that has a member has a greatest one.
LEMMA GreatestMember ==
  ASSUME NEW D \in SUBSET Nat, IsFiniteSet(D), D # {}
  PROVE  \E x \in D : \A y \in D : y <= x
<1> DEFINE Greatest(s) == \E x \in s : \A y \in s : y <= x
           Bad == {s \in SUBSET D : s # {} /\ ~Greatest(s)}
<1> SUFFICES ASSUME Bad # {} PROVE FALSE
  OBVIOUS
<1>1. Bad \subseteq FiniteSubsetsOf(D)
  BY FS_Subset DEF FiniteSubsetsOf
<1>2. PICK m \in Bad : \A k \in Bad : ~ (<<k, m>> \in StrictSubsetOrdering(D))
  BY <1>1, FS_StrictSubsetOrderingWellFounded, WFMin
<1>3. m \in SUBSET D /\ m # {} /\ ~Greatest(m)
  BY <1>2
<1>4. PICK x \in m : TRUE
  BY <1>3
<1>5. m \ {x} \notin Bad
  BY <1>2, <1>3, <1>4 DEF StrictSubsetOrdering
<1>6. CASE m \ {x} = {}
  <2>1. \A y \in m : y <= x
    BY <1>3, <1>4, <1>6
  <2> QED
    BY <1>3, <1>4, <2>1
<1>7. CASE m \ {x} # {}
  <2>1. PICK z \in m \ {x} : \A y \in m \ {x} : y <= z
    BY <1>3, <1>5, <1>7
  <2>2. x \in Nat /\ z \in Nat /\ z \in m /\ \A y \in m : y \in Nat
    BY <1>3, <1>4, <2>1
  <2>3. z <= x => \A y \in m : y <= x
    BY <2>1, <2>2
  <2>4. ~(z <= x) => \A y \in m : y <= z
    BY <2>1, <2>2
  <2> QED
    BY <1>3, <1>4, <2>2, <2>3, <2>4
<1> QED
  BY <1>6, <1>7

\* No limit is above the greatest one.
LEMMA MostIsGreatest ==
  Most \in Nat /\ Most >= 2 /\ \A n \in RetryLimits : n \in Nat /\ n >= 2 /\ n <= Most
<1>1. RetryLimits \in SUBSET Nat /\ IsFiniteSet(RetryLimits) /\ RetryLimits # {}
  BY RetryLimitsAssumption
<1>2. \E x \in RetryLimits : \A y \in RetryLimits : y <= x
  BY <1>1, GreatestMember
<1>3. Most \in RetryLimits /\ \A y \in RetryLimits : y <= Most
  BY <1>2 DEF Most
<1>4. \A n \in RetryLimits : n \in Nat /\ n >= 2
  BY RetryLimitsAssumption
<1> QED
  BY <1>3, <1>4

\* PowerOfTwo is what its definition says, and positive.
LEMMA PowersDouble == Powers(PowerOfTwo, Most)
<1> DEFINE Doubling(p) == p = [n \in 0 .. Most |-> IF n = 0 THEN 1 ELSE 2 * p[n - 1]]
<1>1. Most \in Nat
  BY MostIsGreatest
<1>2. PICK p : Powers(p, Most)
  BY <1>1, SomePowers
<1>3. Doubling(p)
  <2>1. p \in [0 .. Most -> Nat \ {0}]
    BY <1>2 DEF Powers
  <2>2. ASSUME NEW n \in 0 .. Most PROVE p[n] = IF n = 0 THEN 1 ELSE 2 * p[n - 1]
    <3>1. n # 0 => n \in 1 .. Most
      BY <1>1
    <3> QED
      BY <1>2, <3>1 DEF Powers
  <2> QED
    BY <2>1, <2>2
<1>4. PowerOfTwo = CHOOSE q : Doubling(q)
  BY DEF PowerOfTwo
<1>5. Doubling(PowerOfTwo)
  BY <1>3, <1>4
<1>6. /\ DOMAIN PowerOfTwo = 0 .. Most /\ PowerOfTwo[0] = 1
      /\ \A i \in 1 .. Most : PowerOfTwo[i] = 2 * PowerOfTwo[i - 1]
      /\ PowerOfTwo = [i \in 0 .. Most |-> PowerOfTwo[i]]
  <2>1. \A i \in 0 .. Most : PowerOfTwo[i] = IF i = 0 THEN 1 ELSE 2 * PowerOfTwo[i - 1]
    BY <1>5
  <2>2. 0 \in 0 .. Most /\ \A i \in 1 .. Most : i \in 0 .. Most /\ i # 0
    BY <1>1
  <2>3. DOMAIN PowerOfTwo = 0 .. Most /\ PowerOfTwo = [i \in 0 .. Most |-> PowerOfTwo[i]]
    BY <1>5
  <2> HIDE DEF Doubling
  <2> QED
    BY <2>1, <2>2, <2>3
<1> HIDE DEF Doubling
<1>7. ASSUME NEW i \in 0 .. Most PROVE PowerOfTwo[i] \in Nat \ {0}
  <2> DEFINE Bad == {k \in Nat : k <= Most /\ PowerOfTwo[k] \notin Nat \ {0}}
  <2>1. CASE Bad = {}
    <3>1. i \in Nat /\ i <= Most
      BY <1>1
    <3> QED
      BY <2>1, <3>1
  <2>2. CASE Bad # {}
    <3>1. PICK m \in Bad : \A k \in Bad : m <= k
      BY <2>2, LeastMember
    <3>2. m \in Nat /\ m <= Most /\ PowerOfTwo[m] \notin Nat \ {0}
      OBVIOUS
    <3>3. m # 0
      BY <1>6, <3>2
    <3>4. m - 1 \in Nat /\ m - 1 <= Most /\ ~(m <= m - 1) /\ m \in 1 .. Most
      BY <1>1, <3>2, <3>3
    <3>5. m - 1 \notin Bad
      BY <3>1, <3>4
    <3>6. PowerOfTwo[m - 1] \in Nat \ {0}
      BY <3>4, <3>5
    <3>7. PowerOfTwo[m] = 2 * PowerOfTwo[m - 1]
      BY <1>6, <3>4
    <3> HIDE DEF Bad
    <3> QED
      BY <3>2, <3>6, <3>7
  <2> QED
    BY <2>1, <2>2
<1> QED
  BY <1>6, <1>7 DEF Powers

\* Later powers are not smaller.
LEMMA PowersGrow ==
  ASSUME NEW i \in 0 .. Most, NEW j \in 0 .. Most, i <= j
  PROVE  PowerOfTwo[i] <= PowerOfTwo[j]
<1>1. /\ \A n \in 0 .. Most : PowerOfTwo[n] \in Nat
      /\ \A n \in 1 .. Most : PowerOfTwo[n] = 2 * PowerOfTwo[n - 1]
  BY PowersDouble DEF Powers
<1>2. Most \in Nat
  BY MostIsGreatest
<1> DEFINE Bad == {k \in Nat : k <= Most /\ i <= k /\ ~(PowerOfTwo[i] <= PowerOfTwo[k])}
<1>3. CASE Bad = {}
  <2>1. j \in Nat /\ j <= Most
    BY <1>2
  <2> QED
    BY <1>3, <2>1
<1>4. CASE Bad # {}
  <2>1. PICK m \in Bad : \A k \in Bad : m <= k
    BY <1>4, LeastMember
  <2>2. m \in Nat /\ m <= Most /\ i <= m /\ ~(PowerOfTwo[i] <= PowerOfTwo[m])
    OBVIOUS
  <2>3. PowerOfTwo[i] \in Nat /\ m # i
    BY <1>1, <2>2
  <2>4. /\ m - 1 \in Nat /\ m - 1 <= Most /\ i <= m - 1 /\ ~(m <= m - 1)
        /\ m - 1 \in 0 .. Most /\ m \in 1 .. Most
    BY <1>2, <2>2, <2>3
  <2>5. m - 1 \notin Bad
    BY <2>1, <2>4
  <2>6. PowerOfTwo[i] <= PowerOfTwo[m - 1]
    BY <2>4, <2>5
  <2>7. PowerOfTwo[m] = 2 * PowerOfTwo[m - 1] /\ PowerOfTwo[m - 1] \in Nat
    BY <1>1, <2>4
  <2> HIDE DEF Bad
  <2> QED
    BY <2>2, <2>3, <2>6, <2>7
<1> QED
  BY <1>3, <1>4
-----------------------------------------------------------------------------
(* Every request stays within its attempts, and its pauses within the sum of *)
(* the powers up to its attempt.                                             *)

\* An attempt within the limit, after as many pauses as there were attempts
\* before it; before a pause that is the last one the limit has no whole number.
Paced(k) ==
  /\ k.phase = "ASK" =>
       /\ 2 * k.attempt <= k.limit /\ k.slept <= PowerOfTwo[k.attempt - 1] - 1
       /\ k.kind = "capture" => k.limit \in RetryLimits
  /\ k.phase = "SLEEP" =>
       2 * k.attempt + 1 <= k.limit /\ k.slept <= PowerOfTwo[k.attempt] - 1

AllPaced == \A r \in Requests : Paced(request[r])

Checking(k) == k.phase \in {"ASK", "DONE"} /\ k.kind = "health"

\* Only who asked for the health of the agent is told of it.
HealthAnswered == \A a \in answers : a.is \in Health => Checking(request[a.to[1]])

TInv == TypeOK /\ ConfigsHaveUsers /\ AllPaced /\ HealthAnswered

LEMMA RequestFields ==
  ASSUME NEW k \in Request
  PROVE  /\ k.phase = "ASK" =>
              /\ k.kind \in {"capture", "health"} /\ k.limit \in RetryLimits \cup {2}
              /\ k.attempt \in Attempts /\ k.slept \in Nat
         /\ k.phase = "SLEEP" =>
              /\ k.limit \in RetryLimits /\ k.attempt \in Attempts /\ k.slept \in Nat
              /\ k.error \in NetworkErrors
         /\ k.phase \in {"PUT", "SAVED"} => k.at \in 0 .. MaxNow
         /\ k.phase \in {"SAVE_CONFIG", "FIND_CONFIG", "DELETE_CONFIG"} => k.user \in Users
BY DEF Request

LEMMA AskRequest ==
  ASSUME NEW kind \in {"capture", "health"}, NEW limit \in RetryLimits \cup {2},
         NEW attempt \in Attempts, NEW slept \in Nat
  PROVE  [phase |-> "ASK", kind |-> kind, limit |-> limit, attempt |-> attempt,
          slept |-> slept] \in Request
BY DEF Request

LEMMA SleepRequest ==
  ASSUME NEW limit \in RetryLimits, NEW attempt \in Attempts, NEW slept \in Nat,
         NEW error \in NetworkErrors
  PROVE  [phase |-> "SLEEP", limit |-> limit, attempt |-> attempt, slept |-> slept,
          error |-> error] \in Request
BY DEF Request

LEMMA CaptureRequest ==
  ASSUME NEW limit \in RetryLimits, NEW attempt \in Attempts, NEW slept \in Nat,
         NEW outcome \in NetworkErrors \cup AgentErrors \cup {"IMAGE"}
  PROVE  [phase |-> "DONE", kind |-> "capture", limit |-> limit, attempt |-> attempt,
          slept |-> slept, outcome |-> outcome] \in Request
BY DEF Request

LEMMA HealthRequest ==
  ASSUME NEW outcome \in Health \cup {"unhealthy"}
  PROVE  [phase |-> "DONE", kind |-> "health", outcome |-> outcome] \in Request
BY DEF Request

LEMMA OtherRequests ==
  /\ \A p \in {"NEW", "KEY", "REFUSED", "CONFIGURED"} : [phase |-> p] \in Request
  /\ \A p \in {"PUT", "SAVED"}, t \in 0 .. MaxNow : [phase |-> p, at |-> t] \in Request
  /\ \A p \in {"SAVE_CONFIG", "FIND_CONFIG", "DELETE_CONFIG"}, u \in Users :
       [phase |-> p, user |-> u] \in Request
BY DEF Request

\* The attempts a limit leaves room for are attempts, and have their powers.
LEMMA AttemptsWithin ==
  /\ 1 \in Attempts /\ Attempts \subseteq Nat
  /\ \A i \in Attempts : i - 1 \in Nat /\ i - 1 \in 0 .. Most /\ i \in 0 .. Most
                         /\ PowerOfTwo[i] = 2 * PowerOfTwo[i - 1]
  /\ \A i \in Nat, n \in RetryLimits : i >= 1 /\ 2 * i <= n => i \in Attempts
<1>1. Most \in Nat /\ Most >= 2 /\ \A n \in RetryLimits : n \in Nat /\ n <= Most
  BY MostIsGreatest
<1>2. Most \div 2 \in Nat /\ 2 * (Most \div 2) <= Most /\ Most < 2 * (Most \div 2) + 2
  BY <1>1
<1>3. 1 \in Attempts /\ Attempts \subseteq Nat
  BY <1>1, <1>2 DEF Attempts
<1>4. \A i \in Attempts : i - 1 \in Nat /\ i - 1 \in 0 .. Most /\ i \in 1 .. Most /\ i \in 0 .. Most
  BY <1>1, <1>2 DEF Attempts
<1>5. \A i \in 1 .. Most : PowerOfTwo[i] = 2 * PowerOfTwo[i - 1]
  BY PowersDouble DEF Powers
<1>6. ASSUME NEW i \in Nat, NEW n \in RetryLimits, i >= 1, 2 * i <= n
      PROVE  i \in Attempts
  BY <1>1, <1>2, <1>6 DEF Attempts
<1> QED BY <1>3, <1>4, <1>5, <1>6

LEMMA PowersPositive == \A i \in 0 .. Most : PowerOfTwo[i] \in Nat /\ PowerOfTwo[i] >= 1
BY PowersDouble DEF Powers
-----------------------------------------------------------------------------
\* One request moves on, within its attempts, and stays a check of the agent's
\* health if it is one.
LEMMA Paces ==
  ASSUME TInv, NEW r \in Requests, NEW n \in Request, Becomes(r, n), Paced(n),
         Checking(request[r]) => Checking(n), answers' \subseteq answers
  PROVE  request' \in [Requests -> Request] /\ AllPaced' /\ HealthAnswered'
<1>1. request \in [Requests -> Request]
  BY DEF TInv, TypeOK
<1>2. /\ request' \in [Requests -> Request] /\ request'[r] = n
      /\ \A q \in Requests \ {r} : request'[q] = request[q]
  BY <1>1 DEF Becomes
<1>3. \A q \in Requests : Paced(request'[q])
  BY <1>2 DEF TInv, AllPaced
<1>4. \A q \in Requests : Checking(request[q]) => Checking(request'[q])
  BY <1>2
<1>5. \A a \in answers : a.to[1] \in Requests
  BY DEF TInv, TypeOK, Messages
<1>6. HealthAnswered'
  BY <1>4, <1>5 DEF TInv, HealthAnswered
<1> QED BY <1>2, <1>3, <1>6 DEF AllPaced

\* A request that leaves the agent to others.
LEMMA PacesElsewhere ==
  ASSUME TInv, NEW r \in Requests, NEW n \in Request, Becomes(r, n),
         request[r].phase \notin {"ASK", "DONE"}, n.phase \notin {"ASK", "SLEEP"},
         UNCHANGED network, now' = now, bucket' \in [0 .. MaxNow -> Requests \cup {None}],
         users' = users, configs' \subseteq users
  PROVE  TInv'
<1>1. request' \in [Requests -> Request] /\ AllPaced' /\ HealthAnswered'
  BY Paces DEF Paced, Checking, network
<1> QED BY <1>1 DEF TInv, TypeOK, ConfigsHaveUsers, network

\* A request that talks to the agent.
LEMMA PacesAsking ==
  ASSUME TInv, NEW r \in Requests, NEW n \in Request, Becomes(r, n), Paced(n),
         Checking(request[r]) => Checking(n), answers' \subseteq answers,
         wire' \subseteq Messages, UNCHANGED <<agent, taken, files, accounts>>
  PROVE  TInv'
<1>1. request' \in [Requests -> Request] /\ AllPaced' /\ HealthAnswered'
  BY Paces
<1> QED BY <1>1 DEF TInv, TypeOK, ConfigsHaveUsers, files, accounts

LEMMA FirstPaced ==
  ASSUME NEW kind \in {"capture", "health"}, NEW limit \in RetryLimits \cup {2},
         kind = "capture" => limit \in RetryLimits
  PROVE  Paced([phase |-> "ASK", kind |-> kind, limit |-> limit, attempt |-> 1, slept |-> 0])
<1>1. PowerOfTwo[1 - 1] = 1
  BY PowersDouble DEF Powers
<1>2. limit \in Nat /\ 2 <= limit
  BY MostIsGreatest
<1> QED BY <1>1, <1>2 DEF Paced

LEMMA BeginPaces == ASSUME TInv, NEW r \in Requests, Begin(r) PROVE TInv'
<1>1. /\ request[r].phase = "NEW" /\ ~Checking(request[r])
      /\ UNCHANGED <<agent, answers, taken, files, accounts>>
  BY DEF Begin, Capture, CheckHealth, Save, FindUser, Checking, network
<1>2. <<r, 1>> \in Messages /\ wire \subseteq Messages /\ wire \cup {<<r, 1>>} \subseteq Messages
  BY AttemptsWithin DEF TInv, TypeOK, Messages
<1>3. ASSUME NEW kind \in {"capture", "health"}, NEW limit \in RetryLimits \cup {2},
             kind = "capture" => limit \in RetryLimits, wire' = wire \cup {<<r, 1>>},
             Becomes(r, [phase |-> "ASK", kind |-> kind, limit |-> limit, attempt |-> 1,
                         slept |-> 0])
      PROVE  TInv'
  <2>1. PICK n : n = [phase |-> "ASK", kind |-> kind, limit |-> limit, attempt |-> 1, slept |-> 0]
    OBVIOUS
  <2>2. 1 \in Attempts /\ 0 \in Nat
    BY AttemptsWithin
  <2>3. n \in Request
    BY <2>1, <2>2, AskRequest
  <2>4. Paced(n)
    BY <1>3, <2>1, FirstPaced
  <2>5. Becomes(r, n)
    BY <1>3, <2>1
  <2> QED BY <1>1, <1>2, <1>3, <2>3, <2>4, <2>5, PacesAsking
<1>4. ASSUME NEW n \in Request, Becomes(r, n), n.phase \notin {"ASK", "SLEEP"}, UNCHANGED network
      PROVE  TInv'
  <2>1. now' = now /\ users' = users /\ configs' \subseteq users
        /\ bucket' \in [0 .. MaxNow -> Requests \cup {None}]
    BY <1>1 DEF TInv, TypeOK, ConfigsHaveUsers, files, accounts
  <2> QED BY <1>1, <1>4, <2>1, PacesElsewhere
<1>5. CASE \E limit \in RetryLimits : Capture(r, limit)
  BY <1>3, <1>5 DEF Capture
<1>6. CASE CheckHealth(r)
  BY <1>3, <1>6 DEF CheckHealth
<1>7. CASE Save(r)
  <2>1. PICK phase \in {"KEY", "REFUSED"} : Becomes(r, [phase |-> phase]) /\ UNCHANGED network
    BY <1>7 DEF Save
  <2>2. PICK n : n = [phase |-> phase]
    OBVIOUS
  <2> QED BY <1>4, <2>1, <2>2, OtherRequests
<1>8. ASSUME NEW u \in Users, FindUser(r, u) PROVE TInv'
  <2>1. PICK wanted \in {"SAVE_CONFIG", "FIND_CONFIG"} :
          \/ Becomes(r, [phase |-> wanted, user |-> u])
          \/ Becomes(r, [phase |-> "REFUSED"])
    BY <1>8 DEF FindUser
  <2>2. UNCHANGED network
    BY <1>8 DEF FindUser
  <2>3. CASE Becomes(r, [phase |-> wanted, user |-> u])
    <3>1. PICK n : n = [phase |-> wanted, user |-> u]
      OBVIOUS
    <3> QED BY <1>4, <2>2, <2>3, <3>1, OtherRequests
  <2>4. CASE Becomes(r, [phase |-> "REFUSED"])
    <3>1. PICK n : n = [phase |-> "REFUSED"]
      OBVIOUS
    <3> QED BY <1>4, <2>2, <2>4, <3>1, OtherRequests
  <2> QED BY <2>1, <2>3, <2>4
<1> QED BY <1>5, <1>6, <1>7, <1>8 DEF Begin

\* The end of a request that has asked: only a check of the agent's health is
\* told of it.
LEMMA FinishPaces ==
  ASSUME TInv, NEW r \in Requests, Asking(r),
         NEW outcome \in NetworkErrors \cup AgentErrors \cup Health \cup {"IMAGE"},
         outcome \in Health => Checking(request[r]), Finish(r, outcome),
         answers' \subseteq answers, wire' \subseteq wire,
         UNCHANGED <<agent, taken, files, accounts>>
  PROVE  TInv'
<1>1. request[r] \in Request /\ Paced(request[r]) /\ request[r].phase = "ASK"
  BY DEF TInv, TypeOK, AllPaced, Asking
<1>2. wire' \subseteq Messages
  BY DEF TInv, TypeOK
<1>3. CASE request[r].kind = "health"
  <2>1. PICK is \in Health \cup {"unhealthy"} :
          Becomes(r, [phase |-> "DONE", kind |-> "health", outcome |-> is])
    BY <1>3 DEF Finish
  <2>2. PICK n : n = [phase |-> "DONE", kind |-> "health", outcome |-> is]
    OBVIOUS
  <2>3. n \in Request /\ Paced(n) /\ Checking(n) /\ Becomes(r, n)
    BY <2>1, <2>2, HealthRequest DEF Paced, Checking
  <2> QED BY <1>2, <2>3, PacesAsking
<1>4. CASE request[r].kind # "health"
  <2>1. PICK n : n = [phase |-> "DONE", kind |-> "capture", limit |-> request[r].limit,
                      attempt |-> request[r].attempt, slept |-> request[r].slept,
                      outcome |-> outcome]
    OBVIOUS
  <2>2. Becomes(r, n)
    BY <1>4, <2>1 DEF Finish
  <2>3. /\ request[r].limit \in RetryLimits /\ request[r].attempt \in Attempts
        /\ request[r].slept \in Nat
    BY <1>1, <1>4, RequestFields DEF Paced
  <2>4. outcome \in NetworkErrors \cup AgentErrors \cup {"IMAGE"} /\ ~Checking(request[r])
    BY <1>4 DEF Checking
  <2>5. n \in Request
    BY <2>1, <2>3, <2>4, CaptureRequest
  <2>6. Paced(n)
    BY <2>1 DEF Paced
  <2> QED BY <1>2, <2>2, <2>4, <2>5, <2>6, PacesAsking
<1> QED BY <1>3, <1>4

\* A failure is followed by twice the pause the one before it was.
LEMMA FailPaces ==
  ASSUME TInv, NEW r \in Requests, Asking(r), NEW error \in NetworkErrors, Fails(r, error),
         answers' \subseteq answers, wire' \subseteq wire,
         UNCHANGED <<agent, taken, files, accounts>>
  PROVE  TInv'
<1>1. request[r] \in Request /\ Paced(request[r]) /\ request[r].phase = "ASK"
  BY DEF TInv, TypeOK, AllPaced, Asking
<1>2. CASE Finish(r, error)
  BY <1>2, FinishPaces DEF Health, NetworkErrors
<1>3. CASE ~Finish(r, error)
  <2> DEFINE k == request[r]
  <2>1. k.kind # "health" /\ 2 * k.attempt # k.limit
    BY <1>3 DEF Fails
  <2>2. PICK n : n = [phase |-> "SLEEP", limit |-> k.limit, attempt |-> k.attempt,
                      slept |-> k.slept + PowerOfTwo[k.attempt - 1], error |-> error]
    OBVIOUS
  <2>3. Becomes(r, n)
    BY <1>3, <2>2 DEF Fails, Backoff
  <2>4. /\ k.limit \in RetryLimits /\ k.attempt \in Attempts /\ k.slept \in Nat
        /\ k.limit \in Nat /\ k.attempt \in Nat /\ 2 * k.attempt <= k.limit
        /\ k.slept <= PowerOfTwo[k.attempt - 1] - 1
    BY <1>1, <2>1, RequestFields, MostIsGreatest, AttemptsWithin DEF Paced
  <2>5. /\ PowerOfTwo[k.attempt - 1] \in Nat
        /\ PowerOfTwo[k.attempt] = 2 * PowerOfTwo[k.attempt - 1]
    BY <2>4, AttemptsWithin, PowersPositive
  <2> HIDE DEF k
  <2>6. /\ 2 * k.attempt + 1 <= k.limit
        /\ k.slept + PowerOfTwo[k.attempt - 1] \in Nat
        /\ k.slept + PowerOfTwo[k.attempt - 1] <= PowerOfTwo[k.attempt] - 1
    BY <2>1, <2>4, <2>5
  <2>7. n \in Request
    BY <2>2, <2>4, <2>6, SleepRequest
  <2>8. Paced(n)
    BY <2>2, <2>6 DEF Paced
  <2>9. ~Checking(request[r]) /\ wire' \subseteq Messages
    BY <2>1 DEF Checking, TInv, TypeOK, k
  <2> QED BY <2>3, <2>7, <2>8, <2>9, PacesAsking
<1> QED BY <1>2, <1>3

LEMMA AskingPaces ==
  ASSUME TInv, NEW r \in Requests, TimesOut(r) \/ Disconnected(r) \/ Receives(r)
  PROVE  TInv'
<1>1. CASE TimesOut(r)
  BY <1>1, FailPaces DEF TimesOut, network, NetworkErrors
<1>2. CASE Disconnected(r)
  BY <1>2, FailPaces DEF Disconnected, NetworkErrors
<1>3. CASE Receives(r)
  <2>1. PICK a \in answers : a.to = Pending(r) /\ Finish(r, a.is) /\ answers' = answers \ {a}
    BY <1>3 DEF Receives
  <2>2. a.is \in AgentErrors \cup Health \cup {"IMAGE"}
    BY DEF TInv, TypeOK
  <2>3. a.is \in Health => Checking(request[r])
    BY <2>1 DEF TInv, HealthAnswered, Pending
  <2> QED BY <1>3, <2>1, <2>2, <2>3, FinishPaces DEF Receives
<1> QED BY <1>1, <1>2, <1>3

\* The next attempt is within the limit, or there is none.
LEMMA WakesPaces == ASSUME TInv, NEW r \in Requests, Wakes(r) PROVE TInv'
<1> DEFINE k == request[r]
           next == k.attempt + 1
<1>1. /\ k \in Request /\ Paced(k) /\ k.phase = "SLEEP" /\ ~Checking(request[r])
      /\ UNCHANGED <<agent, answers, taken, files, accounts>> /\ wire \subseteq Messages
  BY DEF TInv, TypeOK, AllPaced, Wakes, Checking
<1>2. /\ k.limit \in RetryLimits /\ k.attempt \in Attempts /\ k.slept \in Nat
      /\ k.error \in NetworkErrors /\ k.limit \in Nat /\ k.attempt \in Nat
      /\ k.slept <= PowerOfTwo[k.attempt] - 1
  BY <1>1, RequestFields, MostIsGreatest, AttemptsWithin DEF Paced
<1>3. CASE 2 * next <= k.limit
  <2>1. next \in Attempts /\ next - 1 = k.attempt
    BY <1>2, <1>3, AttemptsWithin
  <2>2. PICK n : n = [phase |-> "ASK", kind |-> "capture", limit |-> k.limit,
                      attempt |-> next, slept |-> k.slept]
    OBVIOUS
  <2>3. Becomes(r, n) /\ wire' = wire \cup {<<r, next>>}
    BY <1>3, <2>2 DEF Wakes
  <2> HIDE DEF k, next
  <2>4. n \in Request
    BY <1>2, <2>1, <2>2, AskRequest
  <2>5. Paced(n)
    BY <1>2, <1>3, <2>1, <2>2 DEF Paced
  <2>6. wire' \subseteq Messages
    BY <1>1, <2>1, <2>3 DEF Messages
  <2> QED BY <1>1, <2>3, <2>4, <2>5, <2>6, PacesAsking
<1>4. CASE ~(2 * next <= k.limit)
  <2>1. PICK n : n = [phase |-> "DONE", kind |-> "capture", limit |-> k.limit,
                      attempt |-> k.attempt, slept |-> k.slept, outcome |-> k.error]
    OBVIOUS
  <2>2. Becomes(r, n) /\ wire' = wire
    BY <1>4, <2>1 DEF Wakes
  <2> HIDE DEF k, next
  <2>3. n \in Request
    BY <1>2, <2>1, CaptureRequest
  <2>4. Paced(n)
    BY <2>1 DEF Paced
  <2> QED BY <1>1, <2>2, <2>3, <2>4, PacesAsking
<1> QED BY <1>3, <1>4

\* Images and configurations: a key is of an instant, and a configuration is
\* written while its user is there.
LEMMA SavePaces == ASSUME TInv, NEW r \in Requests, ChooseKey(r) \/ Put(r) PROVE TInv'
<1>1. /\ request[r] \in Request /\ now \in 0 .. MaxNow /\ configs \subseteq users
      /\ bucket \in [0 .. MaxNow -> Requests \cup {None}]
  BY DEF TInv, TypeOK, ConfigsHaveUsers
<1>2. /\ request[r].phase \in {"KEY", "PUT"} /\ UNCHANGED network /\ now' = now
      /\ users' = users /\ configs' = configs
  BY DEF ChooseKey, Put, files, accounts
<1>3. CASE ChooseKey(r)
  <2>1. PICK n : n = [phase |-> "PUT", at |-> now]
    OBVIOUS
  <2>2. Becomes(r, n) /\ bucket' = bucket
    BY <1>3, <2>1 DEF ChooseKey, files
  <2>3. n \in Request /\ n.phase = "PUT"
    BY <1>1, <2>1, OtherRequests
  <2> QED BY <1>1, <1>2, <2>2, <2>3, PacesElsewhere
<1>4. CASE Put(r)
  <2>1. request[r].at \in 0 .. MaxNow
    BY <1>1, <1>4, RequestFields DEF Put
  <2>2. PICK n : /\ Becomes(r, n)
                 /\ n \in {[phase |-> "SAVED", at |-> request[r].at], [phase |-> "REFUSED"]}
                 /\ bucket' \in {bucket, [bucket EXCEPT ![Key(request[r].at)] = r]}
    BY <1>4 DEF Put
  <2>3. n \in Request /\ n.phase \in {"SAVED", "REFUSED"}
    BY <2>1, <2>2, OtherRequests
  <2>4. bucket' \in [0 .. MaxNow -> Requests \cup {None}]
    BY <1>1, <2>2
  <2> QED BY <1>1, <1>2, <2>2, <2>3, <2>4, PacesElsewhere
<1> QED BY <1>3, <1>4

LEMMA ConfigPaces ==
  ASSUME TInv, NEW r \in Requests, Upsert(r) \/ FindConfig(r) \/ DeleteConfig(r)
  PROVE  TInv'
<1>1. /\ request[r] \in Request /\ configs \subseteq users
      /\ bucket \in [0 .. MaxNow -> Requests \cup {None}]
  BY DEF TInv, TypeOK, ConfigsHaveUsers
<1>2. /\ request[r].phase \in {"SAVE_CONFIG", "FIND_CONFIG", "DELETE_CONFIG"}
      /\ UNCHANGED network /\ now' = now /\ bucket' = bucket /\ users' = users
  BY DEF Upsert, FindConfig, DeleteConfig, files, accounts
<1>3. request[r].user \in Users
  BY <1>1, <1>2, RequestFields
<1>4. configs' \subseteq users
  BY <1>1 DEF Upsert, FindConfig, DeleteConfig, accounts
<1>5. PICK n : /\ Becomes(r, n)
               /\ n \in {[phase |-> "CONFIGURED"], [phase |-> "REFUSED"],
                         [phase |-> "DELETE_CONFIG", user |-> request[r].user]}
  BY DEF Upsert, FindConfig, DeleteConfig
<1>6. n \in Request /\ n.phase \in {"CONFIGURED", "REFUSED", "DELETE_CONFIG"}
  BY <1>3, <1>5, OtherRequests
<1> QED BY <1>1, <1>2, <1>4, <1>5, <1>6, PacesElsewhere

\* What the agent does leaves the requests; it tells of its health who asked.
LEMMA AgentPaces ==
  ASSUME TInv, UNCHANGED <<request, files, accounts>>, wire' \subseteq Messages,
         taken' \subseteq Messages,
         agent' \in [up : BOOLEAN, plugged : BOOLEAN, scan : Messages \cup {None}],
         \A a \in answers' :
           \/ a \in answers
           \/ /\ a \in [to : Messages, is : AgentErrors \cup Health \cup {"IMAGE"}]
              /\ a.is \in Health => Checking(request[a.to[1]])
  PROVE  TInv'
<1>1. answers' \subseteq [to : Messages, is : AgentErrors \cup Health \cup {"IMAGE"}]
  BY DEF TInv, TypeOK
<1>2. HealthAnswered' /\ AllPaced' /\ ConfigsHaveUsers'
  BY DEF TInv, HealthAnswered, AllPaced, ConfigsHaveUsers, accounts
<1>3. /\ request' \in [Requests -> Request] /\ now' \in 0 .. MaxNow
      /\ bucket' \in [0 .. MaxNow -> Requests \cup {None}]
      /\ users' \subseteq Users /\ configs' \subseteq Users
  BY DEF TInv, TypeOK, files, accounts
<1> QED BY <1>1, <1>2, <1>3 DEF TInv, TypeOK

LEMMA AgentStepPaces == ASSUME TInv, Agent PROVE TInv'
<1>1. /\ agent \in [up : BOOLEAN, plugged : BOOLEAN, scan : Messages \cup {None}]
      /\ wire \subseteq Messages /\ taken \subseteq Messages
  BY DEF TInv, TypeOK
<1>2. UNCHANGED <<request, files, accounts>>
  BY DEF Agent, AgentScans, AgentStops, AgentStarts, ReaderMoves, AgentTakes
<1>3. ASSUME NEW m \in wire, AgentTakes(m) PROVE TInv'
  <2>1. m \in Messages /\ wire' \subseteq Messages /\ taken' \subseteq Messages
    BY <1>1, <1>3 DEF AgentTakes
  <2>2. KindOf(m) = "health" => Checking(request[m[1]])
    BY DEF KindOf, Checking, Asking
  <2>3. ASSUME NEW is \in AgentErrors \cup Health, Answer(m, is), UNCHANGED agent,
               is \in Health => KindOf(m) = "health"
        PROVE  TInv'
    <3>1. [to |-> m, is |-> is] \in [to : Messages, is : AgentErrors \cup Health \cup {"IMAGE"}]
      BY <2>1
    <3>2. \A a \in answers' : a \in answers \/ (a = [to |-> m, is |-> is])
      BY <2>3 DEF Answer
    <3>3. is \in Health => Checking(request[[to |-> m, is |-> is].to[1]])
      BY <2>2, <2>3
    <3>4. agent' \in [up : BOOLEAN, plugged : BOOLEAN, scan : Messages \cup {None}]
      BY <1>1, <2>3
    <3> QED BY <1>2, <2>1, <3>1, <3>2, <3>3, <3>4, AgentPaces
  <2>4. CASE KindOf(m) = "health"
    BY <1>3, <2>3, <2>4 DEF AgentTakes, Health
  <2>5. CASE KindOf(m) = "capture" /\ ~agent.plugged
    BY <1>3, <2>3, <2>5 DEF AgentTakes, Health, AgentErrors
  <2>6. CASE KindOf(m) = "capture" /\ agent.plugged /\ agent.scan # None
    BY <1>3, <2>3, <2>6 DEF AgentTakes, Health, AgentErrors
  <2>7. CASE KindOf(m) = "capture" /\ agent.plugged /\ agent.scan = None
    <3>1. agent' = [agent EXCEPT !.scan = m] /\ answers' = answers
      BY <1>3, <2>7 DEF AgentTakes
    <3>2. agent' \in [up : BOOLEAN, plugged : BOOLEAN, scan : Messages \cup {None}]
      BY <1>1, <2>1, <3>1
    <3> QED BY <1>2, <2>1, <3>1, <3>2, AgentPaces
  <2> QED BY <1>3, <2>4, <2>5, <2>6, <2>7 DEF AgentTakes
<1>4. CASE AgentScans
  <2>1. PICK m \in Messages : m = agent.scan
    BY <1>1, <1>4 DEF AgentScans
  <2>2. PICK is \in {"IMAGE", "CAPTURE_TIMEOUT", "DEVICE_NOT_CONNECTED"} :
          answers' = answers \cup {[to |-> m, is |-> is]}
    BY <1>4, <2>1 DEF AgentScans, Answer
  <2>3. /\ agent' \in [up : BOOLEAN, plugged : BOOLEAN, scan : Messages \cup {None}]
        /\ wire' \subseteq Messages /\ taken' \subseteq Messages
    BY <1>1, <1>4, <2>1 DEF AgentScans
  <2>4. /\ [to |-> m, is |-> is] \in [to : Messages, is : AgentErrors \cup Health \cup {"IMAGE"}]
        /\ is \notin Health
    BY DEF AgentErrors, Health
  <2>5. \A a \in answers' : a \in answers \/ (a = [to |-> m, is |-> is] /\ a.is = is)
    BY <2>2
  <2> QED BY <1>2, <2>3, <2>4, <2>5, AgentPaces
<1>5. CASE AgentStops \/ AgentStarts \/ ReaderMoves
  <2>1. /\ agent' \in [up : BOOLEAN, plugged : BOOLEAN, scan : Messages \cup {None}]
        /\ wire' \subseteq Messages /\ taken' \subseteq Messages /\ answers' \subseteq answers
    BY <1>1, <1>5 DEF AgentStops, AgentStarts, ReaderMoves
  <2> QED BY <1>2, <2>1, AgentPaces
<1> QED BY <1>3, <1>4, <1>5 DEF Agent

LEMMA OtherPaces ==
  ASSUME TInv, Tick \/ (\E u \in Users : RemoveUser(u)) \/ UNCHANGED vars
  PROVE  TInv'
<1>1. UNCHANGED <<request, agent, wire, answers, taken, bucket>>
  BY DEF Tick, RemoveUser, vars, network, files
<1>2. now' \in 0 .. MaxNow
  BY MaxNowAssumption DEF Tick, RemoveUser, vars, files, TInv, TypeOK
<1>3. users' \subseteq Users /\ configs' \subseteq users'
  BY DEF Tick, RemoveUser, vars, accounts, TInv, TypeOK, ConfigsHaveUsers
<1>4. AllPaced' /\ HealthAnswered'
  BY <1>1 DEF TInv, AllPaced, HealthAnswered
<1> QED BY <1>1, <1>2, <1>3, <1>4 DEF TInv, TypeOK, ConfigsHaveUsers

\* Attempts and pauses stay within the limit.
THEOREM AttemptsInvariant == Spec => []TInv
<1>1. Init => TInv
  <2> SUFFICES ASSUME Init PROVE TInv
    OBVIOUS
  <2>1. TypeOK
    BY MaxNowAssumption, OtherRequests DEF Init, TypeOK
  <2>2. ConfigsHaveUsers /\ AllPaced /\ HealthAnswered
    BY DEF Init, ConfigsHaveUsers, AllPaced, HealthAnswered, Paced
  <2> QED BY <2>1, <2>2 DEF TInv
<1>2. TInv /\ [Next]_vars => TInv'
  <2> SUFFICES ASSUME TInv, [Next]_vars PROVE TInv'
    OBVIOUS
  <2>1. ASSUME NEW r \in Requests, Begin(r) \/ Serve(r) \/ Receives(r) \/ Disconnected(r)
        PROVE  TInv'
    BY <2>1, BeginPaces, AskingPaces, WakesPaces, SavePaces, ConfigPaces DEF Serve
  <2> QED BY <2>1, AgentStepPaces, OtherPaces DEF Next
<1> QED BY <1>1, <1>2, PTL DEF Spec

\* No attempt goes beyond its limit, no capture is answered with the agent's
\* health, and configurations have their users.
THEOREM AttemptsWithinLimits == Spec => []SchemaKept
<1>1. TInv => SchemaKept
  BY DEF TInv, SchemaKept
<1> QED BY <1>1, AttemptsInvariant, PTL

\* The pauses of a request double, and their sum stays below the power of the
\* last attempt, for every limit, whole or not.
THEOREM PausesStayBounded == Spec => []PausesBounded
<1>1. ASSUME TInv, NEW r \in Requests, request[r].phase \in {"ASK", "SLEEP"}
      PROVE  request[r].slept <= PowerOfTwo[(request[r].limit + 1) \div 2 - 1] - 1
  <2> DEFINE k == request[r]
             last == (k.limit + 1) \div 2 - 1
  <2>1. k \in Request /\ Paced(k)
    BY <1>1 DEF TInv, TypeOK, AllPaced
  <2>2. /\ k.limit \in Nat /\ k.limit >= 2 /\ k.limit <= Most /\ Most \in Nat
        /\ k.attempt \in Attempts /\ k.attempt \in Nat /\ k.slept \in Nat
    <3>1. k.limit \in RetryLimits \cup {2} /\ k.attempt \in Attempts /\ k.slept \in Nat
      BY <1>1, <2>1, RequestFields
    <3>2. \A n \in RetryLimits \cup {2} : n \in Nat /\ n >= 2 /\ n <= Most
      BY MostIsGreatest
    <3>3. k.attempt \in Nat
      BY <3>1, AttemptsWithin
    <3> QED BY <3>1, <3>2, <3>3, MostIsGreatest
  <2>3. PICK i \in 0 .. Most : k.slept <= PowerOfTwo[i] - 1 /\ 2 * (i + 1) <= k.limit + 1
    <3>1. CASE k.phase = "ASK"
      <4>1. k.attempt - 1 \in 0 .. Most
        BY <2>2, AttemptsWithin
      <4>2. k.slept <= PowerOfTwo[k.attempt - 1] - 1 /\ 2 * k.attempt <= k.limit
        BY <2>1, <3>1 DEF Paced
      <4>3. 2 * ((k.attempt - 1) + 1) <= k.limit + 1
        BY <2>2, <4>2
      <4> QED BY <4>1, <4>2, <4>3
    <3>2. CASE k.phase = "SLEEP"
      <4>1. k.attempt \in 0 .. Most
        BY <2>2, AttemptsWithin
      <4>2. k.slept <= PowerOfTwo[k.attempt] - 1 /\ 2 * k.attempt + 1 <= k.limit
        BY <2>1, <3>2 DEF Paced
      <4>3. 2 * (k.attempt + 1) <= k.limit + 1
        BY <2>2, <4>2
      <4> QED BY <4>1, <4>2, <4>3
    <3> QED BY <1>1, <3>1, <3>2
  <2> HIDE DEF k
  <2>4. last \in 0 .. Most /\ i <= last
    BY <2>2, <2>3
  <2>5. PowerOfTwo[i] \in Nat /\ PowerOfTwo[last] \in Nat /\ PowerOfTwo[i] <= PowerOfTwo[last]
    BY <2>4, PowersGrow, PowersPositive
  <2> HIDE DEF last
  <2>6. k.slept <= PowerOfTwo[last] - 1
    BY <2>2, <2>3, <2>5
  <2> QED BY <2>6 DEF k, last
<1>2. TInv => PausesBounded
  BY <1>1 DEF PausesBounded
<1> QED BY <1>2, AttemptsInvariant, PTL
-----------------------------------------------------------------------------
(* The files of the people whose fingerprints these are (PersonnelFiles).    *)
(*                                                                           *)
(* An update is known by the statements it has left.  It clears a list and   *)
(* fills it in the next statement, so that whenever a list that was given is *)
(* empty some update is at the statement that fills it, which cannot fail    *)
(* while the guard is there (Refilled).  An update that runs alone has made  *)
(* the parts it is through with its own and left the others (InStep).        *)

\* What holds of the order of statements: a part is written by one, or cleared
\* and then filled.
OrderOK ==
  /\ \A i \in 1 .. 9 :
       /\ Order[i] = <<Order[i][1], Order[i][2]>> /\ Order[i][2] \in Parts
       /\ Order[i][1] \in {"write", "clear", "insert"}
       /\ Order[i][2] = "main" <=> i = 1
       /\ Order[i][1] = "write" <=> Order[i][2] \notin Lists
       /\ Order[i][1] = "clear" => i + 1 \in 1 .. 9 /\ Order[i + 1] = <<"insert", Order[i][2]>>
       /\ Order[i][1] = "insert" => i - 1 \in 1 .. 9 /\ Order[i - 1] = <<"clear", Order[i][2]>>
  /\ \A q \in Parts : \E i \in 1 .. 9 : Order[i][2] = q /\ Order[i][1] \in {"write", "insert"}
  /\ \A i, j \in 1 .. 9 :
       Order[i][2] = Order[j][2] =>
         i = j \/ (Order[i][1] = "clear" /\ j = i + 1) \/ (Order[j][1] = "clear" /\ i = j + 1)

LEMMA OrderHolds == OrderOK
<1> DEFINE Pair(i, a, q) == Order[i] = <<a, q>> /\ Order[i][1] = a /\ Order[i][2] = q
<1>1. /\ Pair(1, "write", "main")
      /\ Pair(2, "write", "academic") /\ Pair(3, "write", "drivingLicense")
      /\ Pair(4, "write", "bankAccount") /\ Pair(5, "write", "biometric")
      /\ Pair(6, "clear", "experience") /\ Pair(7, "insert", "experience")
      /\ Pair(8, "clear", "references") /\ Pair(9, "insert", "references")
  BY DEF Order
<1>2. \A i \in 1 .. 9 : i \in {1, 2, 3, 4, 5, 6, 7, 8, 9}
  OBVIOUS
<1>3. \A i \in 1 .. 9 :
       /\ Order[i] = <<Order[i][1], Order[i][2]>> /\ Order[i][2] \in Parts
       /\ Order[i][1] \in {"write", "clear", "insert"}
       /\ Order[i][2] = "main" <=> i = 1
       /\ Order[i][1] = "write" <=> Order[i][2] \notin Lists
  BY <1>1, <1>2 DEF Parts, Forms, Lists
<1>4. \A i \in 1 .. 9 :
       Order[i][1] = "clear" => i + 1 \in 1 .. 9 /\ Order[i + 1] = <<"insert", Order[i][2]>>
  BY <1>1, <1>2
<1>5. \A i \in 1 .. 9 :
       Order[i][1] = "insert" => i - 1 \in 1 .. 9 /\ Order[i - 1] = <<"clear", Order[i][2]>>
  BY <1>1, <1>2
<1>6. \A q \in Parts : \E i \in 1 .. 9 : Order[i][2] = q /\ Order[i][1] \in {"write", "insert"}
  <2>1. /\ {1, 2, 3, 4, 5, 7, 9} \subseteq 1 .. 9
        /\ \A q \in Parts : q \in {"main", "academic", "drivingLicense", "bankAccount", "biometric",
                                   "experience", "references"}
    BY DEF Parts, Forms, Lists
  <2> QED BY <1>1, <2>1
<1>7. \A i, j \in 1 .. 9 :
       Order[i][2] = Order[j][2] =>
         i = j \/ (Order[i][1] = "clear" /\ j = i + 1) \/ (Order[j][1] = "clear" /\ i = j + 1)
  BY <1>1, <1>2
<1> QED BY <1>3, <1>4, <1>5, <1>6, <1>7 DEF OrderOK
-----------------------------------------------------------------------------
\* A set of numbers that has a member has a least one.
LEMMA LeastNumber ==
  ASSUME NEW B \in SUBSET Nat, B # {}
  PROVE  \E m \in B : \A k \in B : m <= k
<1>1. PICK m \in B : \A k \in B : ~ (<<k, m>> \in OpToRel(<, Nat))
  BY NatLessThanWellFounded, WFMin
<1>2. \A k \in B : k \in Nat /\ m \in Nat /\ ~(k < m)
  BY <1>1 DEF OpToRel
<1> QED
  BY <1>2

\* And a greatest one if it has a bound: the one nearest to the bound.
LEMMA GreatestNumber ==
  ASSUME NEW n \in Nat, NEW B \in SUBSET (0 .. n), B # {}
  PROVE  \E m \in B : \A k \in B : k <= m
<1> DEFINE D == {d \in Nat : n - d \in B}
<1>1. PICK b \in B : TRUE
  OBVIOUS
<1>2. b \in Int /\ n - b \in Nat /\ n - (n - b) = b
  BY <1>1
<1>3. n - b \in D
  BY <1>1, <1>2
<1>4. PICK d \in D : \A k \in D : d <= k
  BY <1>3, LeastNumber
<1>5. d \in Nat /\ n - d \in B
  BY <1>4
<1>6. ASSUME NEW k \in B PROVE k <= n - d
  <2>1. k \in Int /\ n - k \in Nat /\ n - (n - k) = k
    BY <1>6
  <2>2. n - k \in D
    BY <1>6, <2>1
  <2>3. d <= n - k
    BY <1>4, <2>2
  <2> QED BY <1>5, <2>1, <2>3
<1> QED BY <1>5, <1>6

\* The next number is within the bound of requests.
LEMMA HighestIsNumber ==
  ASSUME Constants, FilesTypeOK, NEW t \in Tables, NEW o
  PROVE  Highest(t, o) \in 0 .. MaxNumber /\ Highest(t, o) + 1 \in 1 .. MaxNumber + 1
<1> DEFINE B == {0} \cup NumbersOf(t, o)
<1>1. NumbersOf(t, o) \subseteq 0 .. MaxNumber
  <2>1. ASSUME NEW q \in Persons, Present(t, q) PROVE file[t][q].number \in 0 .. MaxNumber
    <3>1. file[t][q] \in {Unused, Gone} \cup Kept
      BY DEF FilesTypeOK
    <3>2. file[t][q] \in Kept
      BY <2>1, <3>1 DEF Present, Unused, Gone
    <3> QED BY <3>2 DEF Kept, Numbers, Constants
  <2> QED BY <2>1 DEF NumbersOf
<1>2. B \in SUBSET (0 .. MaxNumber) /\ B # {} /\ MaxNumber \in Nat
  BY <1>1 DEF Constants
<1>3. \E m \in B : \A k \in B : k <= m
  BY <1>2, GreatestNumber
<1>4. Highest(t, o) \in B
  BY <1>3 DEF Highest
<1>5. Highest(t, o) \in 0 .. MaxNumber
  BY <1>2, <1>4
<1> QED BY <1>2, <1>5

\* A file that is there has columns.
LEMMA PresentFiles ==
  ASSUME FilesTypeOK, NEW t \in Tables, NEW p \in Persons
  PROVE  /\ Present(t, p) <=> file[t][p] \in Kept
         /\ Present(t, p) => file[t][p] # Unused /\ file[t][p] # Gone
<1>1. file[t][p] \in {Unused, Gone} \cup Kept
  BY DEF FilesTypeOK
<1>2. Unused.status # "KEPT" /\ Gone.status # "KEPT"
  BY DEF Unused, Gone
<1>3. \A f \in Kept : f.status = "KEPT"
  BY DEF Kept
<1> QED BY <1>1, <1>2, <1>3 DEF Present

\* What requests carry.
LEMMA CallFields ==
  ASSUME NEW k \in Call
  PROVE  /\ k.op \in {"idle", "create", "upload", "import", "update"}
         /\ k.op = "create" =>
              /\ k.table \in Tables /\ k.org \in Organizations /\ k.person \in Persons
              /\ k.number \in 1 .. MaxNumber + 1 /\ k.parts \subseteq Parts
         /\ k.op = "upload" => k.table \in Tables /\ k.org \in Organizations /\ k.rows \subseteq Row
         /\ k.op = "import" =>
              /\ k.org \in Organizations /\ k.rows \subseteq Row /\ k.left \subseteq Row
              /\ k.inserted \subseteq Row
         /\ k.op = "update" =>
              /\ k.table \in Tables /\ k.person \in Persons /\ k.edition \in 1 .. MaxEditions
              /\ k.number \in Numbers \cup {NoNumber} /\ k.parts \subseteq Parts
              /\ k.todo \in SUBSET (1 .. 9)
BY DEF Call, Idle

\* The first of the statements left is one of them.
LEMMA FirstIsFirst ==
  ASSUME NEW u, u.todo \in SUBSET (1 .. 9), u.todo # {}
  PROVE  First(u) \in u.todo /\ First(u) \in 1 .. 9 /\ \A j \in u.todo : First(u) <= j
<1>1. u.todo \in SUBSET Nat
  OBVIOUS
<1>2. \E i \in u.todo : \A j \in u.todo : i <= j
  BY <1>1, LeastNumber
<1>3. First(u) \in u.todo /\ \A j \in u.todo : First(u) <= j
  BY <1>2 DEF First
<1> QED BY <1>3

\* What a statement makes of a file.
LEMMA ChangedFile ==
  ASSUME Constants, NEW f \in Kept, NEW u \in Call, u.op = "update", First(u) \in 1 .. 9
  PROVE  LET s == Order[First(u)] IN
         /\ Changed(f, u) \in Kept /\ Changed(f, u).org = f.org
         /\ Changed(f, u).number = IF s[2] = "main" /\ u.number # NoNumber THEN u.number ELSE f.number
         /\ \A q \in Parts : Changed(f, u).parts[q] = IF q = s[2] THEN Content(f, u) ELSE f.parts[q]
         /\ s[1] = "write" => Content(f, u) = {u.edition}
         /\ s[1] = "insert" => Content(f, u) = f.parts[s[2]] \cup {u.edition}
         /\ s[1] = "clear" /\ u.table = "guard" => Content(f, u) = {}
<1> PICK i \in 1 .. 9 : i = First(u)
  OBVIOUS
<1> PICK s : s = Order[i]
  OBVIOUS
<1>1. /\ s = <<s[1], s[2]>> /\ s[2] \in Parts /\ s[1] \in {"write", "clear", "insert"}
  BY OrderHolds DEF OrderOK
<1>2. Upcoming(u) = s
  BY DEF Upcoming
<1>3. u.edition \in 0 .. MaxEditions /\ u.number \in Numbers \cup {NoNumber}
  BY CallFields DEF Constants
<1>4. /\ f.parts \in [Parts -> SUBSET (0 .. MaxEditions)] /\ f.number \in Numbers
      /\ f.org \in Organizations /\ f.status = "KEPT"
  BY DEF Kept, Contents
<1>5. /\ s[1] = "write" => Content(f, u) = {u.edition}
      /\ s[1] = "insert" => Content(f, u) = f.parts[s[2]] \cup {u.edition}
      /\ s[1] = "clear" /\ u.table = "guard" => Content(f, u) = {}
      /\ Content(f, u) \in {{u.edition}, f.parts[s[2]] \cup {u.edition}, f.parts[s[2]], {}}
  BY <1>1, <1>2 DEF Content
<1>6. Content(f, u) \in SUBSET (0 .. MaxEditions)
  <2>1. f.parts[s[2]] \in SUBSET (0 .. MaxEditions)
    BY <1>1, <1>4
  <2> QED BY <1>3, <1>5, <2>1
<1>7. PICK x : x = Content(f, u)
  OBVIOUS
<1>8. PICK n : n = IF s[2] = "main" /\ u.number # NoNumber THEN u.number ELSE f.number
  OBVIOUS
<1>9. PICK parts : parts = [f.parts EXCEPT ![s[2]] = x]
  OBVIOUS
<1>10. /\ parts \in Contents
       /\ \A q \in Parts : parts[q] = IF q = s[2] THEN x ELSE f.parts[q]
  BY <1>1, <1>4, <1>6, <1>7, <1>9 DEF Contents
<1>11. Changed(f, u) = [f EXCEPT !.parts = parts, !.number = n]
  BY <1>2, <1>7, <1>8, <1>9 DEF Changed, Kept
<1>12. n \in Numbers
  BY <1>3, <1>4, <1>8
<1>13. PICK g : g = [f EXCEPT !.parts = parts, !.number = n]
  OBVIOUS
<1>14. g \in Kept /\ g.org = f.org /\ g.number = n /\ g.parts = parts
  BY <1>4, <1>10, <1>12, <1>13 DEF Kept
<1> QED BY <1>5, <1>7, <1>8, <1>10, <1>11, <1>13, <1>14
-----------------------------------------------------------------------------
(* The invariant.                                                            *)

\* An update has run its statements up to one of them, and has that left.
Progress(u) ==
  /\ "main" \in u.parts /\ u.todo # {} /\ u.todo \subseteq Statements(u.parts)
  /\ \A i \in Statements(u.parts), j \in u.todo : j <= i => i \in u.todo

RequestsFine ==
  \A c \in Callers :
    /\ call[c].op = "upload" => Distinct(call[c].rows) /\ call[c].rows # {}
    /\ call[c].op = "update" =>
         /\ Progress(call[c]) /\ file[call[c].table][call[c].person] # Unused
         /\ call[c].table = "employee" => call[c].number = NoNumber

\* What update u, that runs alone, has made of the parts, which d gives as they
\* were before: those it has not come to are the same, those it is through with
\* are its own, and a list in between is empty.
InStep(u, parts, d) ==
  /\ \A q \in Parts \ u.parts : parts[q] = d[q]
  /\ \A i \in 1 .. 9 :
       LET s == Order[i] IN
         s[2] \in u.parts =>
           /\ s[1] \in {"write", "clear"} /\ i \in u.todo => parts[s[2]] = d[s[2]]
           /\ s[1] \in {"write", "insert"} /\ i \notin u.todo => parts[s[2]] = {u.edition}
           /\ s[1] = "clear" /\ i \notin u.todo /\ i + 1 \in u.todo /\ u.table = "guard" =>
                parts[s[2]] = {}

\* A file that was not torn has one update at most, and is as that left it.
Whole(t, p) ==
  Present(t, p) /\ <<t, p>> \notin torn =>
    /\ \A c, d \in Updates(t, p) : c = d
    /\ Updates(t, p) = {} => file[t][p].parts = due[t][p]
    /\ \A c \in Updates(t, p) : InStep(call[c], file[t][p].parts, due[t][p])

FilesWhole == \A t \in Tables, p \in Persons : Whole(t, p)

\* The update u has inserted list l, or has cleared it and is to insert it.
Inserted(u, l) == l \in u.parts /\ \A i \in 1 .. 9 : Order[i] = <<"insert", l>> => i \notin u.todo
Cleared(u, l) == \E i \in 1 .. 9 : Order[i] = <<"insert", l>> /\ i \in u.todo /\ i - 1 \notin u.todo

\* A list of a guard that was given and is empty is about to be filled, unless an
\* update has failed to.
Refilled(p, l) ==
  /\ Present("guard", p) /\ file["guard"][p].parts[l] = {} /\ <<p, l>> \notin lost
  /\ due["guard"][p][l] # {} \/ \E c \in Updates("guard", p) : Inserted(call[c], l)
  => \E c \in Updates("guard", p) : Cleared(call[c], l)

ListsRefilled == \A p \in Persons, l \in Lists : Refilled(p, l)

FilesInv ==
  /\ Constants /\ FilesTypeOK /\ ServiceNumbersApart /\ RequestsFine /\ FilesWhole /\ ListsRefilled
  /\ UploadsWhole
-----------------------------------------------------------------------------
(* New files.                                                                *)

LEMMA NewFiles ==
  ASSUME NEW o \in Organizations, NEW row \in Row, NEW parts, Constants
  PROVE  LET f == NewFile(o, row, parts) IN
         f \in Kept /\ f.org = o /\ f.number = row.number /\ f.parts \in Contents /\ f # Unused
<1>1. PICK new : new = [part \in Parts |-> IF part \in parts \cup {"main"} THEN {0} ELSE {}]
  OBVIOUS
<1>2. new \in Contents
  BY <1>1 DEF Contents, Constants
<1>3. PICK f : f = [status |-> "KEPT", org |-> o, number |-> row.number, parts |-> new]
  OBVIOUS
<1>4. f \in Kept /\ f.org = o /\ f.number = row.number /\ f.parts \in Contents /\ f.status = "KEPT"
  BY <1>2, <1>3 DEF Kept, Row
<1>5. f # Unused
  BY <1>4 DEF Unused
<1> QED BY <1>1, <1>3, <1>4, <1>5 DEF NewFile

\* A file as it was, or one that is new.
Newly(t, p) ==
  \/ file'[t][p] = file[t][p] /\ due'[t][p] = due[t][p]
  \/ /\ file[t][p] = Unused /\ file'[t][p] \in Kept
     /\ file'[t][p].parts = due'[t][p] /\ due'[t][p] \in Contents

LEMMA Adding ==
  ASSUME Constants, FilesTypeOK, ServiceNumbersApart, NEW t \in Tables, NEW o \in Organizations,
         NEW rows \in SUBSET Row, NEW parts, Distinct(rows), Add(t, o, rows, parts)
  PROVE  /\ file' \in [Tables -> [Persons -> {Unused, Gone} \cup Kept]]
         /\ due' \in [Tables -> [Persons -> Contents]]
         /\ \A s \in Tables, p \in Persons : Newly(s, p)
         /\ ServiceNumbersApart'
         /\ \A row \in rows : file'[t][row.person] \in Kept /\ file'[t][row.person].org = o
                                /\ file'[t][row.person].number = row.number
<1> DEFINE Of(p) == CHOOSE row \in rows : row.person = p
           added == {row.person : row \in rows}
<1>0. /\ file \in [Tables -> [Persons -> {Unused, Gone} \cup Kept]]
      /\ due \in [Tables -> [Persons -> Contents]]
      /\ \A row \in rows : Free(t, o, row)
  BY DEF FilesTypeOK, Add
<1>1. /\ file' = [file EXCEPT ![t] = [p \in Persons |->
             IF p \in added THEN NewFile(o, Of(p), parts) ELSE @[p]]]
      /\ due' = [due EXCEPT ![t] = [p \in Persons |->
             IF p \in added THEN NewFile(o, Of(p), parts).parts ELSE @[p]]]
  BY DEF Add
<1>2. \A row \in rows : row.person \in added /\ Of(row.person) = row /\ row.person \in Persons
  <2>1. ASSUME NEW row \in rows PROVE Of(row.person) \in rows /\ Of(row.person).person = row.person
    OBVIOUS
  <2>2. \A a, b \in rows : a.person = b.person => a = b
    BY DEF Distinct
  <2> QED BY <2>1, <2>2 DEF Row
<1>3. \A p \in added : Of(p) \in rows /\ Of(p) \in Row /\ Of(p).person = p /\ Free(t, o, Of(p))
  BY <1>0, <1>2
<1> HIDE DEF Of, added
<1>4. /\ \A s \in Tables \ {t} : file'[s] = file[s] /\ due'[s] = due[s]
      /\ \A p \in Persons : p \notin added => file'[t][p] = file[t][p] /\ due'[t][p] = due[t][p]
      /\ \A p \in Persons : p \in added =>
           file'[t][p] = NewFile(o, Of(p), parts) /\ due'[t][p] = NewFile(o, Of(p), parts).parts
  BY <1>0, <1>1
<1>5. \A p \in Persons : p \in added =>
        /\ file'[t][p] \in Kept /\ file'[t][p].org = o /\ file'[t][p].number = Of(p).number
        /\ file'[t][p].parts = due'[t][p] /\ due'[t][p] \in Contents
        /\ file[t][p] = Unused
  BY <1>3, <1>4, NewFiles DEF Free
<1>6. file' \in [Tables -> [Persons -> {Unused, Gone} \cup Kept]]
  <2>1. [p \in Persons |-> IF p \in added THEN NewFile(o, Of(p), parts) ELSE file[t][p]]
          \in [Persons -> {Unused, Gone} \cup Kept]
    BY <1>0, <1>3, NewFiles
  <2> QED BY <1>0, <1>1, <2>1
<1>7. due' \in [Tables -> [Persons -> Contents]]
  <2>1. [p \in Persons |-> IF p \in added THEN NewFile(o, Of(p), parts).parts ELSE due[t][p]]
          \in [Persons -> Contents]
    BY <1>0, <1>3, NewFiles
  <2> QED BY <1>0, <1>1, <2>1
<1>8. \A s \in Tables, p \in Persons : Newly(s, p)
  BY <1>4, <1>5 DEF Newly
<1>9. ServiceNumbersApart'
  <2> SUFFICES ASSUME NEW s \in Tables, NEW p \in Persons, NEW q \in Persons, p # q,
                      Present(s, p)', Present(s, q)', file'[s][p].org = file'[s][q].org
               PROVE  file'[s][p].number # file'[s][q].number
    BY DEF ServiceNumbersApart
  <2>1. CASE s # t
    BY <1>4, <2>1 DEF ServiceNumbersApart, Present
  <2>2. ASSUME NEW a \in Persons, NEW b \in Persons, s = t, a \in added, b \notin added,
               Present(t, b)', file'[t][b].org = o
        PROVE  file'[t][a].number # file'[t][b].number
    <3>1. file[t][b].number \in NumbersOf(t, o)
      BY <1>4, <2>2 DEF NumbersOf, Present
    <3>2. Of(a).number \notin NumbersOf(t, o)
      BY <1>3, <2>2 DEF Free
    <3> QED BY <1>4, <1>5, <2>2, <3>1, <3>2
  <2>3. CASE s = t /\ p \in added /\ q \in added
    <3>1. Of(p) # Of(q) /\ Of(p) \in rows /\ Of(q) \in rows
      BY <1>3, <2>3
    <3> QED BY <1>5, <2>3, <3>1 DEF Distinct
  <2>4. CASE s = t /\ p \notin added /\ q \notin added
    BY <1>4, <2>4 DEF ServiceNumbersApart, Present
  <2>5. CASE s = t /\ p \in added /\ q \notin added
    BY <1>5, <2>2, <2>5
  <2>6. CASE s = t /\ p \notin added /\ q \in added
    BY <1>5, <2>2, <2>6
  <2> QED BY <2>1, <2>3, <2>4, <2>5, <2>6
<1>10. \A row \in rows : file'[t][row.person] \in Kept /\ file'[t][row.person].org = o
                           /\ file'[t][row.person].number = row.number
  BY <1>2, <1>5
<1> QED BY <1>6, <1>7, <1>8, <1>9, <1>10
-----------------------------------------------------------------------------
(* Steps that are at no update.                                              *)

LEMMA SilentIsWhole ==
  ASSUME Silent
  PROVE  UploadsWhole' /\ report' \in Report
<1>1. report' = NoReport
  BY DEF Silent
<1>2. NoReport \in Report /\ NoReport.rows = {} /\ NoReport.inserted = {} /\ NoReport.success = TRUE
      /\ NoReport.op = "none"
  BY DEF NoReport, Report
<1> QED BY <1>1, <1>2 DEF UploadsWhole

\* The request of c goes on or ends, and no other does anything.
LEMMA OneCaller ==
  ASSUME FilesTypeOK, NEW c \in Callers, NEW k, call' = [call EXCEPT ![c] = k]
  PROVE  /\ call'[c] = k /\ \A d \in Callers : d # c => call'[d] = call[d]
         /\ k \in Call => call' \in [Callers -> Call]
BY DEF FilesTypeOK

\* No update does anything while files appear, and a new file has none.
LEMMA AsideOfUpdates ==
  ASSUME FilesInv, NEW c \in Callers, NEW k, call' = [call EXCEPT ![c] = k],
         call[c].op # "update", k.op # "update", k.op = "upload" => Distinct(k.rows) /\ k.rows # {},
         \A t \in Tables, p \in Persons : Newly(t, p), torn' = torn, lost' = lost
  PROVE  RequestsFine' /\ FilesWhole' /\ ListsRefilled'
<1>1. FilesTypeOK /\ RequestsFine /\ FilesWhole /\ ListsRefilled
  BY DEF FilesInv
<1>2. call'[c] = k /\ \A d \in Callers : d # c => call'[d] = call[d]
  BY <1>1, OneCaller
<1>3. \A t \in Tables, p \in Persons :
        /\ Updates(t, p)' = Updates(t, p) /\ c \notin Updates(t, p)
        /\ \A d \in Updates(t, p) : call'[d] = call[d]
  BY <1>2 DEF Updates
<1>4. \A t \in Tables, p \in Persons : file[t][p] = Unused => Updates(t, p) = {}
  BY <1>1 DEF RequestsFine, Updates
<1>5. RequestsFine'
  <2> SUFFICES ASSUME NEW d \in Callers
               PROVE  /\ call'[d].op = "upload" => Distinct(call'[d].rows) /\ call'[d].rows # {}
                      /\ call'[d].op = "update" =>
                           /\ Progress(call'[d])
                           /\ file'[call'[d].table][call'[d].person] # Unused
                           /\ call'[d].table = "employee" => call'[d].number = NoNumber
    BY DEF RequestsFine
  <2>1. CASE d = c
    BY <1>2, <2>1
  <2>2. CASE d # c
    <3>1. call'[d] = call[d] /\ call[d] \in Call
      BY <1>1, <1>2, <2>2 DEF FilesTypeOK
    <3>2. ASSUME call[d].op = "update" PROVE file'[call[d].table][call[d].person] # Unused
      <4>1. call[d].table \in Tables /\ call[d].person \in Persons
        BY <3>1, <3>2, CallFields
      <4>2. file[call[d].table][call[d].person] # Unused
        BY <1>1, <3>2 DEF RequestsFine
      <4> QED BY <4>1, <4>2 DEF Newly
    <3> QED BY <1>1, <3>1, <3>2 DEF RequestsFine
  <2> QED BY <2>1, <2>2
<1>6. FilesWhole'
  <2> SUFFICES ASSUME NEW t \in Tables, NEW p \in Persons
               PROVE  Whole(t, p)'
    BY DEF FilesWhole
  <2>1. Whole(t, p) /\ Newly(t, p)
    BY <1>1 DEF FilesWhole
  <2>2. CASE file'[t][p] = file[t][p] /\ due'[t][p] = due[t][p]
    BY <1>3, <2>1, <2>2 DEF Whole, Present
  <2>3. CASE file[t][p] = Unused /\ file'[t][p].parts = due'[t][p]
    BY <1>3, <1>4, <2>3 DEF Whole
  <2> QED BY <2>1, <2>2, <2>3 DEF Newly
<1>7. ListsRefilled'
  <2> SUFFICES ASSUME NEW p \in Persons, NEW l \in Lists
               PROVE  Refilled(p, l)'
    BY DEF ListsRefilled
  <2>1. Refilled(p, l) /\ Newly("guard", p) /\ "guard" \in Tables
    BY <1>1 DEF ListsRefilled, Tables
  <2>2. CASE file'["guard"][p] = file["guard"][p] /\ due'["guard"][p] = due["guard"][p]
    BY <1>3, <2>1, <2>2 DEF Refilled, Present
  <2>3. CASE file["guard"][p] = Unused /\ file'["guard"][p].parts = due'["guard"][p]
    BY <1>3, <1>4, <2>1, <2>3 DEF Refilled
  <2> QED BY <2>1, <2>2, <2>3 DEF Newly
<1> QED BY <1>5, <1>6, <1>7

\* A request that begins, or ends, and changes no file.
LEMMA Beginning ==
  ASSUME FilesInv, NEW c \in Callers, NEW k \in Call, call[c] = Idle, Proceed(c, k), k.op # "update",
         k.op = "upload" => Distinct(k.rows) /\ k.rows # {},
         UNCHANGED <<file, editions, due, torn, lost>>, Silent
  PROVE  FilesInv'
<1>1. FilesTypeOK /\ ServiceNumbersApart /\ Constants
  BY DEF FilesInv
<1>2. call' = [call EXCEPT ![c] = k] /\ call[c].op # "update"
  BY DEF Proceed, Idle
<1>3. \A t \in Tables, p \in Persons : Newly(t, p)
  BY DEF Newly
<1>4. RequestsFine' /\ FilesWhole' /\ ListsRefilled'
  BY <1>2, <1>3, AsideOfUpdates
<1>5. FilesTypeOK'
  BY <1>1, <1>2, OneCaller, SilentIsWhole DEF FilesTypeOK
<1>6. ServiceNumbersApart'
  BY <1>1 DEF ServiceNumbersApart, Present
<1>7. Constants' /\ UploadsWhole'
  BY <1>1, SilentIsWhole DEF Constants
<1> QED BY <1>4, <1>5, <1>6, <1>7 DEF FilesInv

LEMMA CreatesBegin ==
  ASSUME FilesInv, NEW c \in Callers, NEW t \in Tables, NEW o \in Organizations, NEW p \in Persons,
         NEW n \in 1 .. MaxNumber + 1, NEW parts \in Creations, call[c] = Idle,
         Proceed(c, [op |-> "create", table |-> t, org |-> o, person |-> p, number |-> n,
                     parts |-> parts]),
         UNCHANGED <<file, editions, due, torn, lost>>, Silent
  PROVE  FilesInv'
<1>1. PICK k : k = [op |-> "create", table |-> t, org |-> o, person |-> p, number |-> n,
                    parts |-> parts]
  OBVIOUS
<1>2. parts \in SUBSET Parts
  BY DEF FilesInv, Constants
<1>3. k \in Call /\ k.op = "create"
  BY <1>1, <1>2 DEF Call
<1> QED BY <1>1, <1>3, Beginning

LEMMA BeginCreateGuardStep ==
  ASSUME FilesInv, NEW c \in Callers, NEW o \in Organizations, NEW p \in Persons,
         NEW n \in Numbers \cup {NoNumber}, NEW parts \in Creations, BeginCreateGuard(c, o, p, n, parts)
  PROVE  FilesInv'
<1>1. "guard" \in Tables /\ MaxNumber \in Nat
  BY DEF Tables, FilesInv, Constants
<1>2. Highest("guard", o) + 1 \in 1 .. MaxNumber + 1
  BY <1>1, HighestIsNumber DEF FilesInv
<1>3. PICK m : m = IF n = NoNumber THEN Highest("guard", o) + 1 ELSE n
  OBVIOUS
<1>4. m \in 1 .. MaxNumber + 1
  BY <1>1, <1>2, <1>3 DEF Numbers
<1> QED BY <1>1, <1>3, <1>4, CreatesBegin DEF BeginCreateGuard

LEMMA BeginCreateEmployeeStep ==
  ASSUME FilesInv, NEW c \in Callers, NEW o \in Organizations, NEW p \in Persons,
         NEW parts \in Creations, BeginCreateEmployee(c, o, p, parts)
  PROVE  FilesInv'
<1>1. "employee" \in Tables
  BY DEF Tables
<1>2. Highest("employee", o) + 1 \in 1 .. MaxNumber + 1
  BY <1>1, HighestIsNumber DEF FilesInv
<1> QED BY <1>1, <1>2, CreatesBegin DEF BeginCreateEmployee

LEMMA UploadStep ==
  ASSUME FilesInv, NEW c \in Callers, NEW o \in Organizations, NEW rows \in Uploaded,
         UploadGuards(c, o, rows) \/ UploadEmployees(c, o, rows)
  PROVE  FilesInv'
<1>1. PICK t \in Tables :
        /\ call[c] = Idle /\ rows # {} /\ Distinct(rows)
        /\ Proceed(c, [op |-> "upload", table |-> t, org |-> o, rows |-> rows])
        /\ UNCHANGED <<file, editions, due, torn, lost>> /\ Silent
  BY DEF UploadGuards, UploadEmployees, Tables
<1>2. PICK k : k = [op |-> "upload", table |-> t, org |-> o, rows |-> rows]
  OBVIOUS
<1>3. k \in Call /\ k.op = "upload" /\ k.rows = rows
  BY <1>2 DEF Call, Uploaded
<1> QED BY <1>1, <1>2, <1>3, Beginning

LEMMA BeginImportStep ==
  ASSUME FilesInv, NEW c \in Callers, NEW o \in Organizations, NEW rows \in Uploaded,
         BeginImport(c, o, rows)
  PROVE  FilesInv'
<1>1. PICK k : k = [op |-> "import", org |-> o, rows |-> rows, left |-> rows, inserted |-> {}]
  OBVIOUS
<1>2. k \in Call /\ k.op = "import"
  BY <1>1 DEF Call, Uploaded
<1> QED BY <1>1, <1>2, Beginning DEF BeginImport

\* A statement that inserts files.
LEMMA Filing ==
  ASSUME FilesInv, NEW c \in Callers, NEW k \in Call, call' = [call EXCEPT ![c] = k],
         call[c].op # "update", k.op # "update", k.op # "upload",
         NEW t \in Tables, NEW o \in Organizations, NEW rows \in SUBSET Row, Distinct(rows), NEW parts,
         Add(t, o, rows, parts) \/ Refused, UNCHANGED <<editions, torn, lost>>,
         UploadsWhole', report' \in Report
  PROVE  FilesInv'
<1>1. FilesTypeOK /\ ServiceNumbersApart /\ Constants
  BY DEF FilesInv
<1>2. /\ file' \in [Tables -> [Persons -> {Unused, Gone} \cup Kept]]
      /\ due' \in [Tables -> [Persons -> Contents]]
      /\ \A s \in Tables, p \in Persons : Newly(s, p)
      /\ ServiceNumbersApart'
  <2>1. CASE Add(t, o, rows, parts)
    BY <1>1, <2>1, Adding
  <2>2. CASE file' = file /\ due' = due
    BY <1>1, <2>2 DEF FilesTypeOK, Newly, ServiceNumbersApart, Present
  <2> QED BY <2>1, <2>2 DEF Refused
<1>3. RequestsFine' /\ FilesWhole' /\ ListsRefilled'
  BY <1>2, AsideOfUpdates
<1>4. FilesTypeOK'
  BY <1>1, <1>2, OneCaller DEF FilesTypeOK
<1> QED BY <1>1, <1>2, <1>3, <1>4 DEF FilesInv, Constants

LEMMA CommitCreateStep ==
  ASSUME FilesInv, NEW c \in Callers, CommitCreate(c)
  PROVE  FilesInv'
<1>1. PICK u \in Call : u = call[c]
  BY DEF FilesInv, FilesTypeOK
<1>2. /\ u.op = "create" /\ u.table \in Tables /\ u.org \in Organizations /\ u.person \in Persons
      /\ u.number \in 1 .. MaxNumber + 1 /\ u.number <= MaxNumber
  BY <1>1, CallFields DEF CommitCreate
<1>3. PICK row : row = [person |-> u.person, number |-> u.number]
  OBVIOUS
<1>4. row \in Row /\ Distinct({row}) /\ {row} \in SUBSET Row
  BY <1>2, <1>3 DEF Row, Numbers, Distinct, FilesInv, Constants
<1>5. Idle \in Call /\ Idle.op = "idle"
  BY DEF Call, Idle
<1>6. UploadsWhole' /\ report' \in Report
  BY SilentIsWhole DEF CommitCreate
<1>7. call' = [call EXCEPT ![c] = Idle] /\ UNCHANGED <<editions, torn, lost>>
  BY DEF CommitCreate, Return, Proceed
<1>8. Add(u.table, u.org, {row}, u.parts) \/ Refused
  BY <1>1, <1>3 DEF CommitCreate
<1> QED BY <1>1, <1>2, <1>4, <1>5, <1>6, <1>7, <1>8, Filing

LEMMA CommitUploadStep ==
  ASSUME FilesInv, NEW c \in Callers, CommitUpload(c)
  PROVE  FilesInv'
<1>1. PICK u \in Call : u = call[c]
  BY DEF FilesInv, FilesTypeOK
<1>2. /\ u.op = "upload" /\ u.table \in Tables /\ u.org \in Organizations /\ u.rows \in SUBSET Row
  BY <1>1, CallFields DEF CommitUpload
<1>3. Distinct(u.rows) /\ u.rows # {}
  BY <1>1, <1>2 DEF FilesInv, RequestsFine
<1>4. PICK t \in Tables, o \in Organizations, rows \in SUBSET Row :
        t = u.table /\ o = u.org /\ rows = u.rows
  BY <1>2
<1>5. Add(t, o, rows, {}) \/ Refused
  BY <1>1, <1>4 DEF CommitUpload
<1>6. \/ report' = [op |-> "upload", rows |-> rows, success |-> TRUE, inserted |-> rows]
      \/ report' = [op |-> "upload", rows |-> rows, success |-> FALSE, inserted |-> {}]
  <2>1. \/ /\ Add(t, o, rows, {})
           /\ report' = [op |-> "upload", rows |-> rows, success |-> TRUE,
                         inserted |-> Stored(t, o, rows)]
        \/ report' = [op |-> "upload", rows |-> rows, success |-> FALSE, inserted |-> {}]
    BY <1>1, <1>4 DEF CommitUpload
  <2>2. Add(t, o, rows, {}) =>
          \A row \in rows : file'[t][row.person] \in Kept /\ file'[t][row.person].org = o
                              /\ file'[t][row.person].number = row.number
    BY <1>3, <1>4, Adding DEF FilesInv
  <2>3. \A f \in Kept : f.status = "KEPT"
    BY DEF Kept
  <2>4. PICK stored : stored = Stored(t, o, rows)
    OBVIOUS
  <2>5. Add(t, o, rows, {}) => stored = rows
    BY <2>2, <2>3, <2>4 DEF Stored
  <2>6. CASE Add(t, o, rows, {}) /\ report' = [op |-> "upload", rows |-> rows, success |-> TRUE,
                                             inserted |-> Stored(t, o, rows)]
    <3>1. Stored(t, o, rows) = rows
      BY <2>4, <2>5, <2>6
    <3> QED BY <2>6, <3>1
  <2> QED BY <2>1, <2>6, Zenon
<1>7. report' \in Report
  <2>1. PICK inserted \in SUBSET Row, all \in BOOLEAN :
          report' = [op |-> "upload", rows |-> rows, success |-> all, inserted |-> inserted]
    <3>1. rows \in SUBSET Row /\ {} \in SUBSET Row /\ TRUE \in BOOLEAN /\ FALSE \in BOOLEAN
      OBVIOUS
    <3> QED BY <1>6, <3>1, Zenon
  <2> QED BY <2>1 DEF Report
<1>8. UploadsWhole'
  <2>1. CASE report' = [op |-> "upload", rows |-> rows, success |-> TRUE, inserted |-> rows]
    BY <2>1 DEF UploadsWhole
  <2>2. CASE report' = [op |-> "upload", rows |-> rows, success |-> FALSE, inserted |-> {}]
    BY <1>3, <1>4, <2>2 DEF UploadsWhole
  <2> QED BY <1>6, <2>1, <2>2
<1>9. Idle \in Call /\ Idle.op = "idle"
  BY DEF Call, Idle
<1>10. call' = [call EXCEPT ![c] = Idle] /\ UNCHANGED <<editions, torn, lost>>
  BY DEF CommitUpload, Return, Proceed
<1> QED BY <1>1, <1>2, <1>3, <1>4, <1>5, <1>7, <1>8, <1>9, <1>10, Filing

LEMMA ImportRowStep ==
  ASSUME FilesInv, NEW c \in Callers, NEW row \in Row, ImportRow(c, row)
  PROVE  FilesInv'
<1>1. PICK u \in Call : u = call[c]
  BY DEF FilesInv, FilesTypeOK
<1>2. /\ u.op = "import" /\ u.org \in Organizations /\ u.rows \in SUBSET Row
      /\ u.left \in SUBSET Row /\ u.inserted \in SUBSET Row
  BY <1>1, CallFields DEF ImportRow
<1>3. {row} \in SUBSET Row /\ Distinct({row}) /\ "guard" \in Tables
  BY DEF Distinct, Tables
<1>4. PICK inserted :
        /\ inserted \in {u.inserted, u.inserted \cup {row}}
        /\ Imported(c, row, inserted)
  BY <1>1 DEF ImportRow
<1>5. PICK left : left = u.left \ {row}
  OBVIOUS
<1>6. inserted \in SUBSET Row /\ left \in SUBSET Row
  BY <1>2, <1>4, <1>5
<1>7. /\ Add("guard", u.org, {row}, {"references"}) \/ Refused
      /\ UNCHANGED <<editions, torn, lost>>
  BY <1>1 DEF ImportRow
<1>8. IF left # {}
        THEN /\ Proceed(c, [u EXCEPT !.left = left, !.inserted = inserted])
             /\ Silent
        ELSE /\ report' = [op |-> "import", rows |-> u.rows, inserted |-> inserted,
                           success |-> inserted = u.rows]
             /\ Return(c)
  BY <1>1, <1>4, <1>5 DEF Imported
<1>9. CASE left # {}
  <2>1. PICK k : k = [u EXCEPT !.left = left, !.inserted = inserted]
    OBVIOUS
  <2>2. u \in [op : {"import"}, org : Organizations, rows : SUBSET Row, left : SUBSET Row,
               inserted : SUBSET Row]
    BY <1>2 DEF Call, Idle
  <2>3. k \in [op : {"import"}, org : Organizations, rows : SUBSET Row, left : SUBSET Row,
               inserted : SUBSET Row]
    BY <1>6, <2>1, <2>2
  <2>4. k \in Call /\ k.op = "import"
    BY <2>3 DEF Call
  <2>5. call' = [call EXCEPT ![c] = k] /\ Silent
    BY <1>8, <1>9, <2>1 DEF Proceed
  <2> QED BY <1>1, <1>2, <1>3, <1>7, <2>4, <2>5, SilentIsWhole, Filing
<1>10. CASE left = {}
  <2>1. Idle \in Call /\ Idle.op = "idle"
    BY DEF Call, Idle
  <2>2. call' = [call EXCEPT ![c] = Idle]
    BY <1>8, <1>10 DEF Return, Proceed
  <2>3. PICK all \in BOOLEAN : all = (inserted = u.rows)
    OBVIOUS
  <2>4. report' = [op |-> "import", rows |-> u.rows, inserted |-> inserted, success |-> all]
    BY <1>8, <1>10, <2>3
  <2>5. report' \in Report
    BY <1>2, <1>6, <2>4 DEF Report
  <2>6. UploadsWhole'
    BY <2>3, <2>4 DEF UploadsWhole
  <2> QED BY <1>1, <1>2, <1>3, <1>7, <2>1, <2>2, <2>5, <2>6, Filing
<1> QED BY <1>9, <1>10
-----------------------------------------------------------------------------
(* Updates.                                                                  *)

\* The parts an update supplies, and the main row, are those it has statements for.
LEMMA StatementsOf ==
  ASSUME NEW parts
  PROVE  /\ Statements(parts \cup {"main"}) = Statements(parts) /\ 1 \in Statements(parts)
         /\ \A i \in Statements(parts) : i \in 1 .. 9 /\ Order[i][2] \in parts \cup {"main"}
         /\ \A i \in 1 .. 9 : Order[i][2] \in parts => i \in Statements(parts)
<1>1. Order[1][2] = "main" /\ 1 \in 1 .. 9
  BY OrderHolds DEF OrderOK
<1> QED BY <1>1 DEF Statements

\* A list of guards has one statement that inserts it, after one that clears it.
LEMMA InsertOf ==
  ASSUME NEW l \in Lists
  PROVE  \E i \in 1 .. 9 : /\ Order[i] = <<"insert", l>>
                           /\ i - 1 \in 1 .. 9 /\ Order[i - 1] = <<"clear", l>>
                           /\ \A j \in 1 .. 9 : Order[j] = <<"insert", l>> => j = i
<1>1. l \in Parts
  BY DEF Parts
<1>2. PICK i \in 1 .. 9 : Order[i][2] = l /\ Order[i][1] \in {"write", "insert"}
  BY <1>1, OrderHolds DEF OrderOK
<1>3. Order[i][1] = "insert"
  BY <1>2, OrderHolds DEF OrderOK
<1>4. Order[i] = <<"insert", l>> /\ i - 1 \in 1 .. 9 /\ Order[i - 1] = <<"clear", l>>
  <2>1. Order[i] = <<Order[i][1], Order[i][2]>>
    BY OrderHolds DEF OrderOK
  <2>2. i - 1 \in 1 .. 9 /\ Order[i - 1] = <<"clear", Order[i][2]>>
    BY <1>3, OrderHolds DEF OrderOK
  <2> QED BY <1>2, <1>3, <2>1, <2>2
<1>5. ASSUME NEW j \in 1 .. 9, Order[j] = <<"insert", l>> PROVE j = i
  <2>1. Order[j][1] = "insert" /\ Order[j][2] = l
    BY <1>5
  <2> QED BY <1>2, <1>3, <2>1, OrderHolds DEF OrderOK
<1> QED BY <1>4, <1>5

\* The next statement of an update that has cleared a list is to insert it.
LEMMA ClearedIsNext ==
  ASSUME NEW u \in Call, u.op = "update", Progress(u), NEW l \in Lists, Cleared(u, l)
  PROVE  Upcoming(u) = <<"insert", l>>
<1>1. PICK j \in 1 .. 9 : Order[j] = <<"insert", l>> /\ j \in u.todo /\ j - 1 \notin u.todo
  BY DEF Cleared
<1>2. j - 1 \in 1 .. 9 /\ Order[j - 1] = <<"clear", l>>
  BY <1>1, InsertOf
<1>3. /\ u.todo # {} /\ u.todo \subseteq Statements(u.parts) /\ "main" \in u.parts
      /\ \A i \in Statements(u.parts), k \in u.todo : k <= i => i \in u.todo
  BY DEF Progress
<1>4. First(u) \in u.todo /\ First(u) \in 1 .. 9 /\ \A k \in u.todo : First(u) <= k
  BY <1>3, CallFields, FirstIsFirst
<1>5. l \in u.parts
  <2>1. Order[j][2] = l /\ j \in Statements(u.parts)
    BY <1>1, <1>3
  <2> QED BY <1>3, <2>1, StatementsOf
<1>6. j - 1 \in Statements(u.parts)
  <2>1. Order[j - 1][2] = l
    BY <1>2
  <2> QED BY <1>2, <1>5, <2>1, StatementsOf
<1>7. ~(First(u) <= j - 1)
  BY <1>1, <1>3, <1>4, <1>6
<1>8. First(u) = j
  BY <1>1, <1>4, <1>7
<1> QED BY <1>1, <1>8 DEF Upcoming

LEMMA BeginStep ==
  ASSUME FilesInv, NEW c \in Callers, NEW t \in Tables, NEW p \in Persons,
         NEW number \in Numbers \cup {NoNumber}, NEW parts \in Changes, file[t][p] # Unused,
         t = "employee" => number = NoNumber, BeginUpdate(c, t, p, number, parts)
  PROVE  FilesInv'
<1>1. /\ Constants /\ FilesTypeOK /\ ServiceNumbersApart /\ RequestsFine /\ FilesWhole /\ ListsRefilled
  BY DEF FilesInv
<1>2. PICK k : k = [op |-> "update", table |-> t, person |-> p, edition |-> editions + 1,
                    number |-> number, parts |-> parts \cup {"main"}, todo |-> Statements(parts)]
  OBVIOUS
<1>3. /\ k.op = "update" /\ k.table = t /\ k.person = p /\ k.parts = parts \cup {"main"}
      /\ k.todo = Statements(parts) /\ k.number = number
  BY <1>2
<1>4. editions + 1 \in 1 .. MaxEditions /\ parts \cup {"main"} \in SUBSET Parts
  <2>1. editions \in 0 .. MaxEditions /\ editions < MaxEditions /\ MaxEditions \in Nat
    BY <1>1 DEF BeginUpdate, FilesTypeOK, Constants
  <2>2. parts \in SUBSET Parts
    BY <1>1 DEF Constants
  <2> QED BY <2>1, <2>2 DEF Parts
<1>5. Statements(parts) \in SUBSET (1 .. 9)
  BY DEF Statements
<1>6. k \in Call
  BY <1>2, <1>4, <1>5 DEF Call
<1>7. /\ call[c] = Idle /\ call' = [call EXCEPT ![c] = k] /\ editions' = editions + 1
      /\ torn' = IF Updates(t, p) # {} THEN torn \cup {<<t, p>>} ELSE torn
      /\ file' = file /\ due' = due /\ lost' = lost /\ Silent
  BY <1>2 DEF BeginUpdate, Proceed
<1>8. call'[c] = k /\ \A d \in Callers : d # c => call'[d] = call[d]
  BY <1>1, <1>7, OneCaller
<1>9. Progress(k)
  BY <1>3, StatementsOf DEF Progress
<1>10. \A i \in 1 .. 9 : Order[i][2] \in k.parts => i \in k.todo
  <2>1. \A i \in 1 .. 9 : Order[i][2] \in parts \cup {"main"} => i \in Statements(parts \cup {"main"})
    BY StatementsOf
  <2>2. Statements(parts \cup {"main"}) = Statements(parts)
    BY StatementsOf
  <2> QED BY <1>3, <2>1, <2>2, Zenon
<1>11. /\ \A s \in Tables, q \in Persons : Updates(s, q) \subseteq Updates(s, q)' /\ c \notin Updates(s, q)
       /\ \A s \in Tables, q \in Persons : \A d \in Updates(s, q) : call'[d] = call[d]
       /\ \A s \in Tables, q \in Persons : <<s, q>> # <<t, p>> => Updates(s, q)' = Updates(s, q)
       /\ Updates(t, p)' = Updates(t, p) \cup {c}
  BY <1>3, <1>7, <1>8 DEF Updates, Idle
<1>12. RequestsFine'
  BY <1>1, <1>3, <1>7, <1>8, <1>9 DEF RequestsFine
<1>13. FilesWhole'
  <2> SUFFICES ASSUME NEW s \in Tables, NEW q \in Persons
               PROVE  Whole(s, q)'
    BY DEF FilesWhole
  <2>1. Whole(s, q)
    BY <1>1 DEF FilesWhole
  <2>2. CASE <<s, q>> # <<t, p>>
    <3>1. <<s, q>> \in torn' <=> <<s, q>> \in torn
      BY <1>7, <2>2
    <3> QED BY <1>7, <1>11, <2>1, <2>2, <3>1 DEF Whole, Present
  <2>3. CASE s = t /\ q = p
    <3> SUFFICES ASSUME Present(t, p)', <<t, p>> \notin torn'
                 PROVE  /\ \A a, d \in Updates(t, p)' : a = d
                        /\ Updates(t, p)' # {}
                        /\ \A a \in Updates(t, p)' : InStep(call'[a], file'[t][p].parts, due'[t][p])
      BY <2>3 DEF Whole
    <3>1. Updates(t, p) = {} /\ <<t, p>> \notin torn /\ Present(t, p)
      BY <1>7 DEF Present
    <3>2. Updates(t, p)' = {c}
      BY <1>11, <3>1
    <3>3. file[t][p].parts = due[t][p]
      BY <2>1, <2>3, <3>1 DEF Whole
    <3>4. InStep(k, due[t][p], due[t][p])
      BY <1>10 DEF InStep
    <3> QED BY <1>7, <1>8, <3>2, <3>3, <3>4
  <2> QED BY <2>2, <2>3
<1>14. ListsRefilled'
  <2> SUFFICES ASSUME NEW q \in Persons, NEW l \in Lists
               PROVE  Refilled(q, l)'
    BY DEF ListsRefilled
  <2>1. "guard" \in Tables /\ Refilled(q, l)
    BY <1>1 DEF ListsRefilled, Tables
  <2>2. ~Inserted(k, l)
    <3>1. PICK i \in 1 .. 9 : Order[i] = <<"insert", l>>
      BY InsertOf
    <3>2. Order[i][2] = l
      BY <3>1
    <3>3. l \in k.parts => i \in k.todo
      BY <1>10, <3>2
    <3>4. Inserted(k, l) => l \in k.parts /\ i \notin k.todo
      BY <3>1 DEF Inserted
    <3> QED BY <3>3, <3>4
  <2>3. \A d \in Updates("guard", q)' : Inserted(call'[d], l) => d \in Updates("guard", q)
    BY <1>8, <1>11, <2>1, <2>2
  <2> QED BY <1>7, <1>11, <2>1, <2>3 DEF Refilled, Present
<1>15. FilesTypeOK'
  <2>1. torn' \subseteq Tables \X Persons
    BY <1>1, <1>7 DEF FilesTypeOK
  <2>2. editions' \in 0 .. MaxEditions
    BY <1>1, <1>4, <1>7 DEF Constants
  <2> QED BY <1>1, <1>6, <1>7, <2>1, <2>2, OneCaller, SilentIsWhole DEF FilesTypeOK
<1>16. ServiceNumbersApart'
  BY <1>1, <1>7 DEF ServiceNumbersApart, Present
<1> QED BY <1>1, <1>7, <1>12, <1>13, <1>14, <1>15, <1>16, SilentIsWhole DEF FilesInv, Constants

LEMMA BeginUpdateGuardStep ==
  ASSUME FilesInv, NEW c \in Callers, NEW o \in Organizations, NEW p \in Persons,
         NEW number \in Numbers \cup {NoNumber}, NEW parts \in Changes,
         BeginUpdateGuard(c, o, p, number, parts)
  PROVE  FilesInv'
<1>1. "guard" \in Tables /\ FilesTypeOK
  BY DEF Tables, FilesInv
<1>2. file["guard"][p] # Unused
  BY <1>1, PresentFiles DEF BeginUpdateGuard
<1> QED BY <1>1, <1>2, BeginStep DEF BeginUpdateGuard

LEMMA BeginUpdateEmployeeStep ==
  ASSUME FilesInv, NEW c \in Callers, NEW p \in Persons, NEW parts \in Changes,
         BeginUpdateEmployee(c, p, parts)
  PROVE  FilesInv'
<1>1. "employee" \in Tables /\ NoNumber \in Numbers \cup {NoNumber}
  BY DEF Tables
<1> QED BY <1>1, BeginStep DEF BeginUpdateEmployee

\* The statement an update is at.
LEMMA Running ==
  ASSUME NEW u \in Call, u.op = "update", Progress(u), NEW i, i = First(u)
  PROVE  /\ i \in 1 .. 9 /\ i \in u.todo /\ u.todo \subseteq 1 .. 9 /\ \A j \in u.todo : i <= j
         /\ Upcoming(u) = Order[i] /\ Order[i][2] \in u.parts /\ Order[i][2] \in Parts
         /\ \A j \in 1 .. 9 : Order[j][2] \in u.parts /\ i <= j => j \in u.todo
         /\ Order[i][1] = "clear" => i + 1 \in u.todo
<1>1. /\ u.todo # {} /\ u.todo \subseteq Statements(u.parts) /\ "main" \in u.parts
      /\ \A j \in Statements(u.parts), k \in u.todo : k <= j => j \in u.todo
  BY DEF Progress
<1>2. i \in u.todo /\ i \in 1 .. 9 /\ \A j \in u.todo : i <= j
  BY <1>1, CallFields, FirstIsFirst
<1>3. Order[i][2] \in u.parts /\ Order[i][2] \in Parts
  <2>1. Order[i][2] \in u.parts \cup {"main"}
    BY <1>1, <1>2, StatementsOf
  <2> QED BY <1>1, <1>2, <2>1, OrderHolds DEF OrderOK
<1>4. \A j \in 1 .. 9 : Order[j][2] \in u.parts /\ i <= j => j \in u.todo
  BY <1>1, <1>2, StatementsOf
<1>5. ASSUME Order[i][1] = "clear" PROVE i + 1 \in u.todo
  <2>1. i + 1 \in 1 .. 9 /\ Order[i + 1] = <<"insert", Order[i][2]>>
    BY <1>2, <1>5, OrderHolds DEF OrderOK
  <2>2. Order[i + 1][2] = Order[i][2]
    BY <2>1
  <2> QED BY <1>2, <1>3, <1>4, <2>1, <2>2
<1> QED BY <1>1, <1>2, <1>3, <1>4, <1>5, CallFields DEF Upcoming

\* What matters of an update that has these statements left.
LeftToDo(parts, edition, table, todo) ==
  [parts |-> parts, edition |-> edition, table |-> table, todo |-> todo]

LEMMA LeftToDoFields ==
  ASSUME NEW parts, NEW edition, NEW table, NEW todo, NEW v, v = LeftToDo(parts, edition, table, todo)
  PROVE  v.parts = parts /\ v.edition = edition /\ v.table = table /\ v.todo = todo
BY DEF LeftToDo

\* An update that runs alone stays in step.
LEMMA StaysInStep ==
  ASSUME Constants, NEW u \in Call, u.op = "update", Progress(u), NEW i, i = First(u),
         NEW k, k.parts = u.parts, k.edition = u.edition, k.table = u.table, k.todo = u.todo \ {i},
         NEW f \in Kept, NEW d, InStep(u, f.parts, d), Order[i][1] = "insert" => u.table = "guard"
  PROVE  InStep(k, Changed(f, u).parts, d)
<1>1. /\ i \in 1 .. 9 /\ i \in u.todo /\ u.todo \subseteq 1 .. 9 /\ \A j \in u.todo : i <= j
      /\ Order[i][2] \in u.parts /\ Order[i][2] \in Parts
      /\ \A j \in 1 .. 9 : Order[j][2] \in u.parts /\ i <= j => j \in u.todo
  BY Running
<1>2. PICK s : s = Order[i]
  OBVIOUS
<1>3. PICK parts : parts = Changed(f, u).parts
  OBVIOUS
<1>4. /\ \A q \in Parts : q # s[2] => parts[q] = f.parts[q]
      /\ s[1] = "write" => parts[s[2]] = {u.edition}
      /\ s[1] = "insert" => parts[s[2]] = f.parts[s[2]] \cup {u.edition}
      /\ s[1] = "clear" /\ u.table = "guard" => parts[s[2]] = {}
  <2>1. PICK x : x = Content(f, u)
    OBVIOUS
  <2>2. \A q \in Parts : parts[q] = IF q = s[2] THEN x ELSE f.parts[q]
    <3>1. \A q \in Parts : Changed(f, u).parts[q] = IF q = s[2] THEN Content(f, u) ELSE f.parts[q]
      BY <1>1, <1>2, ChangedFile
    <3> QED BY <1>3, <2>1, <3>1
  <2>3. /\ s[1] = "write" => x = {u.edition}
        /\ s[1] = "insert" => x = f.parts[s[2]] \cup {u.edition}
        /\ s[1] = "clear" /\ u.table = "guard" => x = {}
    <3>1. /\ s[1] = "write" => Content(f, u) = {u.edition}
          /\ s[1] = "insert" => Content(f, u) = f.parts[s[2]] \cup {u.edition}
          /\ s[1] = "clear" /\ u.table = "guard" => Content(f, u) = {}
      <4>1. s[1] = "write" => Content(f, u) = {u.edition}
        BY <1>1, <1>2, ChangedFile
      <4>2. ASSUME s[1] = "insert" PROVE Content(f, u) = f.parts[s[2]] \cup {u.edition}
        <5>1. Upcoming(u) = s
          BY <1>2, Running
        <5>2. s[1] # "write" /\ s # <<"clear", "references">>
          BY <4>2
        <5> QED BY <4>2, <5>1, <5>2 DEF Content
      <4>3. s[1] = "clear" /\ u.table = "guard" => Content(f, u) = {}
        BY <1>1, <1>2, ChangedFile
      <4> QED BY <4>1, <4>2, <4>3
    <3> QED BY <2>1, <3>1
  <2>4. s[2] \in Parts
    BY <1>1, <1>2
  <2> QED BY <2>2, <2>3, <2>4
<1>5. \A q \in Parts \ u.parts : parts[q] = d[q]
  BY <1>1, <1>2, <1>4 DEF InStep
<1>6. ASSUME NEW j \in 1 .. 9, NEW r, r = Order[j], r[2] \in u.parts
      PROVE  /\ r[1] \in {"write", "clear"} /\ j \in k.todo => parts[r[2]] = d[r[2]]
             /\ r[1] \in {"write", "insert"} /\ j \notin k.todo => parts[r[2]] = {u.edition}
             /\ r[1] = "clear" /\ j \notin k.todo /\ j + 1 \in k.todo /\ u.table = "guard" =>
                  parts[r[2]] = {}
  <2>1. /\ r[1] \in {"write", "clear"} /\ j \in u.todo => f.parts[r[2]] = d[r[2]]
        /\ r[1] \in {"write", "insert"} /\ j \notin u.todo => f.parts[r[2]] = {u.edition}
        /\ r[1] = "clear" /\ j \notin u.todo /\ j + 1 \in u.todo /\ u.table = "guard" =>
             f.parts[r[2]] = {}
    BY <1>6 DEF InStep
  <2>2. r[2] \in Parts /\ r[1] \in {"write", "clear", "insert"}
    BY <1>6, OrderHolds DEF OrderOK
  <2>3. CASE r[2] # s[2]
    <3>1. j # i
      BY <1>2, <1>6, <2>3
    <3>2. r[1] = "clear" => j + 1 # i
      <4>1. r[1] = "clear" => Order[j + 1] = <<"insert", r[2]>>
        BY <1>6, OrderHolds DEF OrderOK
      <4>2. r[1] = "clear" => Order[j + 1][2] = r[2]
        BY <4>1
      <4> QED BY <1>2, <2>3, <4>2
    <3> QED BY <1>4, <2>1, <2>2, <2>3, <3>1, <3>2
  <2>4. CASE j = i
    <3>1. j \notin k.todo /\ r = s
      BY <1>2, <1>6, <2>4
    <3>2. CASE s[1] # "insert"
      BY <1>4, <3>1, <3>2
    <3>3. CASE s[1] = "insert"
      <4>1. i - 1 \in 1 .. 9 /\ Order[i - 1] = <<"clear", s[2]>>
        BY <1>1, <1>2, <3>3, OrderHolds DEF OrderOK
      <4>2. Order[i - 1][1] = "clear" /\ Order[i - 1][2] = s[2] /\ (i - 1) + 1 = i
        BY <1>1, <4>1
      <4>3. i - 1 \notin u.todo /\ u.table = "guard"
        BY <1>1, <1>2, <3>3
      <4>4. f.parts[s[2]] = {}
        <5>1. PICK m \in 1 .. 9 : m = i - 1
          BY <4>1
        <5>2. /\ Order[m][1] = "clear" /\ Order[m][2] = s[2] /\ m + 1 = i
              /\ m \notin u.todo /\ m + 1 \in u.todo /\ s[2] \in u.parts
          BY <1>1, <1>2, <4>2, <4>3, <5>1
        <5>3. f.parts[Order[m][2]] = {}
          BY <4>3, <5>2 DEF InStep
        <5> QED BY <5>2, <5>3
      <4>5. parts[s[2]] = {u.edition}
        BY <1>4, <3>3, <4>4
      <4> QED BY <3>1, <3>3, <4>5
    <3> QED BY <3>2, <3>3
  <2>5. CASE r[2] = s[2] /\ r[1] = "clear" /\ i = j + 1
    <3>1. j \notin k.todo /\ j + 1 \notin k.todo
      BY <1>1, <2>5
    <3> QED BY <2>5, <3>1
  <2>6. CASE r[2] = s[2] /\ s[1] = "clear" /\ j = i + 1
    <3>1. j \in k.todo
      BY <1>1, <1>6, <2>6
    <3>2. r[1] = "insert"
      <4>1. Order[i + 1] = <<"insert", s[2]>>
        BY <1>1, <1>2, <2>6, OrderHolds DEF OrderOK
      <4> QED BY <1>6, <2>6, <4>1
    <3> QED BY <3>1, <3>2
  <2>7. r[2] = s[2] => i = j \/ (s[1] = "clear" /\ j = i + 1) \/ (r[1] = "clear" /\ i = j + 1)
    BY <1>1, <1>2, <1>6, OrderHolds DEF OrderOK
  <2> QED BY <2>3, <2>4, <2>5, <2>6, <2>7
<1>7. \A j \in 1 .. 9 : Order[j][2] \in u.parts =>
        /\ Order[j][1] \in {"write", "clear"} /\ j \in k.todo => parts[Order[j][2]] = d[Order[j][2]]
        /\ Order[j][1] \in {"write", "insert"} /\ j \notin k.todo => parts[Order[j][2]] = {u.edition}
        /\ Order[j][1] = "clear" /\ j \notin k.todo /\ j + 1 \in k.todo /\ u.table = "guard" =>
             parts[Order[j][2]] = {}
  BY <1>6
<1>8. InStep(k, parts, d)
  BY <1>5, <1>7 DEF InStep
<1> QED BY <1>3, <1>8

\* Requests stay fine when files that are known stay known.
LEMMA FineOn ==
  ASSUME FilesTypeOK, RequestsFine, NEW c \in Callers, NEW k, call' = [call EXCEPT ![c] = k],
         k.op # "upload",
         k.op = "update" =>
           /\ Progress(k) /\ k.table \in Tables /\ k.person \in Persons
           /\ file[k.table][k.person] # Unused /\ (k.table = "employee" => k.number = NoNumber),
         \A t \in Tables, p \in Persons : file[t][p] # Unused => file'[t][p] # Unused
  PROVE  RequestsFine'
<1>1. call'[c] = k /\ \A d \in Callers : d # c => call'[d] = call[d]
  BY OneCaller
<1> SUFFICES ASSUME NEW d \in Callers
             PROVE  /\ call'[d].op = "upload" => Distinct(call'[d].rows) /\ call'[d].rows # {}
                    /\ call'[d].op = "update" =>
                         /\ Progress(call'[d])
                         /\ file'[call'[d].table][call'[d].person] # Unused
                         /\ call'[d].table = "employee" => call'[d].number = NoNumber
  BY DEF RequestsFine
<1>2. CASE d = c
  BY <1>1, <1>2
<1>3. CASE d # c
  <2>1. call'[d] = call[d] /\ call[d] \in Call
    BY <1>1, <1>3 DEF FilesTypeOK
  <2>2. ASSUME call[d].op = "update" PROVE file'[call[d].table][call[d].person] # Unused
    <3>1. call[d].table \in Tables /\ call[d].person \in Persons
      BY <2>1, <2>2, CallFields
    <3>2. file[call[d].table][call[d].person] # Unused
      BY <2>2 DEF RequestsFine
    <3> QED BY <3>1, <3>2
  <2> QED BY <2>1, <2>2 DEF RequestsFine
<1> QED BY <1>2, <1>3

LEMMA FailsStep ==
  ASSUME FilesInv, NEW c \in Callers, call[c].op = "update", StatementFails(c), UNCHANGED editions, Silent
  PROVE  FilesInv'
<1>1. Constants /\ FilesTypeOK /\ ServiceNumbersApart /\ RequestsFine /\ FilesWhole /\ ListsRefilled
  BY DEF FilesInv
<1>2. PICK u \in Call : u = call[c]
  BY <1>1 DEF FilesTypeOK
<1>3. PICK t \in Tables, p \in Persons : t = u.table /\ p = u.person
  BY <1>2, CallFields
<1>4. u.op = "update" /\ Progress(u)
  BY <1>1, <1>2 DEF RequestsFine
<1>5. PICK i \in 1 .. 9 : i = First(u)
  BY <1>4, Running
<1>6. /\ call' = [call EXCEPT ![c] = Idle] /\ file' = file /\ due' = due
      /\ torn' = IF Order[i][2] = "main" THEN torn ELSE torn \cup {<<t, p>>}
      /\ lost' = IF t = "guard" /\ Order[i][1] = "insert" THEN lost \cup {<<p, Order[i][2]>>}
                 ELSE lost
  BY <1>2, <1>3, <1>5 DEF StatementFails, Return, Proceed, Upcoming
<1>7. Idle \in Call /\ Idle.op = "idle"
  BY DEF Call, Idle
<1>8. /\ \A s \in Tables, q \in Persons : <<s, q>> # <<t, p>> =>
           Updates(s, q)' = Updates(s, q) /\ c \notin Updates(s, q)
      /\ c \in Updates(t, p) /\ Updates(t, p)' = Updates(t, p) \ {c}
      /\ \A d \in Callers : d # c => call'[d] = call[d]
  <2>1. call[c].op = "update" /\ t = call[c].table /\ p = call[c].person
    BY <1>2, <1>3, <1>4
  <2>2. PICK k : k = Idle
    OBVIOUS
  <2>3. k.op # "update" /\ call' = [call EXCEPT ![c] = k]
    BY <1>6, <1>7, <2>2
  <2>4. /\ \A s \in Tables, q \in Persons : <<s, q>> # <<t, p>> =>
             Updates(s, q)' = Updates(s, q) /\ c \notin Updates(s, q)
        /\ c \in Updates(t, p)
        /\ Updates(t, p)' = IF k.op = "update" THEN Updates(t, p) ELSE Updates(t, p) \ {c}
        /\ \A d \in Callers : d # c => call'[d] = call[d]
    <3>1. call'[c] = k /\ \A d \in Callers : d # c => call'[d] = call[d]
      BY <1>1, <2>3, OneCaller
    <3> QED BY <2>1, <2>3, <3>1 DEF Updates
  <2> QED BY <2>3, <2>4
<1>9. RequestsFine'
  BY <1>1, <1>6, <1>7, FineOn
<1>10. FilesWhole'
  <2> SUFFICES ASSUME NEW s \in Tables, NEW q \in Persons
               PROVE  Whole(s, q)'
    BY DEF FilesWhole
  <2>1. Whole(s, q)
    BY <1>1 DEF FilesWhole
  <2>2. CASE <<s, q>> # <<t, p>>
    <3>1. <<s, q>> \in torn' <=> <<s, q>> \in torn
      BY <1>6, <2>2
    <3>2. Updates(s, q)' = Updates(s, q) /\ \A d \in Updates(s, q) : call'[d] = call[d]
      BY <1>8, <2>2 DEF Updates
    <3> QED BY <1>6, <2>1, <3>1, <3>2 DEF Whole, Present
  <2>3. CASE s = t /\ q = p
    <3> SUFFICES ASSUME Present(t, p)', <<t, p>> \notin torn'
                 PROVE  Updates(t, p)' = {} /\ file'[t][p].parts = due'[t][p]
      BY <2>3 DEF Whole
    <3>1. Order[i][2] = "main" /\ torn' = torn /\ Present(t, p)
      BY <1>6 DEF Present
    <3>2. /\ \A d \in Updates(t, p) : c = d
          /\ InStep(u, file[t][p].parts, due[t][p])
      BY <1>2, <1>8, <2>1, <2>3, <3>1 DEF Whole
    <3>3. i = 1
      BY <3>1, OrderHolds DEF OrderOK
    <3>4. \A j \in 1 .. 9 : Order[j][2] \in u.parts => j \in u.todo
      <4>1. \A j \in 1 .. 9 : i <= j
        BY <3>3
      <4> QED BY <1>4, <1>5, <4>1, Running
    <3>5. file[t][p].parts \in Contents /\ due[t][p] \in Contents
      <4>1. file[t][p] \in Kept /\ due[t][p] \in Contents
        <5>1. file[t][p] \in Kept
          BY <1>1, <3>1, PresentFiles, Zenon
        <5>2. due \in [Tables -> [Persons -> Contents]]
          BY <1>1, Zenon DEF FilesTypeOK
        <5> QED BY <5>1, <5>2, Zenon
      <4> QED BY <4>1 DEF Kept
    <3>6. ASSUME NEW q2 \in Parts, q2 \in u.parts
          PROVE  file[t][p].parts[q2] = due[t][p][q2]
      <4>1. PICK j \in 1 .. 9 : Order[j][2] = q2 /\ Order[j][1] \in {"write", "clear"}
        <5>1. PICK j \in 1 .. 9 : Order[j][2] = q2 /\ Order[j][1] \in {"write", "insert"}
          BY OrderHolds DEF OrderOK
        <5>2. CASE Order[j][1] = "write"
          BY <5>1, <5>2
        <5>3. CASE Order[j][1] = "insert"
          <6>1. j - 1 \in 1 .. 9 /\ Order[j - 1] = <<"clear", q2>>
            <7>1. j - 1 \in 1 .. 9 /\ Order[j - 1] = <<"clear", Order[j][2]>>
              BY <5>3, OrderHolds, Zenon DEF OrderOK
            <7> QED BY <5>1, <7>1, Zenon
          <6>2. \A a : a = <<"clear", q2>> => a[1] = "clear" /\ a[2] = q2
            OBVIOUS
          <6>3. Order[j - 1][1] = "clear" /\ Order[j - 1][2] = q2
            BY <6>1, <6>2, Zenon
          <6> QED BY <6>1, <6>3
        <5> QED BY <5>1, <5>2, <5>3
      <4> QED BY <3>2, <3>4, <3>6, <4>1 DEF InStep
    <3>7. \A q2 \in Parts : file[t][p].parts[q2] = due[t][p][q2]
      BY <3>2, <3>6 DEF InStep
    <3>8. file[t][p].parts = due[t][p]
      BY <3>5, <3>7 DEF Contents
    <3> QED BY <1>6, <1>8, <3>2, <3>8
  <2> QED BY <2>2, <2>3
<1>11. ListsRefilled'
  <2> SUFFICES ASSUME NEW q \in Persons, NEW l \in Lists
               PROVE  Refilled(q, l)'
    BY DEF ListsRefilled
  <2>1. "guard" \in Tables /\ Refilled(q, l)
    BY <1>1 DEF ListsRefilled, Tables
  <2>2. Updates("guard", q)' \subseteq Updates("guard", q)
    BY <1>8, <2>1
  <2>3. \A d \in Updates("guard", q)' : call'[d] = call[d]
    BY <1>7, <1>6, <1>8, <1>1, OneCaller DEF Updates
  <2>4. ASSUME c \in Updates("guard", q), Cleared(u, l) PROVE <<q, l>> \in lost'
    <3>1. t = "guard" /\ p = q
      BY <1>2, <1>3, <2>4 DEF Updates
    <3>2. Order[i] = <<"insert", l>>
      BY <1>4, <1>5, <2>4, ClearedIsNext DEF Upcoming
    <3>3. Order[i][1] = "insert" /\ Order[i][2] = l
      BY <3>2
    <3> QED BY <1>6, <3>1, <3>3
  <2>5. \A d \in Updates("guard", q) : d # c => d \in Updates("guard", q)'
    BY <1>8, <2>1
  <2>6. lost \subseteq lost'
    BY <1>6
  <2> QED BY <1>2, <1>6, <2>1, <2>2, <2>3, <2>4, <2>5, <2>6 DEF Refilled, Present
<1>12. FilesTypeOK'
  <2>1. torn' \subseteq Tables \X Persons
    BY <1>1, <1>6 DEF FilesTypeOK
  <2>2. lost' \subseteq Persons \X Lists
    <3>1. Order[i][1] = "insert" => Order[i][2] \in Lists
      BY OrderHolds DEF OrderOK
    <3> QED BY <1>1, <1>6, <3>1 DEF FilesTypeOK
  <2> QED BY <1>1, <1>6, <1>7, <2>1, <2>2, OneCaller, SilentIsWhole DEF FilesTypeOK
<1>13. ServiceNumbersApart'
  BY <1>1, <1>6 DEF ServiceNumbersApart, Present
<1> QED BY <1>1, <1>9, <1>10, <1>11, <1>12, <1>13, SilentIsWhole DEF FilesInv, Constants

\* What lets a statement run.
LEMMA Runs ==
  ASSUME NEW u \in Call, u.op = "update", Progress(u), NEW i, i = First(u), NEW s, s = Order[i],
         NEW t \in Tables, t = u.table, NEW p \in Persons, p = u.person,
         \/ t = "guard" /\ GuardStatementRuns(u)
         \/ t = "employee" /\ EmployeeStatementRuns(u) /\ u.number = NoNumber
  PROVE  /\ s[1] = "insert" => t = "guard"
         /\ s[1] # "clear" => Present(t, p)
         /\ s[2] = "main" /\ u.number # NoNumber =>
              u.number \notin NumbersOf(t, file[t][p].org) \ {file[t][p].number}
<1>1. Upcoming(u) = s /\ i \in 1 .. 9
  BY Running
<1>2. /\ s[2] = "main" => s[1] = "write"
      /\ s[1] \in {"write", "clear", "insert"}
  <2>1. "main" \notin Lists
    BY DEF Lists
  <2> QED BY <1>1, <2>1, OrderHolds DEF OrderOK
<1>3. CASE t = "employee"
  <2>1. s[1] = "clear" \/ (s = <<"write", "main">> /\ Present("employee", p))
    BY <1>1, <1>3 DEF EmployeeStatementRuns
  <2>2. s = <<"write", "main">> => s[1] = "write"
    OBVIOUS
  <2>3. u.number = NoNumber
    BY <1>3
  <2> QED BY <1>2, <1>3, <2>1, <2>2, <2>3
<1>4. CASE t = "guard"
  <2>1. GuardStatementRuns(u)
    BY <1>4
  <2>2. CASE s[1] = "clear"
    BY <1>2, <1>4, <2>2
  <2>3. CASE s[1] = "insert"
    <3>1. s[2] # "main"
      BY <1>2, <2>3
    <3>2. Present("guard", p)
      BY <1>1, <2>1, <2>3, <3>1 DEF GuardStatementRuns
    <3> QED BY <1>4, <3>1, <3>2
  <2>4. CASE s[1] = "write" /\ s[2] = "main"
    <3>1. /\ Present("guard", p)
          /\ u.number # NoNumber =>
               u.number \notin NumbersOf("guard", file["guard"][p].org) \ {file["guard"][p].number}
      BY <1>1, <2>1, <2>4 DEF GuardStatementRuns
    <3> QED BY <1>4, <2>4, <3>1
  <2>5. CASE s[1] = "write" /\ s[2] # "main"
    <3>1. Present("guard", p)
      BY <1>1, <2>1, <2>5 DEF GuardStatementRuns
    <3> QED BY <1>4, <2>5, <3>1
  <2> QED BY <1>2, <2>2, <2>3, <2>4, <2>5
<1> QED BY <1>3, <1>4 DEF Tables

\* The statements left when the first is done are those after it.
LEMMA StaysProgress ==
  ASSUME NEW u \in Call, u.op = "update", Progress(u), NEW i, i = First(u),
         NEW k, k.parts = u.parts, k.todo = u.todo \ {i}, k.todo # {}
  PROVE  Progress(k)
<1>1. i \in u.todo /\ u.todo \subseteq 1 .. 9 /\ \A j \in u.todo : i <= j
  BY Running
<1>2. ASSUME NEW j \in Statements(k.parts), NEW m \in k.todo, m <= j PROVE j \in k.todo
  <2>1. m \in u.todo /\ m # i /\ j \in u.todo
    BY <1>2 DEF Progress
  <2>2. i <= m /\ i \in Int /\ m \in Int /\ j \in Int
    BY <1>1, <2>1
  <2>3. j # i
    BY <1>2, <2>1, <2>2
  <2> QED BY <2>1, <2>3
<1> QED BY <1>2 DEF Progress

LEMMA SucceedsStep ==
  ASSUME FilesInv, NEW c \in Callers, call[c].op = "update",
         \/ call[c].table = "guard" /\ GuardStatementRuns(call[c])
         \/ call[c].table = "employee" /\ EmployeeStatementRuns(call[c]),
         StatementSucceeds(c), UNCHANGED editions, Silent
  PROVE  FilesInv'
<1>1. Constants /\ FilesTypeOK /\ ServiceNumbersApart /\ RequestsFine /\ FilesWhole /\ ListsRefilled
  BY DEF FilesInv
<1>2. PICK u \in Call : u = call[c]
  BY <1>1 DEF FilesTypeOK
<1>3. PICK t \in Tables, p \in Persons : t = u.table /\ p = u.person
  BY <1>2, CallFields
<1>4. /\ u.op = "update" /\ Progress(u) /\ file[t][p] # Unused /\ (t = "employee" => u.number = NoNumber)
      /\ u.edition \in 1 .. MaxEditions /\ u.parts \subseteq Parts /\ u.todo \in SUBSET (1 .. 9)
      /\ u.number \in Numbers \cup {NoNumber}
  BY <1>1, <1>2, <1>3, CallFields DEF RequestsFine
<1>5. PICK i \in 1 .. 9 : i = First(u)
  BY <1>4, Running
<1>6. PICK s : s = Order[i]
  OBVIOUS
<1>7. /\ i \in u.todo /\ \A j \in u.todo : i <= j
      /\ s[2] \in u.parts /\ s[2] \in Parts /\ (s[1] = "clear" => i + 1 \in u.todo)
  BY <1>4, <1>5, <1>6, Running
<1>8. /\ s[1] = "insert" => t = "guard"
      /\ s[1] # "clear" => Present(t, p)
      /\ s[2] = "main" /\ u.number # NoNumber =>
           u.number \notin NumbersOf(t, file[t][p].org) \ {file[t][p].number}
  BY <1>2, <1>3, <1>4, <1>5, <1>6, Runs
<1>9. PICK left : left = u.todo \ {i}
  OBVIOUS
<1>10. PICK k : k = IF left # {} THEN [u EXCEPT !.todo = left] ELSE Idle
  OBVIOUS
<1>11. PICK done : done = [part \in Parts |-> IF part \in u.parts THEN {u.edition} ELSE due[t][p][part]]
  OBVIOUS
<1>12. /\ call' = [call EXCEPT ![c] = k] /\ torn' = torn
       /\ lost' = IF s[1] = "insert" THEN lost \ {<<p, s[2]>>} ELSE lost
       /\ due' = IF left # {} THEN due ELSE [due EXCEPT ![t][p] = done]
       /\ file' = IF Present(t, p) THEN [file EXCEPT ![t][p] = Changed(file[t][p], u)] ELSE file
  <2>1. /\ Apply(u) /\ torn' = torn
        /\ IF left # {}
           THEN Proceed(c, [u EXCEPT !.todo = left]) /\ UNCHANGED due
           ELSE /\ Return(c)
                /\ due' = [due EXCEPT ![t][p] =
                     [part \in Parts |-> IF part \in u.parts THEN {u.edition} ELSE @[part]]]
    BY <1>2, <1>3, <1>5, <1>9 DEF StatementSucceeds
  <2>2. left = {} => due' = [due EXCEPT ![t][p] = done]
    BY <1>1, <1>11, <2>1 DEF FilesTypeOK
  <2>3. call' = [call EXCEPT ![c] = k]
    BY <1>10, <2>1 DEF Proceed, Return
  <2>4. file' = IF Present(t, p) THEN [file EXCEPT ![t][p] = Changed(file[t][p], u)] ELSE file
    BY <1>1, <1>3, <2>1 DEF Apply, FilesTypeOK
  <2>5. lost' = IF s[1] = "insert" THEN lost \ {<<p, s[2]>>} ELSE lost
    BY <1>2, <1>3, <1>5, <1>6 DEF StatementSucceeds, Upcoming
  <2> QED BY <2>1, <2>2, <2>3, <2>4, <2>5
<1>13. /\ left # {} => k \in Call /\ k.op = "update" /\ k.table = t /\ k.person = p
                         /\ k.number = u.number /\ k.parts = u.parts /\ k.edition = u.edition
                         /\ k.todo = left
       /\ left = {} => k \in Call /\ k.op = "idle"
  <2>1. CASE left # {}
    <3>1. u \in [op : {"update"}, table : Tables, person : Persons, edition : 1 .. MaxEditions,
                 number : Numbers \cup {NoNumber}, parts : SUBSET Parts, todo : SUBSET (1 .. 9)]
      BY <1>4 DEF Call, Idle
    <3>2. left \in SUBSET (1 .. 9)
      BY <1>4, <1>9
    <3>3. k = [u EXCEPT !.todo = left]
      BY <1>10, <2>1
    <3>4. /\ k \in [op : {"update"}, table : Tables, person : Persons, edition : 1 .. MaxEditions,
                    number : Numbers \cup {NoNumber}, parts : SUBSET Parts, todo : SUBSET (1 .. 9)]
          /\ k.table = u.table /\ k.person = u.person /\ k.number = u.number /\ k.parts = u.parts
          /\ k.edition = u.edition /\ k.todo = left
      BY <3>1, <3>2, <3>3
    <3>5. k \in Call /\ k.op = "update"
      BY <3>4 DEF Call
    <3> QED BY <1>3, <2>1, <3>4, <3>5
  <2>2. CASE left = {}
    BY <1>10, <2>2 DEF Call, Idle
  <2> QED BY <2>1, <2>2
<1>14. done \in Contents
  <2>1. {u.edition} \in SUBSET (0 .. MaxEditions)
    BY <1>1, <1>4 DEF Constants
  <2>2. \A part \in Parts : due[t][p][part] \in SUBSET (0 .. MaxEditions)
    BY <1>1 DEF FilesTypeOK, Contents
  <2> QED BY <1>11, <2>1, <2>2 DEF Contents
<1>15. ASSUME Present(t, p)
       PROVE  /\ file[t][p] \in Kept /\ Changed(file[t][p], u) \in Kept
              /\ file'[t][p] = Changed(file[t][p], u)
              /\ file'[t][p].org = file[t][p].org
              /\ file'[t][p].number = IF s[2] = "main" /\ u.number # NoNumber THEN u.number ELSE file[t][p].number
              /\ \A q \in Parts : q # s[2] => file'[t][p].parts[q] = file[t][p].parts[q]
              /\ s[1] = "insert" => file'[t][p].parts[s[2]] = file[t][p].parts[s[2]] \cup {u.edition}
  <2>1. PICK f \in Kept : f = file[t][p]
    BY <1>1, <1>15, PresentFiles
  <2>2. file'[t][p] = Changed(f, u)
    BY <1>1, <1>12, <1>15, <2>1 DEF FilesTypeOK
  <2>3. /\ Changed(f, u) \in Kept /\ Changed(f, u).org = f.org
        /\ Changed(f, u).number = IF s[2] = "main" /\ u.number # NoNumber THEN u.number ELSE f.number
        /\ \A q \in Parts : Changed(f, u).parts[q] = IF q = s[2] THEN Content(f, u) ELSE f.parts[q]
    <3>1. Constants /\ u.op = "update"
      BY <1>1, <1>4
    <3> QED BY <1>5, <1>6, <3>1, ChangedFile
  <2>4. s[1] = "insert" => Content(f, u) = f.parts[s[2]] \cup {u.edition}
    <3>1. Upcoming(u) = s
      BY <1>4, <1>5, <1>6, Running
    <3>2. s[1] = "insert" => s[1] # "write" /\ s # <<"clear", "references">>
      OBVIOUS
    <3> QED BY <3>1, <3>2 DEF Content
  <2> QED BY <1>7, <2>1, <2>2, <2>3, <2>4
<1>16. /\ \A r \in Tables, q \in Persons : <<r, q>> # <<t, p>> =>
            file'[r][q] = file[r][q] /\ due'[r][q] = due[r][q]
       /\ ~Present(t, p) => file'[t][p] = file[t][p]
       /\ due'[t][p] = IF left # {} THEN due[t][p] ELSE done
  <2>1. /\ file \in [Tables -> [Persons -> {Unused, Gone} \cup Kept]]
        /\ due \in [Tables -> [Persons -> Contents]]
    BY <1>1 DEF FilesTypeOK
  <2>2. PICK g : g = Changed(file[t][p], u)
    OBVIOUS
  <2>3. \A r \in Tables, q \in Persons : <<r, q>> # <<t, p>> => file'[r][q] = file[r][q]
    BY <1>12, <2>1, <2>2
  <2>4. \A r \in Tables, q \in Persons : <<r, q>> # <<t, p>> => due'[r][q] = due[r][q]
    BY <1>12, <2>1
  <2>5. due'[t][p] = IF left # {} THEN due[t][p] ELSE done
    BY <1>12, <2>1
  <2> QED BY <1>12, <2>3, <2>4, <2>5
<1>17. \A r \in Tables, q \in Persons : Present(r, q)' <=> Present(r, q)
  <2>1. \A f \in Kept : f.status = "KEPT"
    BY DEF Kept
  <2> QED BY <1>15, <1>16, <2>1 DEF Present
<1>18. /\ \A r \in Tables, q \in Persons : <<r, q>> # <<t, p>> =>
            Updates(r, q)' = Updates(r, q) /\ c \notin Updates(r, q)
       /\ c \in Updates(t, p)
       /\ Updates(t, p)' = IF left # {} THEN Updates(t, p) ELSE Updates(t, p) \ {c}
       /\ call'[c] = k /\ \A d \in Callers : d # c => call'[d] = call[d]
  <2>1. call[c].op = "update" /\ t = call[c].table /\ p = call[c].person
    BY <1>2, <1>3, <1>4
  <2>2. k.op = "update" <=> left # {}
    BY <1>13
  <2>3. call'[c] = k /\ \A d \in Callers : d # c => call'[d] = call[d]
    BY <1>1, <1>12, OneCaller
  <2> QED BY <1>13, <2>1, <2>2, <2>3 DEF Updates
<1>19. RequestsFine'
  <2>1. left # {} => Progress(k)
    BY <1>4, <1>5, <1>9, <1>13, StaysProgress
  <2>2. \A r \in Tables, q \in Persons : file[r][q] # Unused => file'[r][q] # Unused
    <3>1. Present(t, p) => file'[t][p] # Unused
      BY <1>15 DEF Kept, Unused
    <3> QED BY <1>4, <1>16, <3>1
  <2> QED BY <1>1, <1>4, <1>12, <1>13, <2>1, <2>2, FineOn
<1>20. FilesWhole'
  <2> SUFFICES ASSUME NEW r \in Tables, NEW q \in Persons
               PROVE  Whole(r, q)'
    BY DEF FilesWhole
  <2>1. Whole(r, q)
    BY <1>1 DEF FilesWhole
  <2>2. CASE <<r, q>> # <<t, p>>
    <3>1. Updates(r, q)' = Updates(r, q) /\ \A d \in Updates(r, q) : call'[d] = call[d]
      BY <1>18, <2>2 DEF Updates
    <3> QED BY <1>12, <1>16, <1>17, <2>1, <2>2, <3>1 DEF Whole
  <2>3. CASE r = t /\ q = p
    <3> SUFFICES ASSUME Present(t, p), <<t, p>> \notin torn
                 PROVE  /\ \A a, d \in Updates(t, p)' : a = d
                        /\ Updates(t, p)' = {} => file'[t][p].parts = due'[t][p]
                        /\ \A a \in Updates(t, p)' : InStep(call'[a], file'[t][p].parts, due'[t][p])
      BY <1>12, <1>17, <2>3 DEF Whole
    <3>1. /\ \A d \in Updates(t, p) : c = d
          /\ InStep(u, file[t][p].parts, due[t][p])
      BY <1>2, <1>18, <2>1, <2>3 DEF Whole
    <3>2. PICK f \in Kept : f = file[t][p]
      BY <1>15
    <3>0. PICK v : v = LeftToDo(u.parts, u.edition, u.table, left)
      OBVIOUS
    <3>3. v.parts = u.parts /\ v.edition = u.edition /\ v.table = u.table /\ v.todo = left
      BY <3>0, LeftToDoFields
    <3>4. InStep(v, Changed(f, u).parts, due[t][p])
      <4>1. v.parts = u.parts /\ v.edition = u.edition /\ v.table = u.table /\ v.todo = u.todo \ {i}
        BY <1>9, <3>3
      <4>2. InStep(u, f.parts, due[t][p]) /\ (Order[i][1] = "insert" => u.table = "guard")
        BY <1>3, <1>6, <1>8, <3>1, <3>2
      <4> QED BY <1>1, <1>4, <1>5, <4>1, <4>2, StaysInStep
    <3>5. InStep(v, file'[t][p].parts, due[t][p])
      BY <1>15, <3>2, <3>4
    <3>6. CASE left # {}
      <4>1. Updates(t, p)' = {c}
        BY <1>18, <3>1, <3>6
      <4>2. /\ k.parts = v.parts /\ k.edition = v.edition /\ k.table = v.table /\ k.todo = v.todo
        <5>1. k.parts = u.parts /\ k.edition = u.edition /\ k.table = u.table /\ k.todo = left
          BY <1>3, <1>13, <3>6
        <5> QED BY <3>3, <5>1
      <4>3. InStep(k, file'[t][p].parts, due[t][p])
        BY <3>5, <4>2 DEF InStep
      <4>4. due'[t][p] = due[t][p] /\ call'[c] = k
        BY <1>16, <1>18, <3>6
      <4> QED BY <4>1, <4>3, <4>4
    <3>7. CASE left = {}
      <4>1. Updates(t, p)' = {}
        BY <1>18, <3>1, <3>7
      <4>2. due'[t][p] = done
        BY <1>16, <3>7
      <4>3. file'[t][p].parts \in Contents
        BY <1>15 DEF Kept
      <4>4. ASSUME NEW x \in Parts PROVE file'[t][p].parts[x] = done[x]
        <5>1. CASE x \notin u.parts
          BY <1>11, <3>3, <3>5, <5>1 DEF InStep
        <5>2. CASE x \in u.parts
          <6>1. PICK j \in 1 .. 9 : Order[j][2] = x /\ Order[j][1] \in {"write", "insert"}
            BY OrderHolds DEF OrderOK
          <6>2. j \notin v.todo /\ Order[j][2] \in v.parts
            <7>1. v.todo = {} /\ v.parts = u.parts
              BY <3>3, <3>7, Zenon
            <7> QED BY <5>2, <6>1, <7>1, Zenon
          <6>3. file'[t][p].parts[Order[j][2]] = {v.edition}
            BY <3>5, <6>1, <6>2 DEF InStep
          <6> QED BY <1>11, <3>3, <5>2, <6>1, <6>3
        <5> QED BY <5>1, <5>2, Zenon
      <4>5. file'[t][p].parts = done
        BY <1>14, <4>3, <4>4 DEF Contents
      <4> QED BY <4>1, <4>2, <4>5
    <3> QED BY <3>6, <3>7
  <2> QED BY <2>2, <2>3
<1>21. ListsRefilled'
  <2> SUFFICES ASSUME NEW q \in Persons, NEW l \in Lists
               PROVE  Refilled(q, l)'
    BY DEF ListsRefilled
  <2>1. "guard" \in Tables /\ Refilled(q, l) /\ l \in Parts
    BY <1>1 DEF ListsRefilled, Tables, Parts
  <2>2. CASE <<"guard", q>> # <<t, p>>
    <3>1. /\ Updates("guard", q)' = Updates("guard", q)
          /\ \A d \in Updates("guard", q) : call'[d] = call[d]
      BY <1>18, <2>1, <2>2 DEF Updates
    <3>2. <<q, l>> \in lost => <<q, l>> \in lost'
      BY <1>8, <1>12, <2>2
    <3> QED BY <1>16, <1>17, <2>1, <2>2, <3>1, <3>2 DEF Refilled
  <2>3. CASE t = "guard" /\ p = q
    <3> SUFFICES ASSUME Present("guard", q), file'["guard"][q].parts[l] = {}, <<q, l>> \notin lost',
                        due'["guard"][q][l] # {} \/ \E d \in Updates("guard", q)' : Inserted(call'[d], l)
                 PROVE  \E d \in Updates("guard", q)' : Cleared(call'[d], l)
      BY <1>17, <2>1 DEF Refilled
    <3>1. PICK j \in 1 .. 9 : Order[j] = <<"insert", l>> /\ j - 1 \in 1 .. 9
                                /\ \A m \in 1 .. 9 : Order[m] = <<"insert", l>> => m = j
      BY InsertOf
    <3>2. CASE s[2] # l
      <4>1. j # i
        <5>1. Order[j][2] = l
          BY <3>1
        <5> QED BY <1>6, <3>2, <5>1
      <4>2. file["guard"][q].parts[l] = {}
        BY <1>15, <2>1, <2>3, <3>2
      <4>3. Inserted(k, l) /\ left # {} => Inserted(u, l)
        <5>1. Inserted(k, l) => l \in k.parts /\ j \notin k.todo
          BY <3>1 DEF Inserted
        <5>2. l \in u.parts /\ j \notin u.todo => Inserted(u, l)
          BY <3>1 DEF Inserted
        <5> QED BY <1>9, <1>13, <4>1, <5>1, <5>2
      <4>4. left = {} /\ l \in u.parts => Inserted(u, l)
        <5>1. left = {} => j \notin u.todo
          BY <1>9, <4>1
        <5>2. l \in u.parts /\ j \notin u.todo => Inserted(u, l)
          BY <3>1 DEF Inserted
        <5> QED BY <5>1, <5>2
      <4>5. due["guard"][q][l] # {} \/ \E d \in Updates("guard", q) : Inserted(call[d], l)
        <5>1. call[c] = u /\ c \in Updates("guard", q)
          BY <1>2, <1>18, <2>3
        <5>2. CASE due'["guard"][q][l] # {}
          <6>1. due'["guard"][q][l] = due["guard"][q][l] \/ (left = {} /\ l \in u.parts)
            BY <1>11, <1>16, <2>1, <2>3
          <6> QED BY <4>4, <5>1, <5>2, <6>1
        <5>3. CASE \E d \in Updates("guard", q)' : Inserted(call'[d], l)
          <6>1. PICK d \in Updates("guard", q)' : Inserted(call'[d], l)
            BY <5>3
          <6>2. d \in Updates("guard", q) /\ (d = c => left # {})
            BY <1>18, <2>3, <6>1
          <6>3. CASE d = c
            BY <1>18, <4>3, <5>1, <6>1, <6>2, <6>3
          <6>4. CASE d # c
            <7>1. call'[d] = call[d]
              BY <1>18, <6>2, <6>4 DEF Updates
            <7> QED BY <6>1, <6>2, <7>1
          <6> QED BY <6>3, <6>4
        <5> QED BY <5>2, <5>3
      <4>0. <<q, l>> \notin lost
        BY <1>12, <3>2
      <4>6. PICK e \in Updates("guard", q) : Cleared(call[e], l)
        BY <2>1, <4>0, <4>2, <4>5 DEF Refilled
      <4>7. e # c
        <5>1. Upcoming(u) = s
          BY <1>4, <1>5, <1>6, Running
        <5>2. Cleared(u, l) => Upcoming(u) = <<"insert", l>>
          BY <1>4, ClearedIsNext
        <5>3. s = <<"insert", l>> => s[2] = l
          OBVIOUS
        <5> QED BY <1>2, <3>2, <4>6, <5>1, <5>2, <5>3
      <4>8. e \in Updates("guard", q)' /\ call'[e] = call[e]
        BY <1>18, <2>3, <4>7 DEF Updates
      <4> QED BY <4>6, <4>8
    <3>3. CASE s[2] = l
      <4>1. s[1] \in {"clear", "insert"}
        <5>1. s[1] \in {"write", "clear", "insert"} /\ (s[1] = "write" => s[2] \notin Lists)
          BY <1>6, OrderHolds DEF OrderOK
        <5> QED BY <3>3, <5>1
      <4>2. s[1] # "insert"
        BY <1>15, <2>3, <3>3
      <4>3. s[1] = "clear" /\ i + 1 \in u.todo /\ i + 1 \in 1 .. 9 /\ Order[i + 1] = <<"insert", l>>
        BY <1>6, <1>7, <3>3, <4>1, <4>2, OrderHolds DEF OrderOK
      <4>4. i + 1 \in left /\ (i + 1) - 1 = i /\ i \notin left
        BY <1>9, <4>3
      <4>5. PICK m \in 1 .. 9 : m = i + 1
        BY <4>3
      <4>6. left # {} /\ k.todo = left
        BY <1>13, <4>4
      <4>7. Order[m] = <<"insert", l>> /\ m \in k.todo /\ m - 1 \notin k.todo
        BY <4>3, <4>4, <4>5, <4>6
      <4>8. Cleared(k, l)
        BY <4>7 DEF Cleared
      <4>9. c \in Updates("guard", q)' /\ call'[c] = k
        BY <1>18, <2>3, <4>6
      <4> QED BY <4>8, <4>9
    <3> QED BY <3>2, <3>3
  <2> QED BY <2>2, <2>3
<1>22. ServiceNumbersApart'
  <2> SUFFICES ASSUME NEW r \in Tables, NEW a \in Persons, NEW b \in Persons,
                      Present(r, a), Present(r, b), a # b, file'[r][a].org = file'[r][b].org
               PROVE  file'[r][a].number # file'[r][b].number
    BY <1>17 DEF ServiceNumbersApart
  <2>1. ASSUME NEW o \in Persons, o # p, r = t, Present(t, p), Present(t, o),
               file'[t][p].org = file'[t][o].org
        PROVE  file'[t][p].number # file'[t][o].number
    <3>1. file'[t][o] = file[t][o] /\ file[t][p].org = file[t][o].org
      BY <1>15, <1>16, <2>1
    <3>2. file[t][p].number # file[t][o].number
      BY <1>1, <2>1, <3>1 DEF ServiceNumbersApart
    <3>3. file[t][o].number \in NumbersOf(t, file[t][p].org) \ {file[t][p].number}
      BY <2>1, <3>1, <3>2 DEF NumbersOf
    <3>4. CASE s[2] = "main" /\ u.number # NoNumber
      BY <1>8, <1>15, <2>1, <3>1, <3>3, <3>4
    <3>5. CASE ~(s[2] = "main" /\ u.number # NoNumber)
      BY <1>15, <2>1, <3>1, <3>2, <3>5
    <3> QED BY <3>4, <3>5
  <2>2. CASE r = t /\ a = p
    BY <2>1, <2>2
  <2>3. CASE r = t /\ b = p
    BY <2>1, <2>3
  <2>4. CASE <<r, a>> # <<t, p>> /\ <<r, b>> # <<t, p>>
    BY <1>1, <1>16, <2>4 DEF ServiceNumbersApart
  <2> QED BY <2>2, <2>3, <2>4
<1>23. FilesTypeOK'
  <2>1. file' \in [Tables -> [Persons -> {Unused, Gone} \cup Kept]]
    <3>1. CASE Present(t, p)
      <4>1. PICK g \in Kept : g = Changed(file[t][p], u)
        BY <1>15, <3>1
      <4>2. file' = [file EXCEPT ![t][p] = g]
        BY <1>12, <3>1, <4>1
      <4> QED BY <1>1, <4>2 DEF FilesTypeOK
    <3>2. CASE ~Present(t, p)
      BY <1>1, <1>12, <3>2 DEF FilesTypeOK
    <3> QED BY <3>1, <3>2
  <2>2. due' \in [Tables -> [Persons -> Contents]]
    BY <1>1, <1>12, <1>14 DEF FilesTypeOK
  <2>3. call' \in [Callers -> Call]
    BY <1>1, <1>12, <1>13, OneCaller
  <2>4. editions' \in 0 .. MaxEditions /\ torn' \subseteq Tables \X Persons
    BY <1>1, <1>12 DEF FilesTypeOK
  <2>5. report' \in Report /\ lost' \subseteq Persons \X Lists
    BY <1>1, <1>12, SilentIsWhole DEF FilesTypeOK
  <2> QED BY <2>1, <2>2, <2>3, <2>4, <2>5 DEF FilesTypeOK
<1> QED BY <1>1, <1>19, <1>20, <1>21, <1>22, <1>23, SilentIsWhole DEF FilesInv, Constants

LEMMA RunStatementStep ==
  ASSUME FilesInv, NEW c \in Callers, RunStatement(c)
  PROVE  FilesInv'
<1>1. call[c].op = "update" /\ UNCHANGED editions /\ Silent
  BY DEF RunStatement
<1>2. CASE StatementFails(c)
  BY <1>1, <1>2, FailsStep
<1>3. CASE /\ \/ call[c].table = "guard" /\ GuardStatementRuns(call[c])
              \/ call[c].table = "employee" /\ EmployeeStatementRuns(call[c])
           /\ StatementSucceeds(c)
  BY <1>1, <1>3, SucceedsStep
<1> QED BY <1>2, <1>3 DEF RunStatement

LEMMA RemoveStep ==
  ASSUME FilesInv, NEW t \in Tables, NEW p \in Persons, Remove(t, p)
  PROVE  FilesInv'
<1>1. Constants /\ FilesTypeOK /\ ServiceNumbersApart /\ RequestsFine /\ FilesWhole /\ ListsRefilled
  BY DEF FilesInv
<1>2. /\ file' = [file EXCEPT ![t][p] = Gone] /\ due' = [due EXCEPT ![t][p] = Nothing]
      /\ call' = call /\ editions' = editions /\ torn' = torn /\ lost' = lost /\ Silent
  BY DEF Remove
<1>3. Gone # Unused /\ Gone.status # "KEPT"
  <2>1. Gone.status # Unused.status /\ Gone.status # "KEPT"
    BY DEF Gone, Unused
  <2> QED BY <2>1
<1>4. Nothing \in Contents
  BY <1>1 DEF Nothing, Contents
<1>5. /\ file'[t][p] = Gone
      /\ \A s \in Tables, q \in Persons : <<s, q>> # <<t, p>> =>
           file'[s][q] = file[s][q] /\ due'[s][q] = due[s][q]
  BY <1>1, <1>2 DEF FilesTypeOK
<1>6. /\ ~Present(t, p)'
      /\ \A s \in Tables, q \in Persons : <<s, q>> # <<t, p>> => (Present(s, q)' <=> Present(s, q))
  BY <1>3, <1>5 DEF Present
<1>7. \A s \in Tables, q \in Persons : Updates(s, q)' = Updates(s, q)
  BY <1>2 DEF Updates
<1>8. FilesTypeOK'
  <2>1. file' \in [Tables -> [Persons -> {Unused, Gone} \cup Kept]]
    BY <1>1, <1>2 DEF FilesTypeOK
  <2>2. due' \in [Tables -> [Persons -> Contents]]
    BY <1>1, <1>2, <1>4 DEF FilesTypeOK
  <2> QED BY <1>1, <1>2, <2>1, <2>2, SilentIsWhole DEF FilesTypeOK
<1>9. ServiceNumbersApart'
  BY <1>1, <1>5, <1>6 DEF ServiceNumbersApart
<1>10. RequestsFine'
  <2> SUFFICES ASSUME NEW c \in Callers
               PROVE  /\ call[c].op = "upload" => Distinct(call[c].rows) /\ call[c].rows # {}
                      /\ call[c].op = "update" =>
                           /\ Progress(call[c]) /\ file'[call[c].table][call[c].person] # Unused
                           /\ call[c].table = "employee" => call[c].number = NoNumber
    BY <1>2 DEF RequestsFine
  <2>1. call[c].op = "update" => call[c].table \in Tables /\ call[c].person \in Persons
    BY <1>1, CallFields DEF FilesTypeOK
  <2> QED BY <1>1, <1>3, <1>5, <2>1 DEF RequestsFine
<1>11. FilesWhole'
  <2> SUFFICES ASSUME NEW s \in Tables, NEW q \in Persons
               PROVE  Whole(s, q)'
    BY DEF FilesWhole
  <2>1. CASE <<s, q>> = <<t, p>>
    BY <1>6, <2>1 DEF Whole
  <2>2. CASE <<s, q>> # <<t, p>>
    <3>1. Whole(s, q)
      BY <1>1 DEF FilesWhole
    <3> QED BY <1>2, <1>5, <1>6, <1>7, <2>2, <3>1 DEF Whole
  <2> QED BY <2>1, <2>2
<1>12. ListsRefilled'
  <2> SUFFICES ASSUME NEW q \in Persons, NEW l \in Lists
               PROVE  Refilled(q, l)'
    BY DEF ListsRefilled
  <2>1. CASE <<"guard", q>> = <<t, p>>
    BY <1>6, <2>1 DEF Refilled
  <2>2. CASE <<"guard", q>> # <<t, p>>
    <3>1. Refilled(q, l) /\ "guard" \in Tables
      BY <1>1 DEF ListsRefilled, Tables
    <3> QED BY <1>2, <1>5, <1>6, <1>7, <2>2, <3>1 DEF Refilled
  <2> QED BY <2>1, <2>2
<1> QED BY <1>1, <1>2, <1>8, <1>9, <1>10, <1>11, <1>12, SilentIsWhole DEF FilesInv, Constants
-----------------------------------------------------------------------------
(* The theorems.                                                             *)

LEMMA InitIsFine ==
  ASSUME Constants, FilesInit
  PROVE  FilesInv
<1>1. /\ file = [t \in Tables |-> [p \in Persons |-> Unused]]
      /\ call = [c \in Callers |-> Idle] /\ editions = 0
      /\ due = [t \in Tables |-> [p \in Persons |-> Nothing]] /\ torn = {} /\ lost = {} /\ report = NoReport
  BY DEF FilesInit
<1>2. Nothing \in Contents
  BY DEF Nothing, Contents
<1>3. NoReport \in Report /\ UploadsWhole
  BY <1>1 DEF NoReport, Report, UploadsWhole
<1>4. Idle \in Call /\ Idle.op = "idle"
  BY DEF Call, Idle
<1>5. FilesTypeOK
  BY <1>1, <1>2, <1>3, <1>4 DEF FilesTypeOK, Constants
<1>6. \A t \in Tables, p \in Persons : ~Present(t, p)
  BY <1>1 DEF Present, Unused
<1>7. ServiceNumbersApart
  BY <1>6 DEF ServiceNumbersApart
<1>8. RequestsFine
  BY <1>1, <1>4 DEF RequestsFine
<1>9. FilesWhole
  BY <1>6 DEF FilesWhole, Whole
<1>10. ListsRefilled
  BY <1>6 DEF ListsRefilled, Refilled, Tables
<1> QED BY <1>3, <1>5, <1>7, <1>8, <1>9, <1>10 DEF FilesInv

LEMMA StepIsFine ==
  ASSUME FilesInv, [FilesNext]_fileVars
  PROVE  FilesInv'
<1>1. CASE UNCHANGED fileVars
  <2>1. UNCHANGED <<file, call, editions, due, torn, lost, report>>
    BY <1>1 DEF fileVars
  <2>2. FilesTypeOK' /\ ServiceNumbersApart' /\ RequestsFine' /\ UploadsWhole' /\ Constants'
    BY <2>1 DEF FilesInv, FilesTypeOK, ServiceNumbersApart, Present, RequestsFine,
       UploadsWhole, Constants
  <2>3. \A t \in Tables, p \in Persons : Updates(t, p)' = Updates(t, p)
    BY <2>1 DEF Updates
  <2>4. FilesWhole' /\ ListsRefilled'
    BY <2>1, <2>3 DEF FilesInv, FilesWhole, Whole, ListsRefilled, Refilled, Present, Tables
  <2> QED BY <2>2, <2>4 DEF FilesInv
<1>2. ASSUME NEW c \in Callers, NEW o \in Organizations, NEW p \in Persons, NEW parts \in Creations,
             \/ \E n \in Numbers \cup {NoNumber} : BeginCreateGuard(c, o, p, n, parts)
             \/ BeginCreateEmployee(c, o, p, parts)
      PROVE  FilesInv'
  BY <1>2, BeginCreateGuardStep, BeginCreateEmployeeStep
<1>3. ASSUME NEW c \in Callers, NEW o \in Organizations, NEW rows \in Uploaded,
             \/ UploadGuards(c, o, rows) \/ UploadEmployees(c, o, rows)
             \/ BeginImport(c, o, rows)
      PROVE  FilesInv'
  BY <1>3, UploadStep, BeginImportStep
<1>4. ASSUME NEW c \in Callers, NEW o \in Organizations, NEW p \in Persons,
             NEW n \in Numbers \cup {NoNumber}, NEW parts \in Changes,
             BeginUpdateGuard(c, o, p, n, parts)
      PROVE  FilesInv'
  BY <1>4, BeginUpdateGuardStep
<1>5. ASSUME NEW c \in Callers,
             \/ CommitCreate(c) \/ CommitUpload(c) \/ RunStatement(c)
             \/ \E row \in Row : ImportRow(c, row)
             \/ \E p \in Persons, parts \in Changes : BeginUpdateEmployee(c, p, parts)
      PROVE  FilesInv'
  BY <1>5, CommitCreateStep, CommitUploadStep, RunStatementStep, ImportRowStep,
     BeginUpdateEmployeeStep
<1>6. ASSUME NEW t \in Tables, NEW p \in Persons, Remove(t, p) PROVE FilesInv'
  BY <1>6, RemoveStep
<1> QED BY <1>1, <1>2, <1>3, <1>4, <1>5, <1>6 DEF FilesNext

\* Files, the requests at work on them and what they answered stay as they
\* should be: an update that runs alone has done the statements it is through
\* with and no others.
THEOREM FilesInvariant == FilesSpec => []FilesInv
<1>1. FilesInit => FilesInv
  BY InitIsFine, ConstantsAssumption
<1>2. FilesInv /\ [FilesNext]_fileVars => FilesInv'
  BY StepIsFine, ConstantsAssumption
<1> QED BY <1>1, <1>2, PTL DEF FilesSpec

\* Columns stay in their ranges, and no service number of an organization is
\* given to two guards or two employees, whatever creations, uploads, imports,
\* renumberings and removals cross.
THEOREM FilesKeepSchema == FilesSpec => []FileSchemaKept
<1>1. FilesInv => FileSchemaKept
  BY DEF FilesInv, FileSchemaKept
<1> QED BY <1>1, FilesInvariant, PTL

\* An update that runs alone, and succeeds, is complete when it ends: a file
\* holds what the updates that succeeded supplied, unless one failed half-way or
\* two overlapped.
THEOREM FilesStayAsUpdated == FilesSpec => []FilesAsUpdated
<1>1. FilesInv => FilesAsUpdated
  BY DEF FilesInv, FilesWhole, Whole, FilesAsUpdated
<1> QED BY <1>1, FilesInvariant, PTL

\* The experience and the references of a guard, once given, are lost only with an
\* update that fails at the statement that is to fill the list again, whichever
\* updates overlap: one that has cleared a list is at the statement that fills it.
THEOREM GuardHistoryStaysKept == FilesSpec => []GuardHistoryKept
<1>1. FilesInv => GuardHistoryKept
  BY DEF FilesInv, ListsRefilled, Refilled, GuardHistoryKept
<1> QED BY <1>1, FilesInvariant, PTL

\* What a bulk upload and an import answer is what they did.
THEOREM UploadsStayWhole == FilesSpec => []UploadsWhole
<1>1. FilesInv => UploadsWhole
  BY DEF FilesInv
<1> QED BY <1>1, FilesInvariant, PTL
==============================================================================
