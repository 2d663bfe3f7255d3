-------------------------- MODULE FingerprintCapture --------------------------
(***************************************************************************)
(* Fingerprints: the server asks the agent beside the reader for a scan    *)
(* and for its health, stores images in the bucket, and keeps where each   *)
(* user's agent listens.  Source: src/src/biometric/biometric.service.ts,  *)
(* biometric-config.service.ts, and uploadBufferToS3 of                    *)
(* src/src/file/file.service.ts.                                           *)
(*                                                                         *)
(* The agent is not in this repository: it is modelled from what the       *)
(* service's comments and error handling say of it.  It may be down, crash *)
(* at any time, work for longer than the server waits, and refuses a scan  *)
(* while it makes another; its reader may be unplugged.  A request that    *)
(* the server gave up on stays with the agent.                             *)
(***************************************************************************)
EXTENDS Integers, FiniteSets

CONSTANTS Requests,    \* the requests clients send, each of them once
          RetryLimits, \* twice the maxRetries of a capture: 5 stands for 2.5
          Users,
          MaxNow,      \* the clock shows 0 .. MaxNow
          None         \* null

ASSUME RetryLimitsAssumption ==
  RetryLimits \subseteq Nat \ {0, 1} /\ RetryLimits # {} /\ IsFiniteSet(RetryLimits)
ASSUME MaxNowAssumption == MaxNow \in Nat
ASSUME NoneAssumption == None \notin Nat /\ None \notin Requests

VARIABLES
  request,  \* how far each request has come
  agent,    \* the agent's process, its reader and the scan it works on
  wire,     \* what the agent has not taken from its socket yet
  answers,  \* what it has answered
  taken,    \* the scans it has made, by the attempt that asked for them
  now,      \* the clock, in milliseconds
  bucket,   \* whose image is under the key of each instant
  users,    \* the users there are
  configs   \* the users with an agent configuration

vars == <<request, agent, wire, answers, taken, now, bucket, users, configs>>
network == <<agent, wire, answers, taken>>
files == <<now, bucket>>
accounts == <<users, configs>>

Most == CHOOSE n \in RetryLimits : \A m \in RetryLimits : m <= n
Attempts == 1 .. Most \div 2
Messages == Requests \X Attempts

NetworkErrors == {"ECONNREFUSED", "ECONNABORTED", "ECONNRESET"}
AgentErrors == {"CONCURRENT_CAPTURE", "CAPTURE_TIMEOUT", "DEVICE_NOT_CONNECTED"}
Health == {"healthy", "degraded"}

Request ==
  [phase : {"NEW", "KEY", "REFUSED"}]
  \cup [phase : {"ASK"}, kind : {"capture", "health"}, limit : RetryLimits \cup {2},
        attempt : Attempts, slept : Nat]
  \cup [phase : {"SLEEP"}, limit : RetryLimits, attempt : Attempts, slept : Nat,
        error : NetworkErrors]
  \cup [phase : {"DONE"}, kind : {"capture"}, limit : RetryLimits, attempt : Attempts,
        slept : Nat, outcome : NetworkErrors \cup AgentErrors \cup {"IMAGE"}]
  \cup [phase : {"DONE"}, kind : {"health"}, outcome : Health \cup {"unhealthy"}]
  \cup [phase : {"PUT", "SAVED"}, at : 0 .. MaxNow]
  \cup [phase : {"SAVE_CONFIG", "FIND_CONFIG", "DELETE_CONFIG"}, user : Users]
  \cup [phase : {"CONFIGURED"}]

\* The requests, the agent and the files stay in their ranges.
TypeOK ==
  /\ request \in [Requests -> Request]
  /\ agent \in [up : BOOLEAN, plugged : BOOLEAN, scan : Messages \cup {None}]
  /\ wire \subseteq Messages
  /\ answers \subseteq [to : Messages, is : AgentErrors \cup Health \cup {"IMAGE"}]
  /\ taken \subseteq Messages
  /\ now \in 0 .. MaxNow
  /\ bucket \in [0 .. MaxNow -> Requests \cup {None}]
  /\ users \subseteq Users /\ configs \subseteq Users

Init ==
  /\ request = [r \in Requests |-> [phase |-> "NEW"]]
  /\ agent \in [up : BOOLEAN, plugged : BOOLEAN, scan : {None}]
  /\ wire = {} /\ answers = {} /\ taken = {}
  /\ now = 0
  /\ bucket = [t \in 0 .. MaxNow |-> None]
  /\ users = Users
  /\ configs = {}

Becomes(r, next) == request' = [request EXCEPT ![r] = next]
-----------------------------------------------------------------------------
(* Asking the agent.                                                         *)

Capture(r, limit) ==
  /\ request[r].phase = "NEW"
  /\ Becomes(r, [phase |-> "ASK", kind |-> "capture", limit |-> limit,
                 attempt |-> 1, slept |-> 0])
  /\ wire' = wire \cup {<<r, 1>>}
  /\ UNCHANGED <<agent, answers, taken, files, accounts>>

\* checkAgentHealth asks once.
CheckHealth(r) ==
  /\ request[r].phase = "NEW"
  /\ Becomes(r, [phase |-> "ASK", kind |-> "health", limit |-> 2,
                 attempt |-> 1, slept |-> 0])
  /\ wire' = wire \cup {<<r, 1>>}
  /\ UNCHANGED <<agent, answers, taken, files, accounts>>

Finish(r, outcome) ==
  IF request[r].kind = "health"
  THEN Becomes(r, [phase |-> "DONE", kind |-> "health",
                   outcome |-> IF outcome \in Health THEN outcome ELSE "unhealthy"])
  ELSE Becomes(r, [phase |-> "DONE", kind |-> "capture", limit |-> request[r].limit,
                   attempt |-> request[r].attempt, slept |-> request[r].slept,
                   outcome |-> outcome])

\* Math.pow(2, n)
PowerOfTwo[n \in 0 .. Most] == IF n = 0 THEN 1 ELSE 2 * PowerOfTwo[n - 1]

\* Mutant of Backoff: the exponent is not reduced by one.
BackoffLong(n) == PowerOfTwo[n]

\* The n-th pause, in units of AGENT_RETRY_DELAY.
Backoff(n) == PowerOfTwo[n - 1]

\* Mutant of Fails: the answer to the last attempt is a failure as well, and
\* there is always another attempt.
FailsForever(r, error) ==
  IF request[r].kind = "health" THEN Finish(r, error)
  ELSE Becomes(r, [phase |-> "SLEEP", limit |-> request[r].limit, attempt |-> 1,
                   slept |-> 0, error |-> error])

\* A network error: the last attempt passes it on, any other one is followed
\* by a pause.  A limit that is not a whole number has no last attempt.
Fails(r, error) ==
  IF request[r].kind = "health" \/ 2 * request[r].attempt = request[r].limit
  THEN Finish(r, error)
  ELSE Becomes(r, [phase |-> "SLEEP", limit |-> request[r].limit,
                   attempt |-> request[r].attempt,
                   slept |-> request[r].slept + Backoff(request[r].attempt),
                   error |-> error])

Asking(r) == request[r].phase = "ASK"
Pending(r) == <<r, request[r].attempt>>

\* The agent is not running, or went down before it answered.
Disconnected(r) ==
  /\ Asking(r) /\ ~agent.up
  /\ \E error \in {"ECONNREFUSED", "ECONNRESET"} : Fails(r, error)
  /\ wire' = wire \ {Pending(r)}
  /\ UNCHANGED <<agent, answers, taken, files, accounts>>

\* The server has waited for `timeout': the agent does not learn of it.
TimesOut(r) ==
  /\ Asking(r)
  /\ Fails(r, "ECONNABORTED")
  /\ UNCHANGED <<network, files, accounts>>

\* Mutant of Receives: an answer to an earlier attempt is taken as well.
ReceivesLate(r) ==
  /\ Asking(r)
  /\ \E a \in answers : a.to[1] = r /\ Finish(r, a.is) /\ answers' = answers \ {a}
  /\ UNCHANGED <<agent, wire, taken, files, accounts>>

\* Whatever the agent answers ends the request, errors too: they are not tried
\* again.
Receives(r) ==
  /\ Asking(r)
  /\ \E a \in answers : a.to = Pending(r) /\ Finish(r, a.is) /\ answers' = answers \ {a}
  /\ UNCHANGED <<agent, wire, taken, files, accounts>>

\* Mutant of Wakes: the number of the attempt is not increased.
WakesAgain(r) ==
  /\ request[r].phase = "SLEEP"
  /\ Becomes(r, [phase |-> "ASK", kind |-> "capture", limit |-> request[r].limit,
                 attempt |-> request[r].attempt, slept |-> 0])
  /\ wire' = wire \cup {<<r, request[r].attempt>>}
  /\ UNCHANGED <<agent, answers, taken, files, accounts>>

\* After the pause comes the next attempt; with none left, the last error.
Wakes(r) ==
  /\ request[r].phase = "SLEEP"
  /\ LET next == request[r].attempt + 1 IN
       IF 2 * next <= request[r].limit
       THEN /\ Becomes(r, [phase |-> "ASK", kind |-> "capture", limit |-> request[r].limit,
                           attempt |-> next, slept |-> request[r].slept])
            /\ wire' = wire \cup {<<r, next>>}
       ELSE /\ Becomes(r, [phase |-> "DONE", kind |-> "capture", limit |-> request[r].limit,
                           attempt |-> request[r].attempt, slept |-> request[r].slept,
                           outcome |-> request[r].error])
            /\ UNCHANGED wire
  /\ UNCHANGED <<agent, answers, taken, files, accounts>>

\* handleCaptureError: the status of the response to a capture.
StatusOf(outcome) ==
  CASE outcome = "IMAGE" -> 200
    [] outcome = "ECONNREFUSED" -> 503
    [] outcome = "ECONNABORTED" -> 408
    [] outcome = "CONCURRENT_CAPTURE" -> 400
    [] outcome = "CAPTURE_TIMEOUT" -> 408
    [] outcome = "DEVICE_NOT_CONNECTED" -> 503
    [] OTHER -> 500
-----------------------------------------------------------------------------
(* The agent.                                                                *)

Answer(m, is) == answers' = answers \cup {[to |-> m, is |-> is]}

KindOf(m) == IF request[m[1]].phase = "DONE" \/ Asking(m[1]) THEN request[m[1]].kind
             ELSE "capture"

AgentTakes(m) ==
  /\ m \in wire /\ agent.up
  /\ wire' = wire \ {m}
  /\ \/ KindOf(m) = "health"
        /\ Answer(m, IF agent.plugged THEN "healthy" ELSE "degraded") /\ UNCHANGED agent
     \/ KindOf(m) = "capture" /\ ~agent.plugged
        /\ Answer(m, "DEVICE_NOT_CONNECTED") /\ UNCHANGED agent
     \/ KindOf(m) = "capture" /\ agent.plugged /\ agent.scan # None
        /\ Answer(m, "CONCURRENT_CAPTURE") /\ UNCHANGED agent
     \/ KindOf(m) = "capture" /\ agent.plugged /\ agent.scan = None
        /\ agent' = [agent EXCEPT !.scan = m] /\ UNCHANGED answers
  /\ UNCHANGED <<request, taken, files, accounts>>

AgentScans ==
  /\ agent.scan # None
  /\ \/ agent.plugged /\ Answer(agent.scan, "IMAGE") /\ taken' = taken \cup {agent.scan}
     \/ agent.plugged /\ Answer(agent.scan, "CAPTURE_TIMEOUT") /\ UNCHANGED taken
     \/ ~agent.plugged /\ Answer(agent.scan, "DEVICE_NOT_CONNECTED") /\ UNCHANGED taken
  /\ agent' = [agent EXCEPT !.scan = None]
  /\ UNCHANGED <<request, wire, files, accounts>>

\* What it was asked and what it had not delivered is lost with its sockets.
AgentStops ==
  /\ agent.up
  /\ agent' = [agent EXCEPT !.up = FALSE, !.scan = None]
  /\ wire' = {} /\ answers' = {}
  /\ UNCHANGED <<request, taken, files, accounts>>

AgentStarts ==
  /\ ~agent.up
  /\ agent' = [agent EXCEPT !.up = TRUE]
  /\ UNCHANGED <<request, wire, answers, taken, files, accounts>>

ReaderMoves ==
  /\ agent' = [agent EXCEPT !.plugged = ~agent.plugged]
  /\ UNCHANGED <<request, wire, answers, taken, files, accounts>>
-----------------------------------------------------------------------------
(* Saving images.  Requests are for one finger of one person, as those of    *)
(* others have other keys.                                                   *)

\* saveFingerprintToS3 refuses an image that is too small and a person of
\* another organization.
Save(r) ==
  /\ request[r].phase = "NEW"
  /\ \E accepted \in BOOLEAN :
       Becomes(r, [phase |-> IF accepted THEN "KEY" ELSE "REFUSED"])
  /\ UNCHANGED <<network, files, accounts>>

\* Mutant of Key: the key is that of the person and the finger alone.
KeyShared(t) == 0

\* fingerprints/person/finger-Date.now().png
Key(t) == t

ChooseKey(r) ==
  /\ request[r].phase = "KEY"
  /\ Becomes(r, [phase |-> "PUT", at |-> now])
  /\ UNCHANGED <<network, files, accounts>>

\* The upload replaces what is under the key, or fails.
Put(r) ==
  /\ request[r].phase = "PUT"
  /\ \/ /\ bucket' = [bucket EXCEPT ![Key(request[r].at)] = r]
        /\ Becomes(r, [phase |-> "SAVED", at |-> request[r].at])
     \/ /\ Becomes(r, [phase |-> "REFUSED"])
        /\ UNCHANGED bucket
  /\ UNCHANGED <<network, now, accounts>>

Tick ==
  /\ now < MaxNow
  /\ now' = now + 1
  /\ UNCHANGED <<request, network, bucket, accounts>>
-----------------------------------------------------------------------------
(* Where a user's agent listens.                                             *)

\* saveAgentConfig, also for update, finds the user first.
FindUser(r, u) ==
  /\ request[r].phase = "NEW"
  /\ \E wanted \in {"SAVE_CONFIG", "FIND_CONFIG"} :
       IF u \in users THEN Becomes(r, [phase |-> wanted, user |-> u])
       ELSE Becomes(r, [phase |-> "REFUSED"])
  /\ UNCHANGED <<network, files, accounts>>

\* Mutant of Upsert: the row goes in without its user.
UpsertUnreferenced(r) ==
  /\ request[r].phase = "SAVE_CONFIG"
  /\ configs' = configs \cup {request[r].user}
  /\ Becomes(r, [phase |-> "CONFIGURED"])
  /\ UNCHANGED <<network, files, users>>

\* One statement; it violates the foreign key when the user is gone.
Upsert(r) ==
  /\ request[r].phase = "SAVE_CONFIG"
  /\ IF request[r].user \in users
     THEN configs' = configs \cup {request[r].user} /\ Becomes(r, [phase |-> "CONFIGURED"])
     ELSE Becomes(r, [phase |-> "REFUSED"]) /\ UNCHANGED configs
  /\ UNCHANGED <<network, files, users>>

\* getAgentConfig, and deleteAgentConfig up to its second check.
FindConfig(r) ==
  /\ request[r].phase = "FIND_CONFIG"
  /\ IF request[r].user \in configs
     THEN Becomes(r, [phase |-> "DELETE_CONFIG", user |-> request[r].user])
     ELSE Becomes(r, [phase |-> "REFUSED"])
  /\ UNCHANGED <<network, files, accounts>>

\* The deletion throws when another request was faster.
DeleteConfig(r) ==
  /\ request[r].phase = "DELETE_CONFIG"
  /\ IF request[r].user \in configs
     THEN configs' = configs \ {request[r].user} /\ Becomes(r, [phase |-> "CONFIGURED"])
     ELSE Becomes(r, [phase |-> "REFUSED"]) /\ UNCHANGED configs
  /\ UNCHANGED <<network, files, users>>

\* The configuration goes with the user.
RemoveUser(u) ==
  /\ u \in users
  /\ users' = users \ {u} /\ configs' = configs \ {u}
  /\ UNCHANGED <<request, network, files>>
-----------------------------------------------------------------------------
Begin(r) ==
  \/ \E limit \in RetryLimits : Capture(r, limit)
  \/ CheckHealth(r) \/ Save(r)
  \/ \E u \in Users : FindUser(r, u)

\* What the server does with a request without waiting for anybody.
Serve(r) ==
  \/ Wakes(r) \/ TimesOut(r) \/ ChooseKey(r) \/ Put(r)
  \/ Upsert(r) \/ FindConfig(r) \/ DeleteConfig(r)

Agent == AgentScans \/ AgentStops \/ AgentStarts \/ ReaderMoves \/ \E m \in wire : AgentTakes(m)

Next ==
  \/ \E r \in Requests : Begin(r) \/ Serve(r) \/ Receives(r) \/ Disconnected(r)
  \/ Agent \/ Tick
  \/ \E u \in Users : RemoveUser(u)

\* The server's timers run out, and the bucket and the database answer their
\* clients one way or the other.  Nothing is assumed of the agent.
Fairness == \A r \in Requests : WF_vars(Serve(r))

Spec == Init /\ [][Next]_vars /\ Fairness
-----------------------------------------------------------------------------
(* Properties.                                                               *)

Ended(r) == request[r].phase \in {"DONE", "SAVED", "CONFIGURED", "REFUSED"}

\* retryWithBackoff gives up: whatever the agent does or fails to do, every
\* request that was begun is answered.
EveryRequestIsAnswered ==
  \A r \in Requests : request[r].phase # "NEW" ~> Ended(r)

\* An image the server hands out, which it does with status 200 alone, is one
\* the agent made for the attempt the server was waiting for, and not the late
\* answer to one it had given up on.
ImageOfTheLastAttempt ==
  \A r \in Requests :
    /\ request[r].phase = "DONE" /\ request[r].kind = "capture"
    /\ StatusOf(request[r].outcome) = 200
    => Pending(r) \in taken

\* A request is told that the reader is busy only when another one was sent to
\* the agent too, or when the reader is still at work for an attempt of its
\* own that the server gave up on: the retry is then refused for good.
BusyOnlyByOverlap ==
  \A r \in Requests :
    (request[r].phase = "DONE" /\ request[r].outcome = "CONCURRENT_CAPTURE") =>
      \/ request[r].attempt > 1
      \/ \E other \in Requests \ {r} :
           \/ request[other].phase = "SLEEP"
           \/ request[other].phase \in {"ASK", "DONE"} /\ request[other].kind = "capture"

\* The pauses of a request add up to less than 2 ^ (limit - 1) delays, also for
\* a limit that is no whole number and so has a pause after its last attempt.
PausesBounded ==
  \A r \in Requests :
    request[r].phase \in {"ASK", "SLEEP"} =>
      request[r].slept <= PowerOfTwo[(request[r].limit + 1) \div 2 - 1] - 1

\* The image a save has returned the key of stays under the key unless another
\* image of the same finger is saved in the same millisecond.
SavedImageStays ==
  \A r \in Requests : request[r].phase = "SAVED" =>
    \/ bucket[Key(request[r].at)] = r
    \/ \E other \in Requests \ {r} :
         request[other].phase = "SAVED" /\ request[other].at = request[r].at

\* A configuration is that of a user there is, also when the user is removed
\* between the check and the write.
ConfigsHaveUsers == configs \subseteq users

\* No attempt beyond the limit, no answer to a question nobody asked, and no
\* configuration without its user, whatever is late and whoever is removed.
SchemaKept == TypeOK /\ ConfigsHaveUsers
==============================================================================
