--------------------------- MODULE CommandClients ---------------------------
(***************************************************************************)
(* The way of an operator's command: from the MQTT broker by way of        *)
(* cloud_manager's dispatcher.py, or from a browser by way of the HMI      *)
(* server (auth.py, deps.py, control.py, alarm.py), to the REP socket of   *)
(* control_manager or alarm_manager, and the answer's way back.            *)
(*                                                                         *)
(* The dispatcher has one REQ socket per target for all its life; the HMI  *)
(* server makes one per request.                                           *)
(***************************************************************************)
EXTENDS Integers, Sequences, FiniteSets

CONSTANTS
  Targets,      (* The managers that take commands.                        *)
  Tokens,       (* What the HMI server draws its tokens from.              *)
  MaxCommands,  (* RateLimiter: this many commands in                      *)
  Window,       (* this time.                                              *)
  MaxSessions,  (* MAX_CONCURRENT_SESSIONS                                 *)
  Life,         (* session_timeout_s                                       *)
  MaxTime, MaxMessages, MaxRequests, MaxCrashes  (* Bounds.                *)

ASSUME CommandAssumption ==
  /\ MaxCommands \in Nat \ {0} /\ Window \in Nat /\ Life \in Nat
  /\ MaxSessions \in Nat \ {0} /\ MaxSessions < Cardinality(Tokens)
  /\ {MaxTime, MaxMessages, MaxRequests, MaxCrashes} \subseteq Nat

VARIABLES
  now,
  queue,      (* command_queue: MQTT messages [id, form, target].          *)
  made,       (* How many there were.                                      *)
  stamps,     (* RateLimiter._timestamps                                   *)
  cloud,      (* The message whose answer the dispatcher waits for, or     *)
              (* Nothing.                                                  *)
  socket,     (* Of each target: TRUE when a REQ socket that sent waits    *)
              (* for an answer, and the answers it holds.                  *)
  responses,  (* Published: [id, done, of], the answer being that of `of'. *)
  tokens,     (* TokenStore._tokens: token -> expires_at                   *)
  requests,   (* HMI requests: a sequence of what became of each.          *)
  up, inbox,  (* Of each target: it runs, and the commands it was sent.    *)
  executed,   (* History: the commands that were executed.                 *)
  forwarded,  (* History: when the dispatcher sent its commands.           *)
  crashes

mqtt    == <<queue, made>>
rest    == <<stamps, forwarded>>
hmi     == <<tokens, requests>>
servers == <<up, inbox, executed, crashes>>
vars    == <<now, mqtt, rest, cloud, socket, responses, hmi, servers>>

Nothing == [id |-> 0]
Forms   == {"garbled", "strange", "refused", "good"}

Init ==
  /\ now = 0 /\ queue = <<>> /\ made = 0
  /\ stamps = <<>> /\ forwarded = <<>>
  /\ cloud = Nothing /\ responses = {}
  /\ socket = [t \in Targets |-> [waits |-> FALSE, answers |-> <<>>]]
  /\ tokens = <<>> /\ requests = <<>>
  /\ up = [t \in Targets |-> TRUE] /\ inbox = [t \in Targets |-> <<>>]
  /\ executed = {} /\ crashes = 0

Tick ==
  /\ now < MaxTime /\ now' = now + 1
  /\ UNCHANGED <<mqtt, rest, cloud, socket, responses, hmi, servers>>
-----------------------------------------------------------------------------
(* cloud_manager.                                                           *)

(* _on_message(): the network thread queues it. *)
Arrive ==
  /\ made < MaxMessages /\ made' = made + 1
  /\ \E form \in Forms, target \in Targets :
       queue' = Append(queue, [id |-> made', form |-> form, target |-> target])
  /\ UNCHANGED <<now, rest, cloud, socket, responses, hmi, servers>>

(* publish_response(): an answer, or word that there is none. *)
Respond(message, done, of) ==
  responses' = responses \cup {[id |-> message.id, done |-> done, of |-> of]}
Error(message) == Respond(message, FALSE, message.id)

(* Slip: a command as old as the window is forgotten. *)
RecentExclusive ==
  LET old == {i \in DOMAIN stamps : stamps[i] <= now - Window}
  IN  SubSeq(stamps, Cardinality(old) + 1, Len(stamps))

(* RateLimiter.allow(): what is left of the window before this command.     *)
(* The times never go down, so what is dropped is the beginning.            *)
Recent ==
  LET old == {i \in DOMAIN stamps : stamps[i] < now - Window}
  IN  SubSeq(stamps, Cardinality(old) + 1, Len(stamps))

Take ==
  /\ cloud = Nothing /\ queue # <<>>
  /\ queue' = Tail(queue)
  /\ UNCHANGED <<now, made, hmi, up, executed, crashes>>

(* A message that cannot be parsed, or lacks a field, is answered; one that *)
(* is "strange", JSON of another shape, ends in an exception that is only   *)
(* logged: here, or for its parameters once the limiter has counted it.     *)
Reject ==
  /\ Take /\ Head(queue).form \in {"garbled", "strange"}
  /\ IF Head(queue).form = "garbled" THEN Error(Head(queue)) ELSE UNCHANGED responses
  /\ UNCHANGED <<rest, cloud, socket, inbox>>

Limit ==
  /\ Take /\ Head(queue).form # "garbled"
  /\ Len(Recent) >= MaxCommands
  /\ stamps' = Recent /\ Error(Head(queue))
  /\ UNCHANGED <<forwarded, cloud, socket, inbox>>

(* Slip: the limiter only counts. *)
AllowedUnchecked == Take /\ stamps' = Append(Recent, now)

Allowed ==
  /\ Take /\ Len(Recent) < MaxCommands
  /\ stamps' = Append(Recent, now)

(* An unknown command, or one whose parameters do not pass or raise, has    *)
(* been counted.                                                            *)
Refuse ==
  /\ Allowed /\ Head(queue).form \in {"strange", "refused"}
  /\ IF Head(queue).form = "refused" THEN Error(Head(queue)) ELSE UNCHANGED responses
  /\ UNCHANGED <<forwarded, cloud, socket, inbox>>

(* Slip: the socket sends again without the answer to what it sent before.  *)
ForwardRelaxed ==
  /\ Allowed /\ Head(queue).form = "good"
  /\ LET message == Head(queue)
         t       == message.target
     IN  /\ cloud' = message
         /\ socket' = [socket EXCEPT ![t].waits = TRUE]
         /\ inbox' = [inbox EXCEPT ![t] = Append(@, message.id)]
         /\ forwarded' = Append(forwarded, now)
         /\ UNCHANGED responses

(* _send_recv(): a REQ socket that still waits for an answer cannot send.   *)
Forward ==
  /\ Allowed /\ Head(queue).form = "good"
  /\ LET message == Head(queue)
         t       == message.target
     IN  IF socket[t].waits
         THEN Error(message) /\ UNCHANGED <<forwarded, cloud, socket, inbox>>
         ELSE /\ cloud' = message
              /\ socket' = [socket EXCEPT ![t].waits = TRUE]
              /\ inbox' = [inbox EXCEPT ![t] = Append(@, message.id)]
              /\ forwarded' = Append(forwarded, now)
              /\ UNCHANGED responses

Receive ==
  /\ cloud # Nothing
  /\ LET t == cloud.target
     IN  /\ socket[t].answers # <<>>
         /\ socket' = [socket EXCEPT ![t] = [waits |-> FALSE, answers |-> Tail(@.answers)]]
         /\ Respond(cloud, TRUE, Head(socket[t].answers))
  /\ cloud' = Nothing
  /\ UNCHANGED <<now, mqtt, rest, hmi, servers>>

(* Slip: the exception of a timeout is caught further out. *)
TimeoutUnanswered ==
  /\ cloud # Nothing /\ socket[cloud.target].answers = <<>>
  /\ cloud' = Nothing
  /\ UNCHANGED <<now, mqtt, rest, socket, responses, hmi, servers>>

(* RCVTIMEO: the command has failed, and the socket waits on.               *)
Timeout ==
  /\ cloud # Nothing /\ socket[cloud.target].answers = <<>>
  /\ Error(cloud) /\ cloud' = Nothing
  /\ UNCHANGED <<now, mqtt, rest, socket, hmi, servers>>

Dispatch == Reject \/ Limit \/ Refuse \/ Forward \/ Receive \/ Timeout

-----------------------------------------------------------------------------
(* The HMI server.                                                          *)

Live(token) == token \in DOMAIN tokens /\ now <= tokens[token]

(* Slip: nothing is cleaned up for a login. *)
RoomAsItIs == tokens

(* create_token(): expired sessions make room when there is none.           *)
Room ==
  IF Cardinality(DOMAIN tokens) >= MaxSessions
  THEN [token \in {k \in DOMAIN tokens : Live(k)} |-> tokens[token]]
  ELSE tokens

Login ==
  /\ IF Cardinality(DOMAIN Room) >= MaxSessions THEN tokens' = Room
     ELSE \E token \in Tokens \ DOMAIN Room :
            tokens' = [k \in DOMAIN Room \cup {token} |-> IF k = token THEN now + Life ELSE Room[k]]
  /\ UNCHANGED <<now, mqtt, rest, cloud, socket, responses, requests, servers>>

(* logout(), and the expiry that validate_token() and the loop of           *)
(* cleanup_expired() find.                                                  *)
Without(gone) == tokens' = [token \in DOMAIN tokens \ gone |-> tokens[token]]
Logout ==
  /\ \E token \in DOMAIN tokens : Without({token})
  /\ UNCHANGED <<now, mqtt, rest, cloud, socket, responses, requests, servers>>
CleanUp ==
  /\ \E token \in DOMAIN tokens : ~Live(token)
  /\ Without({token \in DOMAIN tokens : ~Live(token)})
  /\ UNCHANGED <<now, mqtt, rest, cloud, socket, responses, requests, servers>>

(* _send_control(): the command of a route, to its target.                  *)
Id(r) == MaxMessages + r
Send(t) == inbox' = [inbox EXCEPT ![t] = Append(@, Id(Len(requests) + 1))]

(* require_auth() and zmq_command(): a socket of its own for the request.   *)
Request ==
  /\ Len(requests) < MaxRequests
  /\ \E token \in DOMAIN tokens : Live(token)
  /\ requests' = Append(requests, "waiting")
  /\ \E t \in Targets : Send(t)
  /\ UNCHANGED <<now, mqtt, rest, cloud, socket, responses, tokens, up, executed, crashes>>

(* 504 *)
GiveUp(r) ==
  /\ requests[r] = "waiting"
  /\ requests' = [requests EXCEPT ![r] = "timeout"]
  /\ UNCHANGED <<now, mqtt, rest, cloud, socket, responses, tokens, servers>>

-----------------------------------------------------------------------------
(* control_manager and alarm_manager: _poll_commands() answers each request *)
(* in turn, to a socket that may be gone by then.                           *)
Serve(t) ==
  /\ up[t] /\ inbox[t] # <<>>
  /\ LET id == Head(inbox[t])
     IN  /\ executed' = executed \cup {id}
         /\ IF id <= MaxMessages
            THEN /\ socket' = [socket EXCEPT ![t].answers = Append(@, id)]
                 /\ UNCHANGED requests
            ELSE /\ requests' = [requests EXCEPT ![id - MaxMessages] = IF @ = "waiting" THEN "done" ELSE @]
                 /\ UNCHANGED socket
  /\ inbox' = [inbox EXCEPT ![t] = Tail(@)]
  /\ UNCHANGED <<now, mqtt, rest, cloud, responses, tokens, up, crashes>>

Crash(t) ==
  /\ up[t] /\ crashes < MaxCrashes /\ crashes' = crashes + 1
  /\ up' = [up EXCEPT ![t] = FALSE] /\ inbox' = [inbox EXCEPT ![t] = <<>>]
  /\ UNCHANGED <<now, mqtt, rest, cloud, socket, responses, hmi, executed>>

Start(t) ==
  /\ ~up[t] /\ up' = [up EXCEPT ![t] = TRUE]
  /\ UNCHANGED <<now, mqtt, rest, cloud, socket, responses, hmi, inbox, executed, crashes>>

Sessions == Login \/ Logout \/ CleanUp
Next ==
  \/ Tick \/ Arrive \/ Dispatch \/ Sessions
  \/ Request \/ \E r \in DOMAIN requests : GiveUp(r)
  \/ \E t \in Targets : Serve(t) \/ Crash(t) \/ Start(t)

Spec == Init /\ [][Next]_vars

(* The dispatcher's loop and its waits end, and so does each request's.     *)
FairSpec ==
  /\ Spec /\ WF_vars(Dispatch)
  /\ \A r \in 1 .. MaxRequests : WF_vars(r \in DOMAIN requests /\ GiveUp(r))
-----------------------------------------------------------------------------
(* Properties.                                                              *)

(* Every variable stays in its domain, and the dispatcher waits only on a   *)
(* socket that sent (dispatcher.py, auth.py).                               *)
TypeOK ==
  /\ now \in 0 .. MaxTime /\ made \in 0 .. MaxMessages
  /\ queue \in Seq([id : 1 .. MaxMessages, form : Forms, target : Targets])
  /\ stamps \in Seq(0 .. MaxTime) /\ Len(stamps) <= MaxCommands
  /\ cloud # Nothing => socket[cloud.target].waits
  /\ DOMAIN tokens \subseteq Tokens /\ Cardinality(DOMAIN tokens) <= MaxSessions
  /\ requests \in Seq({"waiting", "done", "timeout"}) /\ Len(requests) <= MaxRequests
  /\ crashes \in 0 .. MaxCrashes

(* A response that says what a manager answered is the answer to that very  *)
(* command, which was executed, and a command has one response              *)
(* (dispatcher.py dispatch(), _send_recv()).                                *)
AnswersMatch ==
  \A r \in responses :
    /\ r.done => r.of = r.id /\ r.id \in executed
    /\ \A s \in responses : s.id = r.id => s = r

(* No span of the window's length holds more commands than the limit,       *)
(* wherever it begins (dispatcher.py RateLimiter.allow()).                  *)
RateIsLimited ==
  \A i, j \in DOMAIN forwarded :
    forwarded[j] - forwarded[i] <= Window => j - i < MaxCommands

(* A command of the cloud and a request of a browser are answered in the    *)
(* end, be it by a failure, though managers are down or die meanwhile       *)
(* (dispatcher.py dispatch(), deps.py zmq_command()).                       *)
Answered(id) == \E r \in responses : r.id = id
Waits(r) == r \in DOMAIN requests /\ requests[r] = "waiting"
RequestsAreAnswered ==
  /\ \A id \in 1 .. MaxMessages :
       (\E i \in DOMAIN queue : queue[i].id = id /\ queue[i].form # "strange") ~> Answered(id)
  /\ \A r \in 1 .. MaxRequests : Waits(r) ~> ~Waits(r)

(* A login is turned away only when as many others are still logged in, and *)
(* puts none of them out (auth.py create_token()).                          *)
LoginsFindRoom ==
  LET live == {token \in Tokens : Live(token)}
  IN  /\ live \subseteq DOMAIN Room
      /\ Cardinality(DOMAIN Room) >= MaxSessions => Cardinality(live) >= MaxSessions

=============================================================================
