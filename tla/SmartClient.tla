---------------------------- MODULE SmartClient ----------------------------
(***************************************************************************)
(* Calls over a connection that may be reset at any time: _SmartClient-    *)
(* Request of bzrlib/smart/client.py decides which requests to send again  *)
(* (smart/request.py classifies the verbs), RemoteBranch of                *)
(* bzrlib/remote.py locks a branch with them, and the server carries them  *)
(* out (bzrlib/smart/branch.py).  A request whose connection was reset may *)
(* have been lost, may have been carried out, or may still be carried out  *)
(* at any later time, when the client has long gone on.                    *)
(* Carrying out one request is one step.                                   *)
(***************************************************************************)
EXTENDS Naturals, Sequences, Functions

CONSTANTS
  Clients,
  Servers,  \* the newest protocol version the server may understand: 2, 3
  NoToken,  \* no lock
  Verbs,    \* what clients call
  MaxRequests, \* bound: calls of all clients
  MaxResets \* bound: how often a connection is reset

\* The `info` of the verbs: what may happen if one is carried out twice.
Info == [get |-> "read", set |-> "idem", lock |-> "semi", unlock |-> "semi",
         mkdir |-> "semivfs", append |-> "mutate", insert |-> "stream"]

ASSUME SmartAssumption ==
  /\ Servers \subseteq {2, 3} /\ Verbs \subseteq DOMAIN Info
  /\ MaxRequests \in Nat /\ MaxResets \in Nat
  /\ NoToken \notin Clients \X Nat \X Nat

VARIABLES
  newest,   \* the protocol version of the server
  version,  \* version[c]: _protocol_version of c's medium, 0 while unknown
  asked,    \* asked[c]: verb and outcome of c's calls, and how often each was carried out
  at,       \* at[c]: where c is in its last call
  sent,     \* sent[c]: number of requests written for the last call
  speaks,   \* speaks[c]: protocol version of the last call
  token,    \* token[c]: _lock_token of c's branch
  passed,   \* passed[c]: the token that goes with c's last call
  wire,     \* requests that the server may still carry out
  answer,   \* answer[c]: what the connection has brought back, if anything
  lockedBy, \* the token of the branch lock on the server
  resets    \* number of connections reset so far

smartvars == <<newest, version, asked, at, sent, speaks, token, passed, wire, answer, lockedBy,
               resets>>
clientvars == <<version, asked, at, speaks, token, passed>>

Silence == "nothing"

SmartInit ==
  /\ newest \in Servers
  /\ version = [c \in Clients |-> 0]
  /\ asked = [c \in Clients |-> <<>>]
  /\ at = [c \in Clients |-> "idle"]
  /\ sent = [c \in Clients |-> 0]
  /\ speaks = [c \in Clients |-> 3]
  /\ token = [c \in Clients |-> NoToken]
  /\ passed = [c \in Clients |-> NoToken]
  /\ wire = {}
  /\ answer = [c \in Clients |-> Silence]
  /\ lockedBy = NoToken /\ resets = 0

Verb(c) == asked[c][Len(asked[c])].verb

TotalCalls == FoldFunction(LAMBDA h, n : Len(h) + n, 0, asked)

\* The last call of c ends: `result` is "done" or "failed".
Ends(c, result) ==
  /\ at' = [at EXCEPT ![c] = "idle"]
  /\ asked' = [asked EXCEPT ![c][Len(asked[c])].outcome = result]
  /\ answer' = [answer EXCEPT ![c] = Silence]

-----------------------------------------------------------------------------
(* The client *)

\* A call begins.  A branch is locked before its tip is set, and RemoteBranch.unlock
\* has forgotten the token when it calls the server.
Begin(c, verb) ==
  /\ at[c] = "idle" /\ TotalCalls < MaxRequests
  /\ verb = "lock" => token[c] = NoToken
  /\ verb \in {"set", "unlock"} => token[c] # NoToken
  /\ asked' = [asked EXCEPT ![c] = Append(@, [verb |-> verb, outcome |-> "open", times |-> 0])]
  /\ at' = [at EXCEPT ![c] = "send"]
  /\ sent' = [sent EXCEPT ![c] = 0]
  /\ speaks' = [speaks EXCEPT ![c] = IF version[c] = 0 THEN 3 ELSE version[c]]
  /\ passed' = [passed EXCEPT ![c] = token[c]]
  /\ token' = [token EXCEPT ![c] = IF verb = "unlock" THEN NoToken ELSE @]
  /\ UNCHANGED <<newest, version, wire, answer, lockedBy, resets>>

\* The request is written: at once ("send"), after a failed write ("resend"), or after
\* the connection was reset while the answer was read ("retry").
Write(c) ==
  /\ at[c] \in {"send", "resend", "retry"}
  /\ sent' = [sent EXCEPT ![c] = @ + 1]
  /\ wire' = wire \cup {[by |-> c, call |-> Len(asked[c]), try |-> sent'[c],
                         verb |-> Verb(c), token |-> passed[c], version |-> speaks[c]]}
  /\ answer' = [answer EXCEPT ![c] = Silence]
  /\ at' = [at EXCEPT ![c] = IF @ = "retry" THEN "reread" ELSE "read"]
  /\ UNCHANGED <<newest, version, asked, speaks, token, passed, lockedBy, resets>>

\* The connection is reset before the request is out: the server has not got it.  It is
\* written once more, unless its body is a stream that has been started on.
WriteFails(c) ==
  /\ at[c] \in {"send", "resend", "retry"} /\ resets < MaxResets
  /\ resets' = resets + 1
  /\ \/ /\ at[c] = "send"
        /\ at' = [at EXCEPT ![c] = "resend"] /\ UNCHANGED <<asked, answer>>
     \/ /\ at[c] # "send" \/ Verb(c) = "insert"
        /\ Ends(c, "failed")
  /\ UNCHANGED <<newest, version, sent, speaks, token, passed, wire, lockedBy>>

\* _is_safe_to_send_twice.
MutSafeToSendTwice(verb) == Info[verb] # "stream"
SafeToSendTwice(verb) == Info[verb] \in {"read", "idem", "semi"}

\* The connection is reset while the answer is read.
ReadFails(c) ==
  /\ at[c] \in {"read", "reread"} /\ resets < MaxResets
  /\ resets' = resets + 1
  /\ IF at[c] = "read" /\ SafeToSendTwice(Verb(c))
     THEN at' = [at EXCEPT ![c] = "retry"] /\ UNCHANGED <<asked, answer>>
     ELSE Ends(c, "failed")
  /\ UNCHANGED <<newest, version, sent, speaks, token, passed, wire, lockedBy>>

\* An answer is read.  If it says that the server does not know the protocol and the
\* client did not know that, the call starts again with the older one.
Read(c) ==
  /\ at[c] \in {"read", "reread"} /\ answer[c] # Silence
  /\ \/ /\ answer[c] = "version"
        /\ speaks' = [speaks EXCEPT ![c] = 2]
        /\ at' = [at EXCEPT ![c] = "send"]
        /\ UNCHANGED <<version, asked, token, answer>>
     \/ /\ answer[c] # "version"
        /\ version' = [version EXCEPT ![c] = speaks[c]]
        /\ token' = [token EXCEPT ![c] = IF Verb(c) = "lock" /\ answer[c] # "error"
                                         THEN <<c, Len(asked[c]), sent[c]>> ELSE @]
        /\ Ends(c, IF answer[c] = "error" THEN "failed" ELSE "done")
        /\ UNCHANGED speaks
  /\ UNCHANGED <<newest, sent, passed, wire, lockedBy, resets>>

-----------------------------------------------------------------------------
(* The server *)

\* What a request answers if it is carried out now.  The tokens of the branch and of its
\* repository are one here; lock_write(token) fails if that is not the one on the disk.
MutVerdict(r) == IF r.verb = "lock" /\ lockedBy # NoToken THEN "error" ELSE "ok"
Verdict(r) ==
  IF \/ r.verb = "lock" /\ lockedBy # NoToken
     \/ r.verb \in {"set", "unlock"} /\ lockedBy # r.token
  THEN "error" ELSE "ok"

\* Only the connection a request came on takes its answer back.
Awaited(r) ==
  r.call = Len(asked[r.by]) /\ r.try = sent[r.by] /\ at[r.by] \in {"read", "reread"}
Answered(r, result) ==
  answer' = IF Awaited(r) THEN [answer EXCEPT ![r.by] = result] ELSE answer

CarryOut(r) ==
  /\ r \in wire /\ r.version <= newest
  /\ wire' = wire \ {r}
  /\ Answered(r, Verdict(r))
  /\ IF Verdict(r) = "error" THEN UNCHANGED <<lockedBy, asked>>
     ELSE /\ asked' = [asked EXCEPT ![r.by][r.call].times = @ + 1]
          /\ lockedBy' = CASE r.verb = "lock" -> <<r.by, r.call, r.try>>
                           [] r.verb = "unlock" -> NoToken
                           [] OTHER -> lockedBy
  /\ UNCHANGED <<newest, version, at, sent, speaks, token, passed, resets>>

\* An old server rejects the first line of a request in a newer protocol.
Reject(r) ==
  /\ r \in wire /\ r.version > newest
  /\ wire' = wire \ {r}
  /\ Answered(r, "version")
  /\ UNCHANGED <<newest, sent, resets, clientvars, lockedBy>>

\* A request is lost with its connection.
Lose(r) ==
  /\ r \in wire /\ ~Awaited(r)
  /\ wire' = wire \ {r}
  /\ UNCHANGED <<newest, sent, resets, clientvars, answer, lockedBy>>

\* A user breaks a lock whose token no client has or can still be told.
BreakOrphan ==
  /\ lockedBy # NoToken
  /\ \A c \in Clients : /\ token[c] # lockedBy
                        /\ at[c] # "idle" => Verb(c) # "lock" /\ passed[c] # lockedBy
  /\ lockedBy' = NoToken
  /\ UNCHANGED <<newest, sent, resets, clientvars, wire, answer>>

SmartNext ==
  \/ \E c \in Clients : \/ Write(c) \/ WriteFails(c) \/ ReadFails(c) \/ Read(c)
                        \/ \E verb \in Verbs : Begin(c, verb)
  \/ \E r \in wire : CarryOut(r) \/ Reject(r) \/ Lose(r)
  \/ BreakOrphan

SmartSpec == SmartInit /\ [][SmartNext]_smartvars

-----------------------------------------------------------------------------
(* Properties *)

(* A request whose effect adds up (append, insert) or that fails the second   *)
(* time (mkdir) is carried out at most once, however often its connection is  *)
(* reset; and a call that reports success has been carried out.               *)
RepeatedSafely ==
  \A c \in Clients : \A n \in DOMAIN asked[c] :
    /\ Info[asked[c][n].verb] \in {"mutate", "stream", "semivfs"} => asked[c][n].times <= 1
    /\ asked[c][n].outcome = "done" => asked[c][n].times >= 1

(* As long as a client believes that it has the branch locked, it has: no     *)
(* request that was sent twice, its own or another's, takes the lock away.    *)
LockIsKept == \A c \in Clients : token[c] # NoToken => lockedBy = token[c]
=============================================================================
