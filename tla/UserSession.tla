---------------------------- MODULE UserSession -----------------------------
(***************************************************************************)
(* The user session of the playground: who may use it, one at a time.      *)
(*                                                                         *)
(* The server keeps an id and the time of the last activity in two static  *)
(* fields. Every request has a thread of its own, and nothing synchronises *)
(* the threads: each access to a field is a step here. A page finds out    *)
(* whose session it is when it loads, and offers to start or to leave.     *)
(***************************************************************************)
EXTENDS Naturals, FiniteSets, Bags, BagsExt

CONSTANTS Browsers,
          Sids,      \* ids the server can make up; enough that one is unused
          Timeout,   \* Application.sessionTimeout, in ticks, more than 0
          MaxCalls   \* bound: a user acts while the page waits for fewer answers

NoSid == ""                  \* no session
NoCookie == "no-session"     \* the id of a request that has no cookie

VARIABLES
    currentID,  \* the session there is
    idle,       \* ticks since start, the time of the last activity
    section,    \* what each page shows
    cookie,     \* the cookie of each browser
    calls,      \* bag of requests: waiting, being served, or answered
    claims      \* history: sessions granted, neither left nor timed out

vars == <<currentID, idle, section, cookie, calls, claims>>
server  == <<currentID, idle, claims>>
browser == <<section, cookie>>

Call(b, op) == [from |-> b, op |-> op, sid |-> cookie[b], at |-> "rpc", getSid |-> 0, reply |-> ""]

Send(b, ops) == calls' = calls (+) SetToBag({Call(b, op) : op \in ops})
From(r) == r.from
MayCall(b) == CopiesIn(b, BagOfAll(From, calls)) < MaxCalls
-----------------------------------------------------------------------------
(* A thread of the server with request r. *)

Becomes(r, s) == calls' = calls (-) SetToBag({r}) (+) SetToBag({s})
Goes(r, at) == Becomes(r, [r EXCEPT !.at = at])
Replies(r, reply) == Becomes(r, [r EXCEPT !.at = "answered", !.reply = reply])

\* Where rpc() goes on after bumpSession().
Op(r) == [r EXCEPT !.at = CASE r.op = "checkSession" -> "remaining"
                             [] r.op = "startSession" -> "free?"
                             [] r.op = "endSession"   -> "mine?"
                             [] OTHER                 -> "answered",
                   !.getSid = IF r.op = "checkSession" THEN 1 ELSE 0]

bumpSession(r) ==
    \/ /\ r.at = "rpc"
       /\ IF currentID = r.sid THEN Goes(r, "bump") ELSE Becomes(r, Op(r))
       /\ UNCHANGED <<server, browser>>
    \/ /\ r.at = "bump"
       /\ idle' = 0
       /\ claims' = claims \cup ({r.sid} \cap {currentID})
       /\ Becomes(r, Op(r))
       /\ UNCHANGED <<currentID, browser>>

\* getSid() ends a session that has no time left, then reads the id.
getSid(r) ==
    \/ /\ r.at = "remaining"
       /\ Goes(r, IF idle = Timeout THEN "expired" ELSE "read")
       /\ UNCHANGED <<server, browser>>
    \/ /\ r.at = "expired"
       /\ currentID' = NoSid
       /\ Goes(r, "read")
       /\ UNCHANGED <<idle, claims, browser>>

\* checkSession() calls getSid() up to three times: is there a session, is it
\* the caller's, and (for the text of the page) whose is it.
checkSession(r) ==
    /\ r.at = "read"
    /\ LET again == Becomes(r, [r EXCEPT !.at = "remaining", !.getSid = @ + 1])
       IN CASE r.getSid = 1 -> IF currentID = NoSid THEN Replies(r, "none") ELSE again
            [] r.getSid = 2 -> IF currentID = r.sid THEN Replies(r, "you") ELSE again
            [] OTHER        -> Replies(r, "other")
    /\ UNCHANGED <<server, browser>>

Unused(sid) == /\ sid # currentID /\ sid \notin claims
               /\ \A b \in Browsers : cookie[b] # sid
               /\ \A r \in BagToSet(calls) : r.sid # sid

startSession(r) ==
    \/ /\ r.at = "free?"
       /\ IF currentID # NoSid THEN Replies(r, "refused") ELSE Goes(r, "take")
       /\ UNCHANGED <<server, browser>>
    \/ /\ r.at = "take"
       /\ \E sid \in Sids :
             /\ Unused(sid)
             /\ currentID' = sid
             /\ Becomes(r, [r EXCEPT !.at = "time", !.sid = sid])
       /\ UNCHANGED <<idle, claims, browser>>
    \/ /\ r.at = "time"
       /\ idle' = 0
       /\ claims' = claims \cup {r.sid}
       /\ Replies(r, "started")
       /\ UNCHANGED <<currentID, browser>>

endSession(r) ==
    \/ /\ r.at = "mine?"
       /\ IF currentID # r.sid THEN Replies(r, "refused") ELSE Goes(r, "leave")
       /\ UNCHANGED <<server, browser>>
    \/ /\ r.at = "leave"
       /\ currentID' = NoSid
       /\ claims' = claims \ {r.sid}
       /\ Replies(r, "left")
       /\ UNCHANGED <<idle, browser>>

\* getRemaining() falls to zero and stays there.
Tick == /\ idle < Timeout
        /\ idle' = idle + 1
        /\ claims' = IF idle' = Timeout THEN {} ELSE claims
        /\ UNCHANGED <<currentID, calls, browser>>
-----------------------------------------------------------------------------
(* The pages. *)

Sections == [none |-> "inactiveSession", you |-> "activeSessionYou", other |-> "activeSessionOther"]

\* The page loads again, once it has its answers.
initialize(b) ==
    /\ \A r \in BagToSet(calls) : r.from # b
    /\ section' = [section EXCEPT ![b] = "greeting"]
    /\ Send(b, {"checkSession"})
    /\ UNCHANGED <<server, cookie>>

startButtonClick(b) ==
    /\ section[b] = "inactiveSession" /\ MayCall(b)
    /\ Send(b, {"startSession"})
    /\ UNCHANGED <<server, browser>>

\* The check does not wait for the end: the server may see it first.
leaveButtonClick(b) ==
    /\ section[b] = "activeSessionYou" /\ MayCall(b)
    /\ Send(b, {"endSession", "checkSession"})
    /\ UNCHANGED <<server, browser>>

\* The page takes an answer. Once it is active it asks for its parameters.
Answered(r) ==
    /\ r.at = "answered"
    /\ LET shows == IF r.op = "checkSession" THEN Sections[r.reply]
                    ELSE IF r.reply = "started" THEN "activeSessionYou"
                    ELSE section[r.from]
           more  == IF r.reply \in {"you", "started"}
                    THEN {[Call(r.from, "getParameters") EXCEPT !.sid = r.sid]} ELSE {}
       IN /\ section' = [section EXCEPT ![r.from] = shows]
          /\ cookie' = [cookie EXCEPT ![r.from] = IF r.reply = "started" THEN r.sid ELSE @]
          /\ calls' = calls (-) SetToBag({r}) (+) SetToBag(more)
    /\ UNCHANGED server
-----------------------------------------------------------------------------
Init == /\ currentID = NoSid /\ idle = Timeout /\ claims = {}
        /\ section = [b \in Browsers |-> "greeting"]
        /\ cookie = [b \in Browsers |-> NoCookie]
        /\ calls = EmptyBag

Serve(r) == bumpSession(r) \/ getSid(r) \/ checkSession(r) \/ startSession(r) \/ endSession(r)

Next == \/ \E r \in BagToSet(calls) : Serve(r) \/ Answered(r)
        \/ \E b \in Browsers : initialize(b) \/ startButtonClick(b) \/ leaveButtonClick(b)
        \/ Tick

Spec == Init /\ [][Next]_vars
-----------------------------------------------------------------------------
\* "only allow only one user at a time in the playground" (UserSession.java 15):
\* while a session that was granted is neither left nor timed out, no other is
\* granted.
OneUserAtATime == Cardinality(claims) <= 1
=============================================================================
