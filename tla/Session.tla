-------------------------------- MODULE Session --------------------------------
(***************************************************************************)
(* Logging in and out: tabs of one browser, which share a cookie, and a    *)
(* server that keeps no session: all is in the cookie, encrypted with a    *)
(* key that is made at each start, and with a ticket of Proxmox that       *)
(* expires.  A tab learns that its session is over from an answer only:    *)
(* of any request, also one made long ago by a page that has gone.         *)
(*                                                                         *)
(* Of the guarded pages there is the list of clusters, which polls.  What  *)
(* the login form remembers is left out.  Requests of a tab that are alike *)
(* in everything are one.                                                  *)
(***************************************************************************)
EXTENDS Naturals, FiniteSets

CONSTANTS Tabs,
          Bounds,     \* how much may happen in a behaviour, see Bound
          None        \* no cookie, no answer

\* opened: the tabs that are used; logins: tickets that Proxmox issues;
\* restarts: of the server; faults: failed requests, and permission checks that
\* fail; inFlight: requests of a tab that let it make more, but for polls
Bound == [opened : SUBSET Tabs, logins : Nat, restarts : Nat, faults : Nat, inFlight : Nat]

ASSUME SessionAssumption ==
    /\ Bounds \subseteq Bound /\ Bounds # {}
    /\ None \notin [key : Nat, ticket : Nat] \cup {"ok", "401", "failed"}

VARIABLES key,        \* the server's key: how often it was started
          issued,     \* tickets: 1..issued
          expired,    \* those that Proxmox takes no longer
          cookie,
          page,       \* of each tab
          finished,   \* whether the interval of its page may ask again
          requests,
          faults,
          unreachable, \* history: a permission check failed of a valid ticket
          bound       \* of this behaviour

server      == <<key, issued, expired>>
browser     == <<cookie, page, finished>>
sessionVars == <<server, browser, requests, faults, unreachable>>

Cookies == [key : 0..bound.restarts, ticket : 1..bound.logins]
Kinds   == {"login", "logout", "hostIp", "call"}

\* polls: it is the question of the interval of the page that is shown
WebRequests == [tab : Tabs, kind : Kinds, polls : BOOLEAN, cookie : Cookies \cup {None},
                answer : {None, "ok", "401", "failed"}, grants : Cookies \cup {None}]

Of(t) == {r \in requests : r.tab = t}

SessionTypeOK ==
    /\ bound \in Bounds
    /\ key \in 0..bound.restarts /\ issued \in 0..bound.logins /\ expired \subseteq 1..issued
    /\ cookie \in Cookies \cup {None}
    /\ cookie # None => cookie.key <= key /\ cookie.ticket <= issued
    /\ page \in [Tabs -> {"login", "list"}]
    /\ finished \in [Tabs -> BOOLEAN]
    /\ requests \subseteq WebRequests
    /\ faults \in 0..bound.faults /\ unreachable \in BOOLEAN
    /\ \A t \in Tabs : \A r \in Of(t) : r.polls =>
           /\ page[t] = "list" /\ ~finished[t]
           /\ \A other \in Of(t) : other.polls => other = r

Request(t, kind, polls) == [tab |-> t, kind |-> kind, polls |-> polls, cookie |-> cookie,
                            answer |-> None, grants |-> None]

\* get_session, and what logged_in! finds
Readable(c) == c # None /\ c.key = key
Works(c)    == Readable(c) /\ c.ticket \notin expired

SessionInit ==
    /\ key = 0 /\ issued = 0 /\ expired = {}
    /\ cookie = None
    /\ page = [t \in Tabs |-> "login"]
    /\ finished = [t \in Tabs |-> TRUE]
    /\ requests = {} /\ faults = 0 /\ unreachable = FALSE
    /\ bound \in Bounds
-----------------------------------------------------------------------------
(* The tabs.  A page that is mounted has an interval of its own; the header *)
(* asks for the host, the list for the clusters.                            *)
Asks(t, kind) == Cardinality(Of(t)) < bound.inFlight /\ requests' = requests \cup {Request(t, kind, FALSE)}

submitLogin(t) ==
    /\ page[t] = "login"
    /\ Asks(t, "login")
    /\ UNCHANGED <<server, browser, faults, unreachable>>

onLogoutHandler(t) ==
    /\ page[t] = "list"
    /\ Asks(t, "logout")
    /\ UNCHANGED <<server, browser, faults, unreachable>>

Forgotten(t, rs) == {IF r.tab = t THEN [r EXCEPT !.polls = FALSE] ELSE r : r \in rs}

\* The questions of a page that goes stay under way.
GoTo(t, where, rs) ==
    /\ page' = [page EXCEPT ![t] = where]
    /\ finished' = [finished EXCEPT ![t] = IF page[t] = where THEN @ ELSE TRUE]
    /\ requests' = IF page[t] = where THEN rs
                   ELSE Forgotten(t, rs)
                        \cup (IF where = "list"
                              THEN {[Request(t, kind, FALSE) EXCEPT !.cookie = cookie'] :
                                        kind \in {"hostIp", "call"}}
                              ELSE {})

\* Guard
Open(t) ==
    /\ page[t] = "login" /\ cookie # None
    /\ Cardinality(Of(t)) < bound.inFlight
    /\ UNCHANGED cookie
    /\ GoTo(t, "list", requests)
    /\ UNCHANGED <<server, faults, unreachable>>

Leave(t) ==
    /\ page[t] = "list"
    /\ UNCHANGED cookie
    /\ GoTo(t, "login", requests)
    /\ UNCHANGED <<server, faults, unreachable>>

useInterval(t) ==
    /\ page[t] = "list" /\ finished[t]
    /\ finished' = [finished EXCEPT ![t] = FALSE]
    /\ requests' = requests \cup {Request(t, "call", TRUE)}
    /\ UNCHANGED <<server, cookie, page, faults, unreachable>>

-----------------------------------------------------------------------------
(* The server                                                               *)
Restart ==
    /\ key < bound.restarts
    /\ key' = key + 1
    /\ UNCHANGED <<issued, expired, browser, requests, faults, unreachable>>

Expire ==
    /\ \E n \in 1..issued \ expired : expired' = expired \cup {n}
    /\ UNCHANGED <<key, issued, browser, requests, faults, unreachable>>

Answer(r, a) == requests' = (requests \ {r}) \cup {[r EXCEPT !.answer = a]}

login(r) ==
    /\ r.kind = "login" /\ r.answer = None
    /\ \/ /\ issued < bound.logins
          /\ issued' = issued + 1
          /\ requests' = (requests \ {r})
                             \cup {[r EXCEPT !.answer = "ok",
                                             !.grants = [key |-> key, ticket |-> issued + 1]]}
       \/ Answer(r, "401") /\ UNCHANGED issued             \* CredentialsInvalid
    /\ UNCHANGED <<key, expired, browser, faults, unreachable>>

\* logout and get_host_ip
Serve(r) ==
    /\ r.kind \in {"logout", "hostIp"} /\ r.answer = None
    /\ Answer(r, IF r.kind = "logout" \/ Readable(r.cookie) THEN "ok" ELSE "401")
    /\ UNCHANGED <<server, browser, faults, unreachable>>

logged_in(r) ==
    \/ Answer(r, IF Works(r.cookie) THEN "ok" ELSE "401") /\ UNCHANGED <<faults, unreachable>>
    \/ /\ Works(r.cookie) /\ faults < bound.faults               \* permissions(): any error is a 401
       /\ Answer(r, "401")
       /\ faults' = faults + 1 /\ unreachable' = TRUE

GuardedCall(r) ==
    /\ r.kind = "call" /\ r.answer = None
    /\ logged_in(r)
    /\ UNCHANGED <<server, browser>>

\* No answer, or one with another status
Fail(r) ==
    /\ r.answer = None /\ faults < bound.faults
    /\ Answer(r, "failed")
    /\ faults' = faults + 1
    /\ UNCHANGED <<server, browser, unreachable>>
-----------------------------------------------------------------------------
(* An answer arrives.  Its cookie is set before any code runs; then the     *)
(* interceptor looks at it, then the code that asked.                       *)
SetCookie(r) ==
    cookie' \in CASE r.kind = "login" /\ r.answer = "ok" -> {r.grants}
                  [] r.kind = "logout" /\ r.answer = "ok" /\ r.cookie # None ->
                         IF Readable(r.cookie) THEN {None} ELSE {None, cookie}
                  [] OTHER -> {cookie}

Redirect_AnyError(r) == r.answer \in {"401", "failed"}    \* mutant: whatever went wrong
Redirect_NotForPolls(r) == r.answer = "401" /\ ~r.polls   \* mutant: an answer nobody awaits
Redirect(r) == r.answer = "401"

Arrive(r) ==
    LET t == r.tab rest == requests \ {r}
    IN /\ r.answer # None
       /\ SetCookie(r)
       /\ CASE Redirect(r) -> GoTo(t, "login", rest)
            [] ~Redirect(r) /\ r.kind = "login" /\ r.answer = "ok" -> GoTo(t, "list", rest)
            [] ~Redirect(r) /\ r.kind = "logout" /\ r.answer = "ok" -> GoTo(t, "login", rest)
            [] OTHER -> /\ finished' = [finished EXCEPT ![t] = @ \/ (r.polls /\ r.answer = "ok")]
                        /\ requests' = rest
                        /\ UNCHANGED page
       /\ UNCHANGED <<server, faults, unreachable>>

SessionNext ==
    /\ UNCHANGED bound
    /\ \/ \E t \in bound.opened : \/ submitLogin(t) \/ onLogoutHandler(t) \/ Open(t)
                                  \/ Leave(t) \/ useInterval(t)
       \/ Restart \/ Expire
       \/ \E r \in requests : login(r) \/ Serve(r) \/ GuardedCall(r) \/ Fail(r) \/ Arrive(r)

\* The timer goes on, and a question is answered.
Polled(t) == \E r \in Of(t) : r.polls /\ (GuardedCall(r) \/ Arrive(r))
SessionFairness == \A t \in Tabs : WF_sessionVars(useInterval(t)) /\ WF_sessionVars(Polled(t))
SessionSpec == SessionInit /\ [][SessionNext]_<<sessionVars, bound>> /\ SessionFairness
-----------------------------------------------------------------------------
(* While the session in the cookie works, a tab is sent from the list to    *)
(* the login page only when its user logs out, fails to log in once more,   *)
(* or goes there; except by the answer to a request of another session, and *)
(* when Proxmox failed to check the permissions of a valid one.             *)
StaysIn ==
    [][\A t \in Tabs :
         page[t] = "list" /\ page'[t] = "login" /\ Works(cookie) /\ ~unreachable =>
            \/ Leave(t)
            \/ \E r \in Of(t) : Arrive(r) /\ (r.kind \in {"login", "logout"} \/ r.cookie # cookie)
      ]_sessionVars

(* A tab whose session is over gets to the login page by its own polls, if  *)
(* nobody logs in again; unless a poll failed for another reason, which     *)
(* ends the polling for as long as the page is open.                        *)
Dead(t) == ~finished[t] /\ \A r \in Of(t) : ~r.polls
LostSessionIsNoticed ==
    \A t \in Tabs : page[t] = "list" /\ ~Works(cookie)
                        ~> page[t] = "login" \/ Works(cookie) \/ (Dead(t) /\ faults > 0)

(* Polling ends for good only after a request failed: a denied one sends    *)
(* the tab to the login page, from where it starts anew.                    *)
PollsUnlessFailed == \A t \in Tabs : page[t] = "list" /\ Dead(t) => faults > 0

(* A tab has at most one poll under way, and polls unless one has failed.   *)
SessionInv == SessionTypeOK /\ PollsUnlessFailed
=============================================================================
