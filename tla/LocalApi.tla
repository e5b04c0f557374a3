------------------------------ MODULE LocalApi ------------------------------
(***************************************************************************)
(* The client of Hermes' local HTTP API (local_api.py).  Dashboards of     *)
(* this gateway's profile serve /api/*, api_server serves /v1/* on a port  *)
(* of its own, dashboards of other profiles may take either's place.  Whose *)
(* a dashboard is the client reads from its command line.  All requests    *)
(* share one cached port and one cache of session tokens, and a supervisor *)
(* starts a backend when nothing seems to listen.                          *)
(*                                                                         *)
(* A request is a loop over candidate ports with awaits for the token and  *)
(* for the answer; other requests run at each.  A server's act and what    *)
(* the client makes of the answer are one step.  psutil sees every process, *)
(* no override port and no token from the environment are set, and the     *)
(* api_server platform is enabled.                                         *)
(***************************************************************************)
EXTENDS Integers, Sequences, FiniteSets

CONSTANTS
  Gateway,    \* gateway_profile_name(): the profile of this process
  OwnPort,    \* DASHBOARD_PORTS[0]: where the supervisor starts a backend
  AltPort,    \* a port only the process scan can find (dashboard --port 0)
  ApiPort,    \* API_SERVER_PORT
  Calls,      \* bound: requests, each made once
  MaxServers, \* bound: identities of dashboard processes, reused when forgotten
  MaxOthers,  \* bound: dashboards started by somebody else
  MaxExits    \* bound: dashboards that exit, and calls of stop

Profiles == {"default", "work"}

\* Of a dashboard: whose it is, and what dashboard_argv_profile makes of its
\* command line, which need not name a profile that HERMES_HOME gave it.
Dashboards == {d \in [real : Profiles, argv : Profiles] : d.argv \in {d.real, "default"}}

\* What is asked: a write to /api, a run of /v1/runs, or, by
\* get_on_working_port, a session that every dashboard of the profile knows.
Kinds == {"post", "run", "detail"}

ASSUME LocalApiAssumption ==
  /\ Gateway \in Profiles
  /\ OwnPort \in Nat \ {0} /\ AltPort \in Nat \ {0} /\ ApiPort \in Nat \ {0}
  /\ OwnPort # AltPort /\ OwnPort # ApiPort /\ AltPort # ApiPort
  /\ Calls \in Nat /\ MaxServers \in Nat /\ MaxServers > Calls + 5
  /\ MaxOthers \in Nat /\ MaxExits \in Nat

Dash == {OwnPort, AltPort}
Ports == Dash \cup {ApiPort}
Servers == 1..MaxServers   \* a dashboard process; also the token it mints

VARIABLES
  listener,   \* the dashboard process on a port, 0 for none
  profile,    \* whose each process is, and is taken for
  booting,    \* backends spawned that have not bound their port
  proc,       \* _proc: the backend this object holds, 0 for None
  sup,        \* start and _supervise: "off" or "on"
  cached,     \* the cached port, 0 for None
  token,      \* _tokens by port, 0 for none
  call,       \* the requests
  others, exits

servers == <<listener, profile, booting, others, exits>>
keeper == <<proc, sup>>
apiVars == <<servers, keeper, cached, token, call>>

\* A request.  one: get_on_working_port is on the pinned port; again: second
\* attempt after a 401; nf: dashboard_404; last: last_exc.  Observations: up,
\* dashboards of the profile that ran all along; lost, an answer the client did
\* not get or did not heed.  Of a write: heard, in which attempt at a port an
\* answer of a server that acted was read; acted, the ports whose server acted;
\* replays, on which grounds a server acted on it once more.
Idle == [at |-> "idle", kind |-> "post", cand |-> <<>>, one |-> FALSE, again |-> FALSE,
         p |-> 0, tok |-> 0, reply |-> "none", nf |-> FALSE, last |-> "none",
         lost |-> FALSE, heard |-> "none", acted |-> {}, replays |-> {}, up |-> {}, res |-> "none"]

\* The backend is spawned without -p and inherits HERMES_HOME.
Started == [real |-> Gateway, argv |-> "default"]

ApiInit ==
  /\ listener \in [Dash -> {0, 1}] /\ listener[AltPort] = 0
  /\ \E d \in Dashboards :
       profile = [s \in Servers |-> IF s = listener[OwnPort] THEN d ELSE Started]
  /\ booting = {} /\ proc = 0 /\ sup = "off" /\ cached = 0
  /\ token = [p \in Ports |-> 0]
  /\ call = [c \in 1..Calls |-> Idle]
  /\ others = 0 /\ exits = 0

-----------------------------------------------------------------------------
(* The processes outside.                                                  *)

Alive(s) == s \in booting \/ \E p \in Dash : listener[p] = s

\* What the scan takes for this profile's dashboards and for other profiles'.
Own == {p \in Dash : listener[p] # 0 /\ profile[listener[p]].argv = Gateway}
Foreign == {p \in Dash : listener[p] # 0 /\ profile[listener[p]].argv # Gateway}

\* Where a dashboard of this profile listens, and where another's does.
Serving == {p \in Dash : listener[p] # 0 /\ profile[listener[p]].real = Gateway}
Strange == {p \in Dash : listener[p] # 0 /\ profile[listener[p]].real # Gateway}

\* A new process, with an identity and a token nobody holds any more.
Fresh == {s \in Servers : /\ ~Alive(s) /\ s # proc
                          /\ \A p \in Ports : token[p] # s
                          /\ \A c \in 1..Calls : call[c].tok # s /\ s \notin call[c].up}
Newcomer == LET free == Fresh IN CHOOSE s \in free : \A t \in free : s <= t

SomebodyStarts ==
  /\ others < MaxOthers /\ others' = others + 1 /\ Fresh # {}
  /\ \E p \in {q \in Dash : listener[q] = 0}, d \in Dashboards :
       /\ listener' = [listener EXCEPT ![p] = Newcomer]
       /\ profile' = [profile EXCEPT ![Newcomer] = d]
  /\ UNCHANGED <<booting, exits, keeper, cached, token, call>>

\* The backend binds its port, or exits because the port is taken.
Binds ==
  /\ \E s \in booting :
       /\ booting' = booting \ {s}
       /\ listener' = IF listener[OwnPort] = 0 THEN [listener EXCEPT ![OwnPort] = s] ELSE listener
  /\ UNCHANGED <<profile, others, exits, keeper, cached, token, call>>

Gone(s) == [c \in 1..Calls |-> [call[c] EXCEPT !.up = @ \ {s}]]

\* Whose a process was that is gone is forgotten.
Dies ==
  /\ exits < MaxExits /\ exits' = exits + 1
  /\ \E p \in Dash :
       /\ listener[p] # 0
       /\ listener' = [listener EXCEPT ![p] = 0]
       /\ call' = Gone(listener[p])
       /\ profile' = [profile EXCEPT ![listener[p]] = Started]
  /\ UNCHANGED <<booting, others, keeper, cached, token>>

-----------------------------------------------------------------------------
(* start, stop and _supervise.                                             *)

\* drop_port_cache, when what was cached is gone or another profile's.
Dropped(bad) ==
  /\ cached' = IF bad THEN 0 ELSE cached
  /\ token' = IF bad THEN [token EXCEPT ![cached] = 0] ELSE token

Start ==
  /\ sup = "off" /\ sup' = "on"
  /\ UNCHANGED <<servers, proc, cached, token, call>>

\* Mutant: a process once started is taken for a running one.
ProcRuns_Unpolled == proc # 0
ProcRuns == proc # 0 /\ Alive(proc)

\* listening: whatever of dashboard_candidates accepts a connection, and the
\* cached port is a candidate whosever it is.
Listening == Own # {} \/ cached = ApiPort

Ensures ==
  /\ sup = "on"
  /\ IF ProcRuns THEN UNCHANGED <<proc, profile, booting, cached, token>>
     ELSE /\ Dropped(cached \in Dash \ Own)
          /\ IF Listening THEN UNCHANGED <<proc, profile, booting>>
             ELSE /\ Fresh # {}
                  /\ proc' = Newcomer /\ booting' = booting \cup {Newcomer}
                  /\ profile' = [profile EXCEPT ![Newcomer] = Started]
  /\ UNCHANGED <<listener, others, exits, sup, call>>

\* The spawn fails; the supervisor tries again.
SpawnFails ==
  /\ sup = "on" /\ ~ProcRuns /\ proc' = 0
  /\ Dropped(cached \in Dash \ Own) /\ ~Listening
  /\ UNCHANGED <<servers, sup, call>>

\* stop: the supervisor is cancelled and the backend it holds terminated.
Stop ==
  /\ sup # "off" /\ exits < MaxExits /\ exits' = exits + 1
  /\ sup' = "off" /\ proc' = 0
  /\ booting' = booting \ {proc}
  /\ listener' = [p \in Dash |-> IF proc # 0 /\ listener[p] = proc THEN 0 ELSE listener[p]]
  /\ call' = Gone(proc)
  /\ UNCHANGED <<profile, others, cached, token>>

-----------------------------------------------------------------------------
(* A request.                                                              *)

\* Attempt(r, p): token(p) answers from the cache, or reads the served page.
Attempt(r, p) ==
  [r EXCEPT !.p = p, !.tok = token'[p], !.again = FALSE, !.reply = "none",
            !.at = IF token'[p] # 0 THEN "sending" ELSE "scraping"]

Orders(S) == {s \in [1..Cardinality(S) -> S] : \A i, j \in DOMAIN s : s[i] = s[j] => i = j}

\* _dedupe: what was listed before is not listed again.
Unless(p, S) == IF p \in S THEN <<>> ELSE <<p>>

\* Mutant: a port found twice is tried twice.
Candidates_Repeats(found) ==
  LET first == IF cached \in Ports \ Foreign THEN <<cached>> ELSE <<>>
  IN first \o found \o Unless(OwnPort, Foreign) \o <<ApiPort>>

\* ports_to_probe: the cached port, what else the scan found, the defaults but
\* for those of another profile, api_server.
Candidates(found) ==
  LET first == IF cached \in Ports \ Foreign THEN <<cached>> ELSE <<>>
  IN first \o found \o Unless(OwnPort, Own \cup Foreign \cup {cached}) \o Unless(ApiPort, {cached})

Begins(c) ==
  /\ call[c].at = "idle" /\ \A d \in 1..(c - 1) : call[d].at # "idle"
  /\ \E k \in Kinds :
       LET r == [call[c] EXCEPT !.kind = k, !.up = {listener[p] : p \in Serving}]
       IN IF k = "detail" /\ cached # 0
          THEN /\ UNCHANGED <<cached, token>>
               /\ call' = [call EXCEPT ![c] = Attempt([r EXCEPT !.one = TRUE], cached)]
          ELSE /\ Dropped(cached \in Foreign)
               /\ \E found \in Orders(Own \ {cached}) :
                    LET list == Candidates(found)
                    IN call' = [call EXCEPT ![c] = Attempt([r EXCEPT !.cand = Tail(list)], Head(list))]
  /\ UNCHANGED <<servers, keeper>>

Finished(r, res) ==
  [Idle EXCEPT !.at = "done", !.res = res, !.lost = r.lost /\ res # "served",
               !.replays = r.replays]

\* The next candidate, or what request raises when there is none; a 404 is
\* None to get_on_working_port, which else tries the port that somebody pinned.
Advanced(r) ==
  IF r.cand # <<>> THEN Attempt([r EXCEPT !.cand = Tail(@)], Head(r.cand))
  ELSE IF r.kind # "detail" THEN Finished(r, "failed")
  ELSE IF r.nf \/ r.last = "404" THEN Finished(r, "absent")
  ELSE IF cached' = 0 THEN Finished(r, "failed")
  ELSE Attempt([r EXCEPT !.one = TRUE], cached')

\* token returns what it read of the page at the port; the answer to a 401 is
\* one more attempt, if the token is another one.
Scrapes(c) ==
  LET r == call[c]
      t == IF r.p \in Dash THEN listener[r.p] ELSE 0
  IN /\ r.at = "scraping"
     /\ token' = IF t # 0 THEN [token EXCEPT ![r.p] = t] ELSE token
     /\ cached' = cached
     /\ call' = [call EXCEPT ![c] =
          IF ~r.again THEN [r EXCEPT !.tok = t, !.at = "sending"]
          ELSE IF t # 0 /\ t # r.tok THEN [r EXCEPT !.tok = t, !.at = "sending"]
          ELSE IF r.one THEN Finished(r, "failed")
          ELSE Advanced([r EXCEPT !.last = "other"])]
     /\ UNCHANGED <<servers, keeper>>

\* What may answer at port p, and whether it has acted on the request.
Answers(r) ==
  CASE r.p = ApiPort /\ r.kind = "run" -> {"ok", "rejected"}
    [] r.p = ApiPort /\ r.kind # "run" -> {"404"}
    [] r.p # ApiPort /\ listener[r.p] = 0 -> {"down"}
    [] r.p # ApiPort /\ listener[r.p] # 0 /\ r.tok # listener[r.p] -> {"401"}
    [] OTHER -> IF r.kind = "run" \/ (r.kind = "detail" /\ r.p \in Strange) THEN {"404"}
                ELSE {"ok", "rejected"}

Becomes(c, r) == call' = [call EXCEPT ![c] = r]
Forgets(r) == cached' = IF cached = r.p THEN 0 ELSE cached

Success(c, r) ==
  /\ r.reply = "ok"
  /\ cached' = IF r.one THEN cached ELSE r.p
  /\ UNCHANGED token
  /\ Becomes(c, Finished(r, "served"))

\* Mutant: the search goes on after a rejection.
Rejection_GoesOn(c, r) ==
  /\ r.reply = "rejected"
  /\ cached' = IF r.one \/ r.again THEN cached ELSE r.p
  /\ UNCHANGED token
  /\ Becomes(c, IF r.one THEN Finished(r, "served") ELSE Advanced([r EXCEPT !.last = "other"]))

\* A rejection is an answer, but for the attempt after a 401; a session is
\* asked for once more on the port now pinned.
Rejection(c, r) ==
  /\ r.reply = "rejected"
  /\ cached' = IF r.one \/ r.again THEN cached ELSE r.p
  /\ UNCHANGED token
  /\ Becomes(c, IF r.one \/ (~r.again /\ r.kind # "detail") THEN Finished(r, "served")
                ELSE IF ~r.again THEN Attempt([r EXCEPT !.one = TRUE], cached')
                ELSE Advanced([r EXCEPT !.last = "other"]))

\* Mutant: a 404 counts as the answer of the right service.
WrongService_Pins(c, r) ==
  /\ r.reply = "404"
  /\ cached' = IF r.one THEN cached ELSE r.p
  /\ UNCHANGED token
  /\ Becomes(c, Finished(r, IF r.one THEN "absent" ELSE "failed"))

WrongService(c, r) ==
  /\ r.reply = "404"
  /\ IF r.one \/ r.again THEN cached' = cached ELSE Forgets(r)
  /\ UNCHANGED token
  /\ Becomes(c, IF r.one THEN Finished(r, "absent")
             ELSE Advanced([r EXCEPT !.last = "404", !.nf = @ \/ (~r.again /\ r.p # ApiPort)]))

Unauthorized(c, r) ==
  /\ r.reply = "401"
  /\ cached' = cached
  /\ token' = IF r.again THEN token ELSE [token EXCEPT ![r.p] = 0]
  /\ Becomes(c, IF ~r.again THEN [r EXCEPT !.again = TRUE, !.at = "scraping", !.reply = "none"]
             ELSE IF r.one THEN Finished(r, "failed")
             ELSE Advanced([r EXCEPT !.last = "other"]))

NoConnection(c, r) ==
  /\ r.reply = "down"
  /\ IF r.again THEN cached' = cached ELSE Forgets(r)
  /\ UNCHANGED token
  /\ Becomes(c, IF r.one THEN Finished(r, "failed") ELSE Advanced([r EXCEPT !.last = "other"]))

\* A server acts on a write: once more, if it did so before (a port is asked
\* twice) or if an answer to the write was read already.
Acts(r) ==
  LET grounds == {g \in {"first", "second"} : r.heard = g} \cup (IF r.p \in r.acted THEN {"same"} ELSE {})
  IN [r EXCEPT !.acted = @ \cup {r.p}, !.replays = @ \cup grounds]
Hears(r) == [r EXCEPT !.heard = IF r.again THEN "second" ELSE "first"]

\* _send and what request makes of it.  The server acts, and its answer may be
\* lost with the connection or come after the timeout.
Tries(c) ==
  /\ call[c].at = "sending"
  /\ \E a \in Answers(call[c]), gone \in BOOLEAN :
       LET acts == a \in {"ok", "rejected"}
           write == acts /\ call[c].kind # "detail"
           done == IF write THEN Acts(call[c]) ELSE call[c]
           r == [IF write /\ ~gone THEN Hears(done) ELSE done
                 EXCEPT !.reply = IF gone THEN "down" ELSE a,
                        !.lost = @ \/ gone \/ (a = "rejected" /\ call[c].again)]
       IN /\ gone => acts
          /\ Success(c, r) \/ Rejection(c, r) \/ WrongService(c, r) \/ Unauthorized(c, r) \/ NoConnection(c, r)
  /\ UNCHANGED <<servers, keeper>>

-----------------------------------------------------------------------------
ApiNext ==
  \/ SomebodyStarts \/ Binds \/ Dies
  \/ Start \/ Ensures \/ SpawnFails \/ Stop
  \/ \E c \in 1..Calls : Begins(c) \/ Scrapes(c) \/ Tries(c)

\* The supervisor's timer fires, a process binds or exits, and a spawn succeeds
\* in the end; requests need not come to theirs.
ApiFairness == WF_apiVars(Binds) /\ WF_apiVars(Ensures)

ApiSpec == ApiInit /\ [][ApiNext]_apiVars /\ ApiFairness

-----------------------------------------------------------------------------
Record ==
  [at : {"idle", "scraping", "sending", "done"}, kind : Kinds,
   cand : Seq(Ports), one : BOOLEAN, again : BOOLEAN,
   p : Ports \cup {0}, tok : Servers \cup {0},
   reply : {"none"}, nf : BOOLEAN,
   last : {"none", "404", "other"}, lost : BOOLEAN,
   heard : {"none", "first", "second"}, acted : SUBSET Ports,
   replays : SUBSET {"same", "first", "second"}, up : SUBSET Servers,
   res : {"none", "served", "absent", "failed"}]

\* Types; a dashboard listens on one port, each port is tried once, and
\* there is always an identity for a new process: MaxServers is large enough.
ApiTypeOK ==
  /\ listener \in [Dash -> Servers \cup {0}]
  /\ \A p, q \in Dash : listener[p] = listener[q] /\ listener[p] # 0 => p = q
  /\ profile \in [Servers -> Dashboards]
  /\ booting \subseteq Servers /\ \A p \in Dash : listener[p] \notin booting
  /\ proc \in Servers \cup {0} /\ sup \in {"off", "on"}
  /\ cached \in Ports \cup {0}
  /\ token \in [Ports -> Servers \cup {0}] /\ token[ApiPort] = 0
  /\ \A c \in 1..Calls : call[c] \in Record /\ Len(call[c].cand) <= 2
  /\ Fresh # {}

\* A write is replayed only in doubt: no server acts twice on it, and none acts
\* after the answer of another was read, whatever other requests did to the
\* caches meanwhile.  Two exceptions: a server whose answer was lost on the way
\* was not heard, and the rejection of the attempt after a 401 is not heeded:
\* the code goes on to the next candidate ("second").
ReplayOnlyInDoubt == \A c \in 1..Calls : call[c].replays \subseteq {"second"}

\* A request ends with an answer.
Serves(c) ==
  LET r == call[c]
  IN r.at # "done" /\ call'[c].at = "done" /\ ~r.one /\ ~call'[c].lost => call'[c].res = "served"

\* A request finds the server that serves it: whatever the caches held, and
\* whatever other requests did to them on the way, it does not end in failure
\* or in an unknown session while a dashboard of the profile that the scan
\* knows for one (api_server, for a run) was up all along and no answer was
\* lost.  Single-port requests that find the pinned port dead fail by design.
ServedIfUp ==
  [][\A c \in 1..Calls :
       call[c].kind = "run" \/ (\E s \in call[c].up : profile[s].argv = Gateway)
         => Serves(c)]_apiVars

\* _ensure: while the client is started, a dashboard of the profile comes up
\* again and again whatever dies, unless another profile's process has the
\* port a backend is started on or is taken for this profile's, or the cached
\* port is api_server's, which listening takes for a dashboard.
ApiComesUp ==
  []<>(\/ sup = "off" \/ Serving # {}
       \/ OwnPort \in Strange \/ Own \cap Strange # {} \/ cached = ApiPort)
=============================================================================
