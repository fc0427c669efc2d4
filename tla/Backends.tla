------------------------------ MODULE Backends ------------------------------
(***************************************************************************)
(* How a request of the server (src/index.ts) finds and asks its backends: *)
(* fetchFromBackend, the std.backend and std.director functions VCL may    *)
(* call (src/src/vcl.ts), and the backend that runPass then records.       *)
(*                                                                         *)
(* Each request copies the tables of backends and directors, by name; the  *)
(* objects behind the names are shared.  So an object is a name and its    *)
(* owner: the server, or the request whose VCL made it.                    *)
(*                                                                         *)
(* req.backend and current_backend as VCL sets them are left out: the      *)
(* routing overwrites both before it asks anyone.                          *)
(***************************************************************************)
EXTENDS Integers, SequencesExt, FiniteSetsExt

CONSTANTS
  Requests,
  Touched,   \* the backends that VCL adds and removes
  Server,    \* the owner of what index.ts sets up
  None,
  Throws,    \* select_backend, or the choice of a backend, throws
  MaxPasses, \* bounds of the model: passes of a request, ...
  MaxCalls,  \* ... std calls of all requests, ...
  MaxMarks   \* ... and changes of health

ASSUME BackendsAssumption ==
  /\ Touched \subseteq {"main", "api", "static", "default"}
  /\ Server \notin Requests
  /\ None \notin Requests \cup {Server}
  /\ Throws # None
  /\ MaxPasses \in Nat
  /\ MaxCalls \in Nat
  /\ MaxMarks \in Nat

Names     == {"main", "api", "static", "default"}
Directors == {"main_director", "fallback_director"}
Owners    == Requests \cup {Server}

Backend  == [name : Names, owner : Owners]
Director == [name : Directors, owner : Owners]

Object(n, o) == [name |-> n, owner |-> o]

VARIABLES
  healthy,   \* is_healthy of each backend object
  content,   \* type, quorum and backends of each director object
  thread,    \* the request whose synchronous turn it is
  pc,        \* where each request is
  backends,  \* context.backends: name -> owner or None
  directors, \* context.directors: name -> owner or None
  current,   \* context.current_backend
  response,  \* fetchFromBackend's backendResponse: who sent it, and how it is
  beresp,    \* context.beresp.backend, by name
  obj,       \* context.obj.status, by who set it
  asked,     \* history: the backends asked in this pass, in order
  lost,      \* history: the fallback request of this pass has failed
  passes, calls, marks

shared  == <<healthy, content>>
tables  == <<backends, directors>>
fetched == <<current, response, beresp, obj, asked, lost>>
bounds  == <<passes, calls, marks>>
vars    == <<shared, thread, pc, tables, fetched, bounds>>

Nobody == None

Unanswered == [from |-> None, status |-> "none"]

(* The set-up of index.ts; the built-in placeholder is there, too.          *)
Configured == [d \in Directors |->
  IF d = "main_director"
    THEN [type |-> "random", quorum |-> 50,
          members |-> <<Object("main", Server), Object("static", Server)>>]
    ELSE [type |-> "fallback", quorum |-> 0,
          members |-> <<Object("main", Server), Object("api", Server)>>]]

Empty == [type |-> "random", quorum |-> 0, members |-> <<>>]

Init ==
  /\ healthy = [b \in Backend |-> TRUE]
  /\ content = [d \in Director |-> IF d.owner = Server THEN Configured[d.name] ELSE Empty]
  /\ thread = Nobody
  /\ pc = [r \in Requests |-> "idle"]
  /\ backends = [r \in Requests |-> [n \in Names |-> Server]]
  /\ directors = [r \in Requests |-> [d \in Directors |-> Server]]
  /\ current = [r \in Requests |-> None]
  /\ response = [r \in Requests |-> Unanswered]
  /\ beresp = [r \in Requests |-> None]
  /\ obj = [r \in Requests |-> "initial"]
  /\ asked = [r \in Requests |-> <<>>]
  /\ lost = [r \in Requests |-> FALSE]
  /\ passes = [r \in Requests |-> 0]
  /\ calls = 0
  /\ marks = 0

-----------------------------------------------------------------------------
(* What VCL may do to the tables and to the objects.                        *)

InVcl(r) == thread = r /\ pc[r] \in {"recv", "fetch", "failed"}

Calls(r) ==
  /\ InVcl(r)
  /\ calls < MaxCalls
  /\ calls' = calls + 1
  /\ UNCHANGED <<thread, pc, fetched, passes, marks>>

(* std.backend.add puts a new, healthy object under the name.               *)
BackendAdd(r, n) ==
  /\ Calls(r)
  /\ backends' = [backends EXCEPT ![r][n] = r]
  /\ healthy' = [healthy EXCEPT ![Object(n, r)] = TRUE]
  /\ UNCHANGED <<content, directors>>

BackendRemove(r, n) ==
  /\ Calls(r)
  /\ backends[r][n] # None
  /\ backends' = [backends EXCEPT ![r][n] = None]
  /\ UNCHANGED <<shared, directors>>

(* std.director.add: hash, client and chash choose like random here, any.   *)
DirectorAdd(r, d, type) ==
  /\ Calls(r)
  /\ directors' = [directors EXCEPT ![r][d] = r]
  /\ content' = [content EXCEPT ![Object(d, r)] = [Empty EXCEPT !.type = type]]
  /\ UNCHANGED <<healthy, backends>>

DirectorRemove(r, d) ==
  /\ Calls(r)
  /\ directors[r][d] # None
  /\ directors' = [directors EXCEPT ![r][d] = None]
  /\ UNCHANGED <<shared, backends>>

(* add_backend and remove_backend change the object, whoever shares it.     *)
DirectorAddBackend(r, d, n) ==
  /\ Calls(r)
  /\ directors[r][d] # None
  /\ backends[r][n] # None
  /\ content' = [content EXCEPT ![Object(d, directors[r][d])].members =
       Append(@, Object(n, backends[r][n]))]
  /\ UNCHANGED <<healthy, tables>>

DirectorRemoveBackend(r, d, n) ==
  /\ Calls(r)
  /\ directors[r][d] # None
  /\ LET members == content[Object(d, directors[r][d])].members
         first   == SelectInSeq(members, LAMBDA b : b.name = n)
     IN /\ first # 0
        /\ content' = [content EXCEPT ![Object(d, directors[r][d])].members =
             RemoveAt(members, first)]
  /\ UNCHANGED <<healthy, tables>>

(* The embedding program marks a backend healthy or not, between turns.     *)
Mark(b) ==
  /\ thread = Nobody
  /\ b.owner # Server => backends[b.owner][b.name] = b.owner
  /\ marks < MaxMarks
  /\ marks' = marks + 1
  /\ healthy' = [healthy EXCEPT ![b] = ~@]
  /\ UNCHANGED <<content, thread, pc, tables, fetched, passes, calls>>

-----------------------------------------------------------------------------
(* select_backend: the backends it may return, None for null, or Throws.    *)

Required(d) == (Len(d.members) * d.quorum + 99) \div 100

(* Mutant of Selectable: the health of the members is not looked at.        *)
SelectableAny(d) == DOMAIN d.members

(* The places of the members that are healthy.                              *)
Selectable(d) == {i \in DOMAIN d.members : healthy[d.members[i]]}

Selected(r, name) ==
  LET d  == content[Object(name, directors[r][name])]
      up == Selectable(d)
  IN IF directors[r][name] = None THEN {None}
     ELSE IF d.members = <<>> \/ Cardinality(up) < Required(d) THEN {None}
     ELSE IF up = {} THEN {Throws}
     ELSE IF d.type = "fallback" THEN {d.members[Min(up)]}
     ELSE {d.members[i] : i \in up}

(* The routing of fetchFromBackend, by the class of the URL.                *)
Named(r, n) == IF backends[r][n] = None THEN Throws ELSE Object(n, backends[r][n])

Default(r) == Named(r, "default")

Routes(r) ==
  {Named(r, "api"), Named(r, "static")}
    \cup {IF b = None THEN Default(r) ELSE b :
            b \in UNION {IF m = None THEN Selected(r, "fallback_director") ELSE {m} :
                           m \in Selected(r, "main_director")}}

(* is_healthy looks the name up, in the table of the request.               *)
IsHealthy(r, n) == backends[r][n] # None /\ healthy[Object(n, backends[r][n])]

-----------------------------------------------------------------------------
(* A pass of a request.                                                     *)

NewPass(r) ==
  /\ pc' = [pc EXCEPT ![r] = "recv"]
  /\ passes' = [passes EXCEPT ![r] = @ + 1]
  /\ response' = [response EXCEPT ![r] = Unanswered]
  /\ beresp' = [beresp EXCEPT ![r] = None]
  /\ asked' = [asked EXCEPT ![r] = <<>>]
  /\ lost' = [lost EXCEPT ![r] = FALSE]
  /\ UNCHANGED <<shared, tables, current, obj, calls, marks>>

Arrive(r) ==
  /\ thread = Nobody
  /\ pc[r] = "idle"
  /\ thread' = r
  /\ NewPass(r)

Ask(r, b) ==
  /\ current' = [current EXCEPT ![r] = b]
  /\ asked' = [asked EXCEPT ![r] = Append(@, b)]
  /\ thread' = Nobody

(* Up to the first await.  A throw here leaves obj alone.                   *)
Route(r) ==
  /\ thread = r
  /\ pc[r] = "recv"
  /\ \E b \in Routes(r) :
       IF b # Throws /\ IsHealthy(r, b.name)
         THEN /\ Ask(r, b)
              /\ pc' = [pc EXCEPT ![r] = "sent"]
         ELSE /\ current' = [current EXCEPT ![r] = IF b = Throws THEN @ ELSE b]
              /\ pc' = [pc EXCEPT ![r] = "failed"]
              /\ UNCHANGED <<asked, thread>>
  /\ UNCHANGED <<shared, tables, response, beresp, obj, lost, bounds>>

(* Mutant of Caught: the error passes through as it came.                   *)
CaughtSilently(r) ==
  /\ thread' = r
  /\ pc' = [pc EXCEPT ![r] = "failed"]
  /\ UNCHANGED <<shared, tables, current, response, beresp, obj, asked, lost, bounds>>

(* The catch of fetchFromBackend: obj gets a status.                        *)
Caught(r) ==
  /\ thread' = r
  /\ pc' = [pc EXCEPT ![r] = "failed"]
  /\ obj' = [obj EXCEPT ![r] = "gateway"]
  /\ UNCHANGED <<shared, tables, current, response, beresp, asked, lost, bounds>>

Received(r, status) ==
  response' = [response EXCEPT ![r] = [from |-> current[r], status |-> status]]

Keep(r) ==
  /\ pc' = [pc EXCEPT ![r] = "body"]
  /\ UNCHANGED <<thread, current, asked>>

(* Mutant of Others: the current backend again.                             *)
OthersAndSame(r) == Selected(r, "fallback_director") \ {None, Throws}

(* What the fallback director may offer instead of the current backend.     *)
Others(r) == {b \in Selected(r, "fallback_director") \ {None, Throws} :
                b.name # current[r].name}

(* The first backend answered.  On a 5xx the fallback director is asked for *)
(* another backend, which becomes the current one before it is asked.       *)
Answer(r, status) ==
  LET asks     == status = "5xx" /\ current[r].name # "default"
      selected == Selected(r, "fallback_director")
  IN /\ thread = Nobody
     /\ pc[r] = "sent"
     /\ \/ /\ asks /\ Throws \in selected
           /\ Caught(r)
        \/ /\ ~asks \/ selected \ (Others(r) \cup {Throws}) # {}
           /\ Received(r, status)
           /\ Keep(r)
           /\ UNCHANGED <<shared, tables, beresp, obj, lost, bounds>>
        \/ /\ asks
           /\ \E b \in Others(r) : Ask(r, b)
           /\ Received(r, status)
           /\ pc' = [pc EXCEPT ![r] = "fallback"]
           /\ UNCHANGED <<shared, tables, beresp, obj, lost, bounds>>

(* A network error or the timeout, of the request or of the body.           *)
Fail(r) ==
  /\ thread = Nobody
  /\ pc[r] \in {"sent", "body"}
  /\ Caught(r)

FallbackAnswer(r, status) ==
  /\ thread = Nobody
  /\ pc[r] = "fallback"
  /\ Received(r, status)
  /\ Keep(r)
  /\ UNCHANGED <<shared, tables, beresp, obj, lost, bounds>>

(* The first response is kept, and so is the fallback as the current one.   *)
FallbackFail(r) ==
  /\ thread = Nobody
  /\ pc[r] = "fallback"
  /\ lost' = [lost EXCEPT ![r] = TRUE]
  /\ Keep(r)
  /\ UNCHANGED <<shared, tables, response, beresp, obj, bounds>>

(* Mutants of Answering: the backend that was asked first; whose it is, not *)
(* its name.                                                                *)
AnsweringFirst(r) == asked[r][1].name
AnsweringOwner(r) == current[r].owner

(* What runPass records as the backend that answered.                       *)
Answering(r) == current[r].name

Body(r) ==
  /\ thread = Nobody
  /\ pc[r] = "body"
  /\ thread' = r
  /\ pc' = [pc EXCEPT ![r] = "fetch"]
  /\ beresp' = [beresp EXCEPT ![r] = Answering(r)]
  /\ UNCHANGED <<shared, tables, current, response, obj, asked, lost, bounds>>

(* vcl_recv, vcl_fetch, vcl_deliver or vcl_error asks for another pass, ... *)
Restart(r) ==
  /\ InVcl(r)
  /\ passes[r] < MaxPasses
  /\ NewPass(r)
  /\ UNCHANGED thread

(* ... or the request is answered, from the cache or by an error, too.      *)
Finish(r) ==
  /\ InVcl(r)
  /\ thread' = Nobody
  /\ pc' = [pc EXCEPT ![r] = "done"]
  /\ UNCHANGED <<shared, tables, fetched, bounds>>

StdCall(r) ==
  \/ \E n \in Touched : BackendAdd(r, n) \/ BackendRemove(r, n)
  \/ \E d \in Directors : \/ \E type \in {"random", "fallback"} : DirectorAdd(r, d, type)
                          \/ DirectorRemove(r, d)
  \/ \E d \in Directors, n \in Touched :
       DirectorAddBackend(r, d, n) \/ DirectorRemoveBackend(r, d, n)

(* All requests are answered.                                               *)
Settled == (\A r \in Requests : pc[r] = "done") /\ UNCHANGED vars

Next ==
  \/ \E r \in Requests :
       \/ Arrive(r) \/ StdCall(r) \/ Route(r) \/ Fail(r) \/ FallbackFail(r)
       \/ \E status \in {"ok", "5xx"} : Answer(r, status) \/ FallbackAnswer(r, status)
       \/ Body(r) \/ Restart(r) \/ Finish(r)
  \/ \E b \in Backend : Mark(b)
  \/ Settled

Spec == Init /\ [][Next]_vars

-----------------------------------------------------------------------------
(* Properties.                                                              *)

Phases == {"idle", "recv", "sent", "fallback", "body", "fetch", "failed", "done"}

TypeOK ==
  /\ healthy \in [Backend -> BOOLEAN]
  /\ \A d \in Director : content[d].members \in Seq(Backend)
  /\ thread \in Requests \cup {Nobody}
  /\ pc \in [Requests -> Phases]
  /\ backends \in [Requests -> [Names -> Owners \cup {None}]]
  /\ directors \in [Requests -> [Directors -> Owners \cup {None}]]
  /\ current \in [Requests -> Backend \cup {None}]
  /\ beresp \in [Requests -> Names \cup {None}]
  /\ obj \in [Requests -> {"initial", "gateway"}]

(* beresp.backend names the sender of the response that vcl_fetch sees,     *)
(* restarts and fallbacks behind it or not, unless a fallback was lost.     *)
BerespNamesAnswerer ==
  \A r \in Requests : pc[r] = "fetch" /\ ~lost[r] => beresp[r] = response[r].from.name

(* Whatever other requests do to the directors, and whenever health         *)
(* changes, a backend is healthy at the moment it is asked.                 *)
AskedWhileHealthy ==
  [][\A r \in Requests : Len(asked'[r]) > Len(asked[r]) => healthy[Last(asked'[r])]]_vars

(* A pass asks at most two backends, of different names, and the second     *)
(* only when the first one answered.                                        *)
FallbackIsOther ==
  \A r \in Requests :
    /\ Len(asked[r]) <= 2
    /\ Len(asked[r]) = 2 => /\ asked[r][1].name # asked[r][2].name
                            /\ response[r].from \in ToSet(asked[r])

(* Once a backend was asked, a failure is reported under a gateway status.  *)
FailureIsGateway ==
  \A r \in Requests : pc[r] = "failed" /\ asked[r] # <<>> => obj[r] = "gateway"
=============================================================================
