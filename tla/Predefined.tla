----------------------------- MODULE Predefined -----------------------------
(***************************************************************************)
(* The predefined variables of a request (src/src/vcl-compiler.ts): what a *)
(* set statement makes of a value, where it keeps it and what else it      *)
(* writes; and what an expression reads, with the declared types of        *)
(* src/src/vcl-builtin-types.ts.  Variables whose value never changes are  *)
(* left out, and so are bereq.max_reuse_idle_time, req.hash, resp.stale and *)
(* resp.stale.is_error, and req.enable_segmented_caching, which the generic *)
(* branch of set keeps as it keeps those of them that are here.             *)
(*                                                                         *)
(* A property of the context goes by the name of the variable it is for.   *)
(***************************************************************************)
EXTENDS Values

CONSTANTS
  Declared,       \* names of the declared backends: texts
  Assigned,       \* what follows the variable: operators, values of expressions
  MaxRtime,       \* MAX_RTIME_SECONDS
  MaxAssignments  \* bound of the model: the set statements executed

VARIABLES
  fields,      \* the properties of req, bereq, beresp, resp, obj and client
  chosen,      \* context.current_backend: its name
  results,     \* context.results: name -> the backend chosen
  assignments, \* set statements so far
  given        \* history: what each variable was last set to

predefinedVars == <<fields, chosen, results, assignments, given>>

Rtime(n)      == [kind |-> "rtime", n |-> n]         \* VCLRTime, in seconds
Backend(name) == [kind |-> "backend", name |-> name]

Word(w) == <<w>>   \* a text that is not looked into

-----------------------------------------------------------------------------
(* Declared types: VARIABLE_TYPES of what can be set, and of what is        *)
(* derived from it.                                                         *)

BereqTypes ==
  [RTIME  |-> {"bereq.between_bytes_timeout", "bereq.connect_timeout", "bereq.fetch_timeout",
               "bereq.first_byte_timeout"},
   STRING |-> {"bereq.method", "bereq.request", "bereq.url"}]

(* beresp.saintmode has no type.                                            *)
BerespTypes ==
  [BOOL    |-> {"beresp.brotli", "beresp.cacheable", "beresp.do_esi", "beresp.do_stream",
                "beresp.gzip", "beresp.hipaa", "beresp.pci"},
   RTIME   |-> {"beresp.grace", "beresp.stale_if_error", "beresp.stale_while_revalidate",
                "beresp.ttl"},
   INTEGER |-> {"beresp.status"},
   STRING  |-> {"beresp.response"},
   none    |-> {"beresp.saintmode"}]

ObjTypes ==
  [RTIME |-> {"obj.grace", "obj.ttl"}, INTEGER |-> {"obj.hits", "obj.status"},
   STRING |-> {"obj.response"}]

ReqTypes ==
  [BOOL       |-> {"req.enable_range_on_pass", "req.esi", "req.hash_always_miss",
                   "req.hash_ignore_busy", "req.is_ssl"},
   RTIME      |-> {"req.grace", "req.max_stale_if_error", "req.max_stale_while_revalidate"},
   INTEGER    |-> {"req.restarts"},
   REQBACKEND |-> {"req.backend"},
   STRING     |-> {"req.method", "req.request", "req.url"}]

RespTypes == [INTEGER |-> {"resp.status"}, STRING |-> {"resp.response"}]

ClientTypes == [STRING |-> {"client.identity"}]

NamesIn(types) == UNION {types[t] : t \in DOMAIN types}

ReqNames    == NamesIn(ReqTypes)
BereqNames  == NamesIn(BereqTypes)
BerespNames == NamesIn(BerespTypes)
ObjNames    == NamesIn(ObjTypes)

Variables ==
  ReqNames \cup BereqNames \cup BerespNames \cup ObjNames \cup NamesIn(RespTypes)
    \cup NamesIn(ClientTypes)

Rtimes   == BereqTypes.RTIME \cup BerespTypes.RTIME \cup ObjTypes.RTIME \cup ReqTypes.RTIME
Booleans == BerespTypes.BOOL \cup ReqTypes.BOOL
Counts   == UNION {t.INTEGER : t \in {BerespTypes, ObjTypes, ReqTypes, RespTypes}}

TypeOf(name) ==
  CASE name \in Rtimes   -> "RTIME"
    [] name \in Booleans -> "BOOL"
    [] name \in Counts   -> "INTEGER"
    [] name = "req.backend" -> "REQBACKEND"
    [] name = "beresp.saintmode" -> "none"
    [] OTHER -> "STRING"

(* Debugging headers that some set statements write on resp and req.        *)
Shadowed == {"beresp.ttl", "beresp.grace", "beresp.stale_while_revalidate", "beresp.do_esi",
             "req.backend"}

Shadow(name) ==
  CASE name = "beresp.ttl"    -> "resp.http.X-TTL"
    [] name = "beresp.grace"  -> "resp.http.X-Grace"
    [] name = "beresp.stale_while_revalidate" -> "resp.http.X-SWR"
    [] name = "beresp.do_esi" -> "resp.http.X-ESI"
    [] name = "req.backend"   -> "req.http.X-Backend"

ContextFields == Variables \cup {Shadow(name) : name \in Shadowed}

(* The values of expressions that are assigned here.                        *)
AssignedValues ==
  [kind : {"raw", "text"}, text : Seq(Characters)]
    \cup [kind : {"concat"}, parts : Seq([text : Seq(Characters), notset : BOOLEAN])]
    \cup {NotSet}
    \cup [kind : {"int", "rtime"}, n : Int]
    \cup [kind : {"bool"}, b : BOOLEAN]
    \cup [kind : {"backend"}, name : Seq(Characters)]

(* A backend is only assigned as it is.                                     *)
AssignedBy(op, operand) ==
  op = "=" \/ (operand.kind # "backend" /\
               op \in DOMAIN Plain \cup {"&&=", "||=", "&=", "|=", "^=", "<<=", ">>=", "rol=", "ror="})

ASSUME PredefinedAssumption ==
  /\ Word("default") \in Declared
  /\ MaxRtime \in Nat /\ MaxAssignments \in Nat
  /\ \A a \in Assigned : a[2] \in AssignedValues /\ AssignedBy(a[1], a[2])
  /\ Absent \notin AssignedValues \cup {Null}

(* createVCLContext                                                         *)
Fresh ==
  [f \in ContextFields |->
     CASE f \in {"req.url", "bereq.url", "beresp.response", "resp.response"} -> Raw(<<>>)
       [] f \in {"req.method", "bereq.method"} -> Raw(Word("GET"))
       [] f \in {"beresp.status", "resp.status", "obj.status"} -> Num(200)
       [] f \in {"req.restarts", "obj.hits", "beresp.ttl", "beresp.grace",
                 "beresp.stale_while_revalidate"} -> Num(0)
       [] f = "beresp.do_esi" -> Bool(FALSE)
       [] f = "req.backend"   -> Raw(Word("default"))
       [] OTHER -> Absent]

PredefinedInit ==
  /\ fields = Fresh
  /\ chosen = Absent
  /\ results = [r \in {"apiBackend", "staticBackend", "defaultBackend"} |-> Absent]
  /\ assignments = 0
  /\ given = [v \in Variables |-> Absent]

-----------------------------------------------------------------------------
(* set                                                                      *)

(* String(value)                                                            *)
StringOf(v) ==
  CASE v.kind = "rtime"   -> Digits(v.n) \o Word(".000")
    [] v.kind = "backend" -> v.name
    [] OTHER              -> DisplayText(v)

(* parseTimeValue, of the value's string: a number, with or without a unit. *)
TimeValue(v) ==
  LET units  == [s |-> 1, m |-> 60, h |-> 3600]
      text   == StringOf(v)
      unit   == IF text # <<>> /\ Last(text) \in DOMAIN units THEN units[Last(text)] ELSE 1
      number == IF text # <<>> /\ Last(text) \in DOMAIN units THEN Front(text) ELSE text
  IN IF v.kind \in {"int", "rtime"} THEN v.n
     ELSE IF number = <<>> \/ Numbers(Raw(number)) = {} THEN 0
     ELSE unit * CHOOSE n \in Numbers(Raw(number)) : TRUE

NumberValue(v) ==
  IF v.kind = "rtime" THEN Num(v.n)
  ELSE IF v.kind = "backend" \/ Numbers(v) = {} THEN NaN
  ELSE Num(CHOOSE n \in Numbers(v) : TRUE)

(* Mutant of FieldOf: one allowance is kept as the other.                   *)
FieldMixed(name) ==
  CASE name = "beresp.hipaa" -> "beresp.pci"
    [] name = "req.max_stale_while_revalidate" -> "req.max_stale_if_error"
    [] OTHER -> name

(* One flag has two names.                                                  *)
FieldOf(name) == IF name = "beresp.hipaa" THEN "beresp.pci" ELSE name

(* beresp.do_esi looks at the expression itself.                            *)
EsiWanted(expression) ==
  CASE expression.kind = "bool" -> expression.b
    [] expression.kind = "raw"  -> expression.text = Word("true")
    [] expression.kind = "int"  -> expression.n # 0
    [] OTHER                    -> FALSE

(* What is kept of a value; names without a branch of their own keep it as  *)
(* it is.                                                                   *)
ToKeep(name, v, expression) ==
  CASE name \in {"req.url", "bereq.url", "req.method", "bereq.method", "resp.response",
                 "beresp.response", "obj.response", "client.identity", "req.backend"} ->
         Raw(StringOf(v))
    [] name \in {"req.restarts", "resp.status", "beresp.status", "obj.status", "obj.hits"} ->
         NumberValue(v)
    [] name \in {"beresp.cacheable", "beresp.do_stream", "beresp.gzip", "beresp.brotli",
                 "req.hash_always_miss", "req.hash_ignore_busy", "req.is_ssl", "req.esi"} ->
         Bool(JsTruthy(v))
    [] TypeOf(name) = "RTIME" \/ name = "beresp.saintmode" -> Num(TimeValue(v))
    [] name \in {"beresp.pci", "beresp.hipaa"} -> Bool(ToBool(v))
    [] name = "beresp.do_esi" -> Bool(EsiWanted(expression))
    [] OTHER -> v

(* getTargetValue: of all variables only these have a present value for a   *)
(* compound operator.                                                       *)
TargetValue(name) ==
  IF name \in {"beresp.ttl", "beresp.grace", "beresp.stale_while_revalidate",
               "req.backend", "req.restarts"}
    THEN fields[name] ELSE Null

(* The value a statement assigns: strings lose what made them special.      *)
Result(name, op, operand) ==
  LET flat(v)  == CASE v.kind = "concat" -> Raw(ForLocal(v))
                    [] v.kind = "text"   -> Raw(v.text)
                    [] v = NotSet        -> Raw(<<>>)
                    [] OTHER             -> v
      right    == IF operand.kind = "concat" THEN Raw(ForLocal(operand)) ELSE operand
      duration == right.kind = "rtime"
      applied  == Combine(op, TargetValue(name), IF duration THEN Num(right.n) ELSE right)
  IN IF op = "=" THEN flat(operand)
     ELSE IF duration /\ applied.kind = "int" THEN Rtime(applied.n)
     ELSE flat(applied)

(* The backends of a test's report go by the kind of URL.                   *)
ReportOf(path) ==
  IF IsPrefix(<<"/", "api", "/">>, path) THEN "apiBackend"
  ELSE IF IsSuffix(<<".", "css">>, path) THEN "staticBackend"
  ELSE "defaultBackend"

(* A division by zero is an exception: nothing is assigned.                 *)
SetVariable(name, op, operand) ==
  LET kept   == ToKeep(name, Result(name, op, operand), operand)
      shadow == Raw(DisplayText(kept))
  IN /\ assignments < MaxAssignments
     /\ Result(name, op, operand) # Thrown
     /\ assignments' = assignments + 1
     /\ fields' = [f \in ContextFields |->
                     IF f = FieldOf(name) THEN kept
                     ELSE IF name \in Shadowed /\ f = Shadow(name) THEN shadow
                     ELSE fields[f]]
     /\ chosen' = IF name = "req.backend" /\ kept.text \in Declared THEN kept.text ELSE chosen
     /\ results' = IF name = "req.backend"
                     THEN [results EXCEPT ![ReportOf(fields["req.url"].text)] = kept]
                     ELSE results
     /\ given' = [given EXCEPT ![IF name = "beresp.hipaa" THEN "beresp.pci" ELSE name] =
                    IF op = "=" THEN operand ELSE Null]

PredefinedNext ==
  \E name \in Variables, a \in Assigned : SetVariable(name, a[1], a[2])

PredefinedSpec == PredefinedInit /\ [][PredefinedNext]_predefinedVars

-----------------------------------------------------------------------------
(* Reading.                                                                 *)

LastOf(text, c) == Max({0} \cup {i \in DOMAIN text : text[i] = c})

UrlPart(part, text) ==
  LET q    == SelectInSeq(text, LAMBDA c : c = "?")
      path == IF q = 0 THEN text ELSE SubSeq(text, 1, q - 1)
      base == IF path = <<>> THEN <<".">> ELSE SubSeq(path, LastOf(path, "/") + 1, Len(path))
  IN CASE part = "path" -> path
       [] part = "qs"   -> IF q = 0 THEN <<>> ELSE SubSeq(text, q + 1, Len(text))
       [] part = "basename" -> base
       [] part = "dirname"  -> IF path = <<>> THEN <<".">>
                               ELSE IF LastOf(path, "/") = 0 THEN <<"/">>
                               ELSE SubSeq(path, 1, LastOf(path, "/"))
       [] part = "ext" -> IF LastOf(base, ".") = 0 THEN <<>>
                          ELSE SubSeq(base, LastOf(base, ".") + 1, Len(base))

(* What resolveVariable reads of a property that was never written.         *)
ReqDefault(name) ==
  CASE name \in Booleans     -> Bool(FALSE)
    [] name \in Rtimes       -> Num(MaxRtime)
    [] name = "req.restarts" -> Num(0)
    [] OTHER                 -> Raw(<<>>)

BereqDefault(name) == IF name = "bereq.first_byte_timeout" THEN Num(15) ELSE Num(0)

BerespDefault(name) == IF name \in Booleans THEN Bool(FALSE) ELSE Num(0)

ObjDefault(name) == IF name = "obj.response" THEN NotSet ELSE Num(0)

ClientDefault == Raw(Word("127.0.0.1"))

VariableDefault(name) ==
  CASE name \in ReqNames    -> ReqDefault(name)
    [] name \in BereqNames  -> BereqDefault(name)
    [] name \in BerespNames -> BerespDefault(name)
    [] name \in ObjNames    -> ObjDefault(name)
    [] OTHER                -> ClientDefault

(* resolveVariable: an empty identity or a zero count is none, either.      *)
Held(f, name) ==
  LET kept == f[FieldOf(name)]
  IN CASE name = "req.request"   -> f["req.method"]
       [] name = "bereq.request" -> f["bereq.method"]
       [] name = "req.enable_range_on_pass" -> Bool(FALSE)
       [] name \in {"req.restarts", "client.identity"} ->
            IF kept # Absent /\ JsTruthy(kept) THEN kept ELSE VariableDefault(name)
       [] OTHER -> IF kept = Absent THEN VariableDefault(name) ELSE kept

(* coerceVariableRead, and an INTEGER or a BOOL that a generic set left as  *)
(* it was.                                                                  *)
Variable(f, name) ==
  LET v == Held(f, name)
  IN CASE v = NotSet -> v
       [] TypeOf(name) = "RTIME" /\ v.kind = "int" -> Rtime(v.n)
       [] TypeOf(name) \in {"INTEGER", "BOOL"} -> Coerced(TypeOf(name), v)
       [] OTHER -> v

(* req.backend.name: of the current backend, or of the one req.backend      *)
(* names.                                                                   *)
BackendName ==
  IF chosen # Absent THEN chosen
  ELSE IF fields["req.backend"].text \in Declared THEN fields["req.backend"].text
  ELSE <<>>

-----------------------------------------------------------------------------
(* Properties.                                                              *)

PredefinedTypeOK ==
  /\ chosen \in Declared \cup {Absent}
  /\ assignments \in 0 .. MaxAssignments
  /\ \A v \in Variables :
       TypeOf(v) \in {"INTEGER", "BOOL", "RTIME"} =>
         Variable(fields, v).kind \in {"int", "nan", "bool", "rtime"}

(* Set statements that a reading never shows: the branch of set keeps them  *)
(* where no branch of resolveVariable looks, or there is no type to read    *)
(* them with.                                                               *)
Unread == {"req.request", "bereq.request", "req.enable_range_on_pass", "beresp.saintmode"}

OwnKinds ==
  [STRING |-> Strings, REQBACKEND |-> Strings \cup {"backend"}, INTEGER |-> {"int"},
   BOOL |-> {"bool"}, RTIME |-> {"rtime"}]

(* A variable reads as the last value of its type it was set to, whatever   *)
(* was set in between: no set statement reaches another variable, except    *)
(* the one flag of beresp.pci and beresp.hipaa, and one that was never set  *)
(* keeps its default.  The parts of a URL are the URL, and the name of the  *)
(* backend is that of the last declared one chosen.                         *)
PredefinedApart == assignments > 0 =>
  /\ \A name \in Variables \ Unread :
       LET v == given[IF name = "beresp.hipaa" THEN "beresp.pci" ELSE name]
           shown == CASE v.kind \in {"raw", "text"} -> Raw(v.text)
                      [] v.kind = "notset"  -> Raw(<<>>)
                      [] v.kind = "concat"  -> Raw(ForLocal(v))
                      [] v.kind = "backend" -> Raw(v.name)
                      [] OTHER              -> v
       IN IF v = Absent THEN fields[name] = Fresh[name]
          ELSE v.kind \in OwnKinds[TypeOf(name)] /\ <<name, shown>> #
                 <<"client.identity", Raw(<<>>)>> => Variable(fields, name) = shown
  /\ LET url  == fields["req.url"].text
         part(p) == UrlPart(p, url)
     IN /\ url \in {part("path"), part("path") \o <<"?">> \o part("qs")}
        /\ LastOf(part("path"), "/") > 0 => part("dirname") \o part("basename") = part("path")
        /\ part("ext") # <<>> => IsSuffix(<<".">> \o part("ext"), part("path"))
  /\ given["req.backend"] # Absent /\ given["req.backend"] # Null
       /\ fields["req.backend"].text \in Declared => BackendName = fields["req.backend"].text
=============================================================================
