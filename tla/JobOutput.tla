------------------------------ MODULE JobOutput ------------------------------
(***************************************************************************)
(* The output of a job pod (src/src/environment/action/deploy_job.rs):     *)
(* serialize_job_output parses the JSON document the job wrote into a map  *)
(* of JobOutputVariable, and run_job upper-cases its keys before it sends  *)
(* the map with core_configuration_for_job.                                *)
(*                                                                         *)
(* A document is abstracted to its parse: not JSON, a JSON value that is   *)
(* not an object, or an object given as its members in text order.  A JSON *)
(* value is a record: its kind, the content of a string, and its canonical *)
(* JSON text (what Value::to_string prints); an object member's value also *)
(* carries its fields.  Both loops run over a HashMap, whose iteration     *)
(* order is the hasher's: each step takes any key left.                    *)
(***************************************************************************)
EXTENDS Naturals, Sequences, FiniteSets

CONSTANTS
    Keys,       \* the member names the documents use
    UpperOf,    \* key.to_uppercase() on each of them
    Escaped,    \* the keys whose JSON text holds an escape sequence (\", \\, \u...)
    MaxMembers  \* bound on the members of a document

ASSUME OutputAssumption ==
    /\ UpperOf \in [Keys -> STRING]
    /\ Escaped \subseteq Keys
    /\ MaxMembers \in Nat

NoFields == [f \in {} |-> "none"]
JVal(k, s, j) == [kind |-> k, str |-> s, json |-> j, fields |-> NoFields]

(* The scalars the documents hold, with their canonical JSON text.         *)
Absent == JVal("absent", "", "")
Bar    == JVal("string", "bar", "\"bar\"")
Desc   == JVal("string", "d", "\"d\"")
True_s == JVal("string", "true", "\"true\"")
Num    == JVal("number", "", "123")
Null   == JVal("null", "", "null")
BTrue  == JVal("bool", "", "true")
BFalse == JVal("bool", "", "false")

FieldNames == {"value", "description", "sensitive"}

(* An entry object with the given fields, Absent meaning a field left out. *)
Obj(v, d, s) ==
    LET given == [value |-> v, description |-> d, sensitive |-> s]
    IN  [kind |-> "object", str |-> "", json |-> "",
         fields |-> [f \in {g \in FieldNames : given[g] # Absent} |-> given[f]]]

Objects == {Obj(v, d, s) : v \in {Absent, Bar, Num, Null},
                           d \in {Absent, Desc, Num},
                           s \in {Absent, BTrue, BFalse, True_s}}
Values == {Bar, Num, Null} \cup Objects

Members == UNION {[1..n -> Keys \X Values] : n \in 0..MaxMembers}
DocKinds == {"object", "array", "invalid"}

(* The texts a scalar of the documents reads as, quoted or not.           *)
Texts == {"bar", "d", "true", "123", "null", "false", ""}
Entries == [value : Texts, sensitive : BOOLEAN, description : Texts]

(* HashMap::insert: the key maps to the new value, replacing an old one.   *)
Insert(f, k, v) == [x \in DOMAIN f \cup {k} |-> IF x = k THEN v ELSE f[x]]

VARIABLES
    docKind,   \* what serde_json finds at the top of the document
    members,   \* the members of an object document, in text order
    pc,
    result,    \* "none", "ok" or "parseError"
    smap,      \* serde_hash_map: HashMap<&str, Value>
    pending,   \* keys of serde_hash_map the loop has not visited
    parsed,    \* job_output_variables
    toUpper,   \* keys of the parsed map the upper-casing has not visited
    reported   \* deserialized_json_hashmap_with_uppercase_keys

vars == <<docKind, members, pc, result, smap, pending, parsed, toUpper, reported>>

-----------------------------------------------------------------------------
(* The keys of the members, and the value of the last member of each:      *)
(* deserializing into a HashMap inserts every member in turn.              *)
MemberKeys(ms) == {ms[i][1] : i \in DOMAIN ms}
LastValue(ms, k) == ms[CHOOSE i \in DOMAIN ms :
                          ms[i][1] = k /\ \A j \in DOMAIN ms : ms[j][1] = k => j <= i][2]

(* value.to_string() of a non-string value is its JSON text.               *)
ValueText(x) == IF x.kind = "string" THEN x.str ELSE x.json

(* Mutant: missing or non-Boolean "sensitive" reads as true, as in          *)
(* JobOutputVariable::default.                                             *)
EntrySensitiveDefault(f) ==
    LET get(n) == IF n \in DOMAIN f THEN f[n] ELSE Null
    IN  [value       |-> ValueText(get("value")),
         sensitive   |-> IF get("sensitive").kind = "bool" THEN get("sensitive") = BTrue ELSE TRUE,
         description |-> IF get("description").kind = "string" THEN get("description").str ELSE ""]

(* The JobOutputVariable of an entry object: a missing field reads as      *)
(* Value::Null; "value" is the string or the JSON text, "sensitive" a      *)
(* Boolean or false, "description" a string or "".                         *)
Entry(f) ==
    LET get(n) == IF n \in DOMAIN f THEN f[n] ELSE Null
    IN  [value       |-> ValueText(get("value")),
         sensitive   |-> IF get("sensitive").kind = "bool" THEN get("sensitive") = BTrue ELSE FALSE,
         description |-> IF get("description").kind = "string" THEN get("description").str ELSE ""]

Init ==
    /\ docKind \in DocKinds
    /\ members \in IF docKind = "object" THEN Members ELSE {<<>>}
    /\ pc = "parse"
    /\ result = "none"
    /\ smap = [k \in {} |-> Null]
    /\ pending = {}
    /\ parsed = [k \in {} |-> Entry(NoFields)]
    /\ toUpper = {}
    /\ reported = [k \in {} |-> Entry(NoFields)]

(* serde_json::from_str into HashMap<&str, Value>: a key is borrowed from  *)
(* the text, which fails for a key with an escape; the error returns.      *)
Deserialize ==
    /\ pc = "parse"
    /\ IF docKind = "object" /\ MemberKeys(members) \cap Escaped = {}
       THEN /\ smap' = [k \in MemberKeys(members) |-> LastValue(members, k)]
            /\ pending' = MemberKeys(members)
            /\ pc' = "loop"
            /\ UNCHANGED result
       ELSE /\ pc' = "done" /\ result' = "parseError"
            /\ UNCHANGED <<smap, pending>>
    /\ UNCHANGED <<docKind, members, parsed, toUpper, reported>>

(* Mutant: a member that is not an object ends the loop (break).           *)
VisitBreak(k) ==
    /\ pc = "loop"
    /\ k \in pending
    /\ IF smap[k].kind = "object"
       THEN /\ parsed' = Insert(parsed, k, Entry(smap[k].fields))
            /\ pending' = pending \ {k}
       ELSE /\ pending' = {} /\ UNCHANGED parsed
    /\ UNCHANGED <<docKind, members, pc, result, smap, toUpper, reported>>

(* One turn of the loop: a value that is not an object is skipped          *)
(* (continue); an object is inserted under key.to_string().                *)
Visit(k) ==
    /\ pc = "loop"
    /\ k \in pending
    /\ pending' = pending \ {k}
    /\ IF smap[k].kind = "object"
       THEN parsed' = Insert(parsed, k, Entry(smap[k].fields))
       ELSE UNCHANGED parsed
    /\ UNCHANGED <<docKind, members, pc, result, smap, toUpper, reported>>

(* Mutant: the upper-casing iterates over the deserialized document.      *)
LoopDoneWrongMap ==
    /\ pc = "loop"
    /\ pending = {}
    /\ pc' = "upper"
    /\ toUpper' = DOMAIN smap
    /\ UNCHANGED <<docKind, members, result, smap, pending, parsed, reported>>

(* Ok(job_output_variables); run_job then maps the keys to upper case.     *)
LoopDone ==
    /\ pc = "loop"
    /\ pending = {}
    /\ pc' = "upper"
    /\ toUpper' = DOMAIN parsed
    /\ UNCHANGED <<docKind, members, result, smap, pending, parsed, reported>>

(* Mutant: the key is inserted as it is, without to_uppercase().          *)
UpcaseKeepsKey(k) ==
    /\ pc = "upper"
    /\ k \in toUpper
    /\ toUpper' = toUpper \ {k}
    /\ reported' = Insert(reported, k, parsed[k])
    /\ UNCHANGED <<docKind, members, pc, result, smap, pending, parsed>>

(* collect() into a HashMap: each (key.to_uppercase(), value) is inserted, *)
(* a later one replacing an earlier one under the same upper-cased key.    *)
Upcase(k) ==
    /\ pc = "upper"
    /\ k \in toUpper
    /\ toUpper' = toUpper \ {k}
    /\ reported' = Insert(reported, UpperOf[k], parsed[k])
    /\ UNCHANGED <<docKind, members, pc, result, smap, pending, parsed>>

(* core_configuration_for_job sends the upper-cased map.                   *)
Report ==
    /\ pc = "upper"
    /\ toUpper = {}
    /\ pc' = "done"
    /\ result' = "ok"
    /\ UNCHANGED <<docKind, members, smap, pending, parsed, toUpper, reported>>

Terminated == pc = "done" /\ UNCHANGED vars

Next ==
    \/ Deserialize \/ LoopDone \/ Report \/ Terminated
    \/ \E k \in Keys : Visit(k) \/ Upcase(k)

Spec == Init /\ [][Next]_vars

-----------------------------------------------------------------------------
TypeOK ==
    /\ docKind \in DocKinds
    /\ members \in Members
    /\ pc \in {"parse", "loop", "upper", "done"}
    /\ result \in {"none", "ok", "parseError"}
    /\ smap \in [DOMAIN smap -> Values] /\ DOMAIN smap \subseteq Keys
    /\ pending \subseteq DOMAIN smap
    /\ parsed \in [DOMAIN parsed -> Entries] /\ DOMAIN parsed \subseteq Keys
    /\ toUpper \subseteq DOMAIN parsed
    /\ reported \in [DOMAIN reported -> Entries]

(* The contract of spec 4.3, written from its words: every top-level key   *)
(* whose value is an object gives an entry (the string "value" or the JSON *)
(* text of another value, "description" a string or "", "sensitive" a     *)
(* Boolean or false); every other key is dropped without affecting its     *)
(* siblings.                                                               *)
Contract(ms) ==
    LET objs == {k \in MemberKeys(ms) : LastValue(ms, k).kind = "object"}
        fld(k, n) == IF n \in DOMAIN LastValue(ms, k).fields
                     THEN LastValue(ms, k).fields[n] ELSE Absent
    IN  [k \in objs |->
            [value       |-> CASE fld(k, "value").kind = "string" -> fld(k, "value").str
                               [] fld(k, "value") = Absent         -> "null"
                               [] OTHER                            -> fld(k, "value").json,
             sensitive   |-> fld(k, "sensitive") = BTrue,
             description |-> IF fld(k, "description").kind = "string"
                             THEN fld(k, "description").str ELSE ""]]

(* serialize_job_output meets the contract whatever order the HashMap      *)
(* yields its keys in: the loop's continue skips a non-object member only. *)
ParsedFollowsContract ==
    pc = "done" /\ result = "ok" => parsed = Contract(members)

(* Spec 4.3: the parse fails only when the document is not JSON or not an  *)
(* object.  serde_json borrows each key as &str from the text, which is    *)
(* impossible for a key written with an escape: the whole output is lost.  *)
ParseFailsOnlyOnMalformed ==
    pc = "done" /\ result = "parseError" => docKind # "object"

(* Spec 4.4 step 5: the parsed output is passed on with its keys upper-    *)
(* cased.  Two keys that differ only in case collide, and which entry is   *)
(* kept depends on the HashMap's iteration order.                          *)
ReportKeepsEveryEntry ==
    pc = "done" /\ result = "ok" =>
        \A k \in DOMAIN parsed : reported[UpperOf[k]] = parsed[k]

(* What run_job's upper-casing does guarantee: the map sent has exactly    *)
(* the upper-cased keys of the parsed map, and each entry sent is the      *)
(* entry of one of the keys that upper-case to it.  Keys that differ only  *)
(* in case collide and the HashMap's order picks the survivor, but no key  *)
(* is dropped and no entry is sent under a key it does not belong to.      *)
ReportFromParsed ==
    pc = "done" /\ result = "ok" =>
        /\ DOMAIN reported = {UpperOf[k] : k \in DOMAIN parsed}
        /\ \A u \in DOMAIN reported :
              \E k \in DOMAIN parsed : UpperOf[k] = u /\ reported[u] = parsed[k]

=============================================================================
