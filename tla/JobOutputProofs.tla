--------------------------- MODULE JobOutputProofs ---------------------------
(***************************************************************************)
(* Proofs about serialize_job_output and the upper-casing of its keys, for *)
(* every set of keys and every bound on the members of a document.         *)
(***************************************************************************)
EXTENDS JobOutput, WellFoundedInduction, TLAPS

(* Every key of a document has a last member: the members are numbered     *)
(* 1..n, and the least upper bound of the numbers of a key's members is    *)
(* one of them (< is well-founded on Nat).                                 *)
LEMMA LastIndexExists ==
    ASSUME NEW ms \in Members, NEW k \in MemberKeys(ms)
    PROVE  \E i \in DOMAIN ms : ms[i][1] = k /\ \A j \in DOMAIN ms : ms[j][1] = k => j <= i
<1> USE OutputAssumption
<1>1. PICK n \in 0..MaxMembers : ms \in [1..n -> Keys \X Values]
    BY DEF Members
<1> DEFINE I == {i \in 1..n : ms[i][1] = k}
           U == {m \in Nat : \A j \in I : j <= m}
<1>2. I # {}
    BY <1>1 DEF MemberKeys
<1>3. n \in U
    OBVIOUS
<1>4. PICK m \in U : \A y \in U : ~(<<y, m>> \in OpToRel(<, Nat))
    BY <1>3, NatLessThanWellFounded, WFMin
<1>5. \A y \in U : ~(y < m)
    BY <1>4 DEF OpToRel
<1>6. m \in I
    <2> SUFFICES ASSUME m \notin I PROVE FALSE
        OBVIOUS
    <2>1. CASE m = 0
        BY <1>2, <2>1
    <2>2. CASE m # 0
        <3>1. m - 1 \in U
            BY <2>2
        <3>2. QED
            BY <1>5, <3>1
    <2>3. QED
        BY <2>1, <2>2
<1>7. QED
    BY <1>1, <1>6

(* The keys of a document's members are keys.                              *)
LEMMA MemberKeysType ==
    ASSUME NEW ms \in Members
    PROVE  MemberKeys(ms) \subseteq Keys
<1>1. PICK n \in 0..MaxMembers : ms \in [1..n -> Keys \X Values]
    BY DEF Members
<1>2. \A i \in 1..n : ms[i][1] \in Keys
    BY <1>1
<1>3. QED
    BY <1>1, <1>2 DEF MemberKeys

(* The value the HashMap keeps for a key is the value of one of its        *)
(* members.                                                                *)
LEMMA LastValueType ==
    ASSUME NEW ms \in Members, NEW k \in MemberKeys(ms)
    PROVE  LastValue(ms, k) \in Values
<1>1. PICK n \in 0..MaxMembers : ms \in [1..n -> Keys \X Values]
    BY DEF Members
<1>2. (CHOOSE i \in DOMAIN ms :
          ms[i][1] = k /\ \A j \in DOMAIN ms : ms[j][1] = k => j <= i) \in DOMAIN ms
    BY LastIndexExists
<1>3. QED
    BY <1>1, <1>2 DEF LastValue

Scalars == {Bar, Desc, True_s, Num, Null, BTrue, BFalse}

(* The fields an entry object gives are scalars, and a field left out is   *)
(* outside the domain.                                                     *)
LEMMA ObjectFields ==
    ASSUME NEW x \in Objects
    PROVE  /\ x.kind = "object"
           /\ DOMAIN x.fields \subseteq FieldNames
           /\ \A f \in DOMAIN x.fields : x.fields[f] \in Scalars
<1>1. PICK v \in {Absent, Bar, Num, Null}, d \in {Absent, Desc, Num},
           s \in {Absent, BTrue, BFalse, True_s} : x = Obj(v, d, s)
    BY DEF Objects
<1> DEFINE given == [value |-> v, description |-> d, sensitive |-> s]
<1>2. x.kind = "object"
    BY <1>1 DEF Obj
<1>3. x.fields = [f \in {g \in FieldNames : given[g] # Absent} |-> given[f]]
    BY <1>1 DEF Obj
<1>4. \A f \in FieldNames : given[f] \in {Absent} \cup Scalars
    BY DEF FieldNames, Scalars
<1>5. QED
    BY <1>2, <1>3, <1>4

(* A value of a document that is an object is an entry object.            *)
LEMMA ObjectValue ==
    ASSUME NEW x \in Values, x.kind = "object"
    PROVE  x \in Objects
<1>1. Bar.kind # "object" /\ Num.kind # "object" /\ Null.kind # "object"
    BY DEF Bar, Num, Null, JVal
<1>2. QED
    BY <1>1, Zenon DEF Values

(* The scalars are not the missing field, and their text is a string.     *)
LEMMA ScalarFacts ==
    ASSUME NEW y \in Scalars
    PROVE  /\ y # Absent /\ y.kind # "absent"
           /\ y.str \in Texts /\ ValueText(y) \in Texts
<1> DEFINE P(z) == /\ z # Absent /\ z.kind # "absent"
                   /\ z.str \in Texts /\ ValueText(z) \in Texts
<1>1. Absent.kind = "absent"
    BY DEF Absent, JVal
<1>2. P(Bar)
    <2>1. Bar.kind = "string" /\ Bar.str = "bar"
        BY Zenon DEF Bar, JVal
    <2>2. QED
        BY <1>1, <2>1 DEF ValueText, Texts
<1>3. P(Desc)
    <2>1. Desc.kind = "string" /\ Desc.str = "d"
        BY Zenon DEF Desc, JVal
    <2>2. QED
        BY <1>1, <2>1 DEF ValueText, Texts
<1>4. P(True_s)
    <2>1. True_s.kind = "string" /\ True_s.str = "true"
        BY Zenon DEF True_s, JVal
    <2>2. QED
        BY <1>1, <2>1 DEF ValueText, Texts
<1>5. P(Num) /\ P(Null) /\ P(BTrue) /\ P(BFalse)
    <2>1. /\ Num.kind = "number" /\ Num.str = "" /\ Num.json = "123"
          /\ Null.kind = "null" /\ Null.str = "" /\ Null.json = "null"
          /\ BTrue.kind = "bool" /\ BTrue.str = "" /\ BTrue.json = "true"
          /\ BFalse.kind = "bool" /\ BFalse.str = "" /\ BFalse.json = "false"
        BY DEF Num, Null, BTrue, BFalse, JVal
    <2>2. QED
        BY <1>1, <2>1 DEF ValueText, Texts
<1>6. QED
    BY <1>2, <1>3, <1>4, <1>5 DEF Scalars

(* A JobOutputVariable is two texts and a flag.                            *)
LEMMA EntryIntro ==
    ASSUME NEW a \in Texts, NEW b \in BOOLEAN, NEW c \in Texts
    PROVE  [value |-> a, sensitive |-> b, description |-> c] \in Entries
BY DEF Entries

(* The JobOutputVariable built from an entry object is well formed.        *)
LEMMA EntryType ==
    ASSUME NEW x \in Objects
    PROVE  Entry(x.fields) \in Entries
<1> DEFINE f == x.fields
           get(n) == IF n \in DOMAIN f THEN f[n] ELSE Null
<1>1. \A n \in FieldNames : get(n) \in Scalars
    BY ObjectFields DEF Scalars
<1>2. \A n \in FieldNames : ValueText(get(n)) \in Texts /\ get(n).str \in Texts
    BY <1>1, ScalarFacts
<1>3. Entry(f) =
        [value       |-> ValueText(get("value")),
         sensitive   |-> IF get("sensitive").kind = "bool" THEN get("sensitive") = BTrue ELSE FALSE,
         description |-> IF get("description").kind = "string" THEN get("description").str ELSE ""]
    BY DEF Entry
<1>4. (IF get("sensitive").kind = "bool" THEN get("sensitive") = BTrue ELSE FALSE) \in BOOLEAN
    BY Zenon
<1>5. ValueText(get("value")) \in Texts
    BY <1>2 DEF FieldNames
<1>6. (IF get("description").kind = "string" THEN get("description").str ELSE "") \in Texts
    BY <1>2 DEF FieldNames, Texts
<1>7. [value       |-> ValueText(get("value")),
       sensitive   |-> IF get("sensitive").kind = "bool" THEN get("sensitive") = BTrue ELSE FALSE,
       description |-> IF get("description").kind = "string" THEN get("description").str ELSE ""]
        \in Entries
    BY <1>4, <1>5, <1>6, EntryIntro
<1>8. QED
    BY <1>3, <1>7

(* The loop of serialize_job_output and the contract of spec 4.3 agree on  *)
(* every entry object: a missing "value" reads as null, a "sensitive"     *)
(* that is not true reads as false, a "description" that is not a string   *)
(* reads as "".                                                            *)
LEMMA EntryMatchesContract ==
    ASSUME NEW ms \in Members, NEW k \in MemberKeys(ms),
           LastValue(ms, k).kind = "object"
    PROVE  Contract(ms)[k] = Entry(LastValue(ms, k).fields)
<1> DEFINE x == LastValue(ms, k)
           f == x.fields
           get(n) == IF n \in DOMAIN f THEN f[n] ELSE Null
           fld(n) == IF n \in DOMAIN f THEN f[n] ELSE Absent
<1>0. BTrue.kind = "bool" /\ Null.kind = "null" /\ Absent.kind = "absent"
    BY DEF BTrue, Null, Absent, JVal
<1>1. x \in Objects
    BY LastValueType, ObjectValue
<1>2. \A n \in DOMAIN f : f[n] \in Scalars /\ f[n] # Absent /\ f[n].kind # "absent"
    BY <1>1, ObjectFields, ScalarFacts
<1>3. Contract(ms)[k] =
        [value       |-> CASE fld("value").kind = "string" -> fld("value").str
                           [] fld("value") = Absent         -> "null"
                           [] OTHER                         -> fld("value").json,
         sensitive   |-> fld("sensitive") = BTrue,
         description |-> IF fld("description").kind = "string"
                         THEN fld("description").str ELSE ""]
    BY DEF Contract
<1>4. Entry(f) =
        [value       |-> ValueText(get("value")),
         sensitive   |-> IF get("sensitive").kind = "bool" THEN get("sensitive") = BTrue ELSE FALSE,
         description |-> IF get("description").kind = "string" THEN get("description").str ELSE ""]
    BY DEF Entry
<1>5. (CASE fld("value").kind = "string" -> fld("value").str
         [] fld("value") = Absent         -> "null"
         [] OTHER                         -> fld("value").json) = ValueText(get("value"))
    <2>1. CASE "value" \in DOMAIN f
        BY <1>2, <2>1 DEF ValueText
    <2>2. CASE "value" \notin DOMAIN f
        BY <2>2 DEF ValueText, Absent, Null, JVal
    <2>3. QED
        BY <2>1, <2>2
<1>6. (fld("sensitive") = BTrue)
        <=> (IF get("sensitive").kind = "bool" THEN get("sensitive") = BTrue ELSE FALSE)
    <2>1. CASE "sensitive" \in DOMAIN f
        BY <1>0, <2>1
    <2>2. CASE "sensitive" \notin DOMAIN f
        BY <1>0, <2>2
    <2>3. QED
        BY <2>1, <2>2
<1>7. (IF fld("description").kind = "string" THEN fld("description").str ELSE "")
        = (IF get("description").kind = "string" THEN get("description").str ELSE "")
    <2>1. CASE "description" \in DOMAIN f
        BY <2>1
    <2>2. CASE "description" \notin DOMAIN f
        BY <2>2 DEF Absent, Null, JVal
    <2>3. QED
        BY <2>1, <2>2
<1>8. QED
    BY <1>3, <1>4, <1>5, <1>6, <1>7

-----------------------------------------------------------------------------
(* The HashMap serde_json builds from a document: each key to the value of *)
(* its last member.                                                        *)
SMap(ms) == [k \in MemberKeys(ms) |-> LastValue(ms, k)]

(* The entries the loop has built once it has visited the keys D of the    *)
(* map m: one per key whose value is an object.                            *)
PartOf(m, D) == [j \in {j \in D : m[j].kind = "object"} |-> Entry(m[j].fields)]

(* The entries built from a map of document values are JobOutputVariables. *)
LEMMA PartOfType ==
    ASSUME NEW m, NEW D, m \in [DOMAIN m -> Values], D \subseteq DOMAIN m
    PROVE  /\ PartOf(m, D) \in [DOMAIN PartOf(m, D) -> Entries]
           /\ DOMAIN PartOf(m, D) \subseteq D
<1>1. \A j \in D : m[j].kind = "object" => Entry(m[j].fields) \in Entries
    BY ObjectValue, EntryType
<1>2. QED
    BY <1>1 DEF PartOf

(* One turn of the loop adds the visited key's entry when its value is an  *)
(* object, and nothing otherwise.                                          *)
LEMMA PartVisit ==
    ASSUME NEW m, NEW D, NEW k
    PROVE  /\ m[k].kind = "object" =>
                Insert(PartOf(m, D), k, Entry(m[k].fields)) = PartOf(m, D \cup {k})
           /\ m[k].kind # "object" => PartOf(m, D) = PartOf(m, D \cup {k})
BY DEF Insert, PartOf

(* The contract of spec 4.3 is the loop's result over the whole HashMap.  *)
LEMMA ContractIsPart ==
    ASSUME NEW ms \in Members
    PROVE  Contract(ms) = PartOf(SMap(ms), MemberKeys(ms))
<1> DEFINE objs == {k \in MemberKeys(ms) : LastValue(ms, k).kind = "object"}
<1>1. Contract(ms) = [k \in objs |-> Contract(ms)[k]]
    BY DEF Contract
<1>2. \A k \in objs : Contract(ms)[k] = Entry(LastValue(ms, k).fields)
    BY EntryMatchesContract
<1>3. PartOf(SMap(ms), MemberKeys(ms)) = [k \in objs |-> Entry(LastValue(ms, k).fields)]
    BY DEF PartOf, SMap
<1>4. QED
    BY <1>1, <1>2, <1>3

-----------------------------------------------------------------------------
(* The inductive invariant of the parse, the loop and the upper-casing.    *)
ParseEmpty == pc = "parse" => DOMAIN parsed = {}
NoResultYet == pc \in {"parse", "loop", "upper"} => result = "none"
Parsing == pc \in {"loop", "upper"} \/ (pc = "done" /\ result = "ok")
MapFromDocument == Parsing => smap = SMap(members)
LoopPrefix == pc = "loop" => parsed = PartOf(smap, DOMAIN smap \ pending)
LoopComplete == pc = "upper" \/ (pc = "done" /\ result = "ok") => parsed = PartOf(smap, DOMAIN smap)

OInv == TypeOK /\ ParseEmpty /\ NoResultYet /\ MapFromDocument /\ LoopPrefix /\ LoopComplete

(* A document that is not an object has no members.                       *)
LEMMA EmptyMembers ==
    ASSUME NEW S
    PROVE  <<>> \in [1..0 -> S]
<1>1. 1..0 = {} /\ DOMAIN <<>> = {}
    OBVIOUS
<1>2. QED
    BY <1>1

LEMMA InitOInv == Init => OInv
<1> SUFFICES ASSUME Init PROVE OInv
    OBVIOUS
<1> USE OutputAssumption
<1>1. members \in Members
    <2>1. <<>> \in [1..0 -> Keys \X Values]
        BY EmptyMembers
    <2>2. <<>> \in Members
        <3>1. 0 \in 0..MaxMembers
            OBVIOUS
        <3>2. QED
            BY <2>1, <3>1, Zenon DEF Members
    <2>3. QED
        BY <2>2 DEF Init
<1>2. QED
    BY <1>1 DEF Init, OInv, TypeOK, DocKinds, ParseEmpty, NoResultYet, Parsing,
               MapFromDocument, LoopPrefix, LoopComplete, Values

LEMMA OInvInductive == OInv /\ [Next]_vars => OInv'
<1> SUFFICES ASSUME OInv, [Next]_vars PROVE OInv'
    OBVIOUS
<1> USE OutputAssumption DEF OInv, TypeOK, ParseEmpty, NoResultYet, Parsing, MapFromDocument,
        LoopPrefix, LoopComplete
<1>1. CASE Deserialize
    <2>1. CASE docKind = "object" /\ MemberKeys(members) \cap Escaped = {}
        <3>1. /\ smap' = SMap(members) /\ pending' = MemberKeys(members)
              /\ pc' = "loop" /\ pc = "parse" /\ result' = result
              /\ parsed' = parsed /\ members' = members /\ docKind' = docKind
              /\ toUpper' = toUpper /\ reported' = reported
            BY <1>1, <2>1 DEF Deserialize, SMap
        <3>2. MemberKeys(members) \subseteq Keys
            BY MemberKeysType
        <3>3. SMap(members) \in [MemberKeys(members) -> Values]
            BY LastValueType DEF SMap
        <3>4. parsed' = PartOf(smap', DOMAIN smap' \ pending')
            BY <3>1, <3>3 DEF PartOf
        <3>5. QED
            BY <3>1, <3>2, <3>3, <3>4
    <2>2. CASE ~(docKind = "object" /\ MemberKeys(members) \cap Escaped = {})
        BY <1>1, <2>2 DEF Deserialize
    <2>3. QED
        BY <2>1, <2>2
<1>2. CASE LoopDone
    BY <1>2 DEF LoopDone
<1>3. CASE Report
    BY <1>3 DEF Report
<1>4. CASE Terminated
    BY <1>4 DEF Terminated, vars
<1>5. CASE \E k \in Keys : Visit(k)
    <2> PICK k \in Keys : Visit(k)
        BY <1>5
    <2>1. /\ pc = "loop" /\ k \in pending /\ pending' = pending \ {k}
          /\ UNCHANGED <<docKind, members, pc, result, smap, toUpper, reported>>
        BY DEF Visit
    <2> DEFINE D == DOMAIN smap \ pending
    <2>2. DOMAIN smap' \ pending' = D \cup {k}
        BY <2>1
    <2>3. parsed' = PartOf(smap, D \cup {k})
        <3>1. CASE smap[k].kind = "object"
            BY <2>1, <3>1, PartVisit DEF Visit
        <3>2. CASE smap[k].kind # "object"
            BY <2>1, <3>2, PartVisit DEF Visit
        <3>3. QED
            BY <3>1, <3>2
    <2>4. D \cup {k} \subseteq DOMAIN smap
        BY <2>1
    <2>5. /\ PartOf(smap, D \cup {k}) \in [DOMAIN PartOf(smap, D \cup {k}) -> Entries]
          /\ DOMAIN PartOf(smap, D \cup {k}) \subseteq D \cup {k}
        BY <2>4, PartOfType
    <2>6. DOMAIN parsed \subseteq DOMAIN parsed'
        BY <2>1, <2>3 DEF PartOf
    <2>7. TypeOK'
        BY <2>1, <2>3, <2>4, <2>5, <2>6
    <2>8. QED
        BY <2>1, <2>2, <2>3, <2>7
<1>6. CASE \E k \in Keys : Upcase(k)
    <2> PICK k \in Keys : Upcase(k)
        BY <1>6
    <2>1. /\ pc = "upper" /\ k \in toUpper /\ toUpper' = toUpper \ {k}
          /\ reported' = Insert(reported, UpperOf[k], parsed[k])
          /\ UNCHANGED <<docKind, members, pc, result, smap, pending, parsed>>
        BY DEF Upcase
    <2>2. parsed[k] \in Entries
        BY <2>1
    <2>3. /\ Insert(reported, UpperOf[k], parsed[k])
                \in [DOMAIN reported \cup {UpperOf[k]} -> Entries]
          /\ DOMAIN Insert(reported, UpperOf[k], parsed[k]) = DOMAIN reported \cup {UpperOf[k]}
        BY <2>2 DEF Insert
    <2>4. reported' \in [DOMAIN reported' -> Entries]
        BY <2>1, <2>3
    <2>5. QED
        BY <2>1, <2>4
<1>7. CASE UNCHANGED vars
    BY <1>7 DEF vars
<1>8. QED
    BY <1>1, <1>2, <1>3, <1>4, <1>5, <1>6, <1>7 DEF Next

(* The type of every variable through the parse, the loop and the          *)
(* upper-casing, for every set of keys and every bound on the members.     *)
THEOREM OutputTypeCorrect == Spec => []TypeOK
<1>1. OInv => TypeOK
    BY DEF OInv
<1>2. QED
    BY <1>1, InitOInv, OInvInductive, PTL DEF Spec

(* serialize_job_output keeps the contract of spec 4.3 on every document,  *)
(* whatever order the HashMap yields its keys in: once it returns Ok, its  *)
(* map holds an entry for exactly the keys whose last value is an object,  *)
(* and each entry reads the fields as the contract says.                   *)
THEOREM ContractKept == Spec => []ParsedFollowsContract
<1>1. OInv => ParsedFollowsContract
    <2> SUFFICES ASSUME OInv, pc = "done", result = "ok"
                 PROVE  parsed = Contract(members)
        BY DEF ParsedFollowsContract
    <2>1. parsed = PartOf(SMap(members), MemberKeys(members))
        BY DEF OInv, LoopComplete, MapFromDocument, Parsing, SMap
    <2>2. QED
        BY <2>1, ContractIsPart DEF OInv, TypeOK
<1>2. QED
    BY <1>1, InitOInv, OInvInductive, PTL DEF Spec

-----------------------------------------------------------------------------
(* A map rep holding, for the keys V of the parsed map, one key per       *)
(* upper-cased key of V, with the entry of one of the keys that map to it. *)
MapFrom(rep, V) ==
    /\ DOMAIN rep = {UpperOf[k] : k \in V}
    /\ \A u \in DOMAIN rep : \E k \in V : UpperOf[k] = u /\ rep[u] = parsed[k]

(* The map sent after the upper-casing of the keys V of the parsed map.    *)
ReportedFrom(V) == MapFrom(reported, V)

(* The inductive invariant of the upper-casing in run_job.                 *)
NothingReported == pc \in {"parse", "loop"} => DOMAIN reported = {}
NoUpperPending == pc \in {"parse", "loop", "done"} => toUpper = {}
UpperPrefix ==
    pc = "upper" \/ (pc = "done" /\ result = "ok") => ReportedFrom(DOMAIN parsed \ toUpper)

UInv == NothingReported /\ NoUpperPending /\ UpperPrefix

LEMMA InitUInv == Init => UInv
BY DEF Init, UInv, NothingReported, NoUpperPending, UpperPrefix, ReportedFrom, MapFrom

(* One insertion of collect(): the upper-cased key of k now holds k's      *)
(* entry, and every other key keeps the entry it had.                      *)
LEMMA UpcaseStep ==
    ASSUME NEW rep, NEW V, NEW k, MapFrom(rep, V), rep = [u \in DOMAIN rep |-> rep[u]]
    PROVE  MapFrom(Insert(rep, UpperOf[k], parsed[k]), V \cup {k})
<1> DEFINE r == Insert(rep, UpperOf[k], parsed[k])
<1>1. DOMAIN r = DOMAIN rep \cup {UpperOf[k]}
    BY DEF Insert
<1>2. DOMAIN r = {UpperOf[j] : j \in V \cup {k}}
    BY <1>1 DEF MapFrom
<1>3. ASSUME NEW u \in DOMAIN r
      PROVE  \E j \in V \cup {k} : UpperOf[j] = u /\ r[u] = parsed[j]
    <2>1. CASE u = UpperOf[k]
        <3>1. r[u] = parsed[k]
            BY <2>1 DEF Insert
        <3>2. QED
            BY <2>1, <3>1
    <2>2. CASE u # UpperOf[k]
        <3>1. u \in DOMAIN rep /\ r[u] = rep[u]
            BY <1>1, <2>2 DEF Insert
        <3>2. PICK j \in V : UpperOf[j] = u /\ rep[u] = parsed[j]
            BY <3>1 DEF MapFrom
        <3>3. QED
            BY <3>1, <3>2
    <2>3. QED
        BY <2>1, <2>2
<1>4. QED
    BY <1>2, <1>3 DEF MapFrom

LEMMA UInvInductive == OInv /\ UInv /\ [Next]_vars => UInv'
<1> SUFFICES ASSUME OInv, UInv, [Next]_vars PROVE UInv'
    OBVIOUS
<1> USE DEF UInv, NothingReported, NoUpperPending, UpperPrefix
<1>1. CASE Deserialize
    BY <1>1 DEF Deserialize
<1>2. CASE LoopDone
    <2>1. pc' = "upper" /\ toUpper' = DOMAIN parsed /\ DOMAIN reported = {}
          /\ UNCHANGED <<parsed, reported>>
        BY <1>2 DEF LoopDone
    <2>2. ReportedFrom(DOMAIN parsed \ toUpper)'
        BY <2>1 DEF ReportedFrom, MapFrom
    <2>3. QED
        BY <2>1, <2>2
<1>3. CASE Report
    <2>1. pc = "upper" /\ toUpper = {} /\ pc' = "done" /\ result' = "ok"
          /\ UNCHANGED <<parsed, toUpper, reported>>
        BY <1>3 DEF Report
    <2>2. ReportedFrom(DOMAIN parsed \ toUpper)'
        BY <2>1 DEF ReportedFrom, MapFrom
    <2>3. QED
        BY <2>1, <2>2
<1>4. CASE Terminated
    BY <1>4 DEF Terminated, vars, ReportedFrom, MapFrom
<1>5. CASE \E k \in Keys : Visit(k)
    BY <1>5 DEF Visit
<1>6. CASE \E k \in Keys : Upcase(k)
    <2> PICK k \in Keys : Upcase(k)
        BY <1>6
    <2>1. /\ pc = "upper" /\ k \in toUpper /\ toUpper' = toUpper \ {k}
          /\ reported' = Insert(reported, UpperOf[k], parsed[k])
          /\ UNCHANGED <<pc, result, parsed>>
        BY DEF Upcase
    <2> DEFINE V == DOMAIN parsed \ toUpper
    <2>2. DOMAIN parsed' \ toUpper' = V \cup {k}
        BY <2>1 DEF OInv, TypeOK
    <2>3. MapFrom(reported, V)
        BY <2>1 DEF ReportedFrom
    <2>4. reported = [u \in DOMAIN reported |-> reported[u]]
        BY DEF OInv, TypeOK
    <2>5. MapFrom(Insert(reported, UpperOf[k], parsed[k]), V \cup {k})
        BY <2>3, <2>4, UpcaseStep
    <2>6. ReportedFrom(DOMAIN parsed \ toUpper)'
        BY <2>1, <2>2, <2>5 DEF ReportedFrom, MapFrom
    <2>7. QED
        BY <2>1, <2>6
<1>7. CASE UNCHANGED vars
    BY <1>7 DEF vars, ReportedFrom, MapFrom
<1>8. QED
    BY <1>1, <1>2, <1>3, <1>4, <1>5, <1>6, <1>7 DEF Next

(* run_job's upper-casing sends exactly the upper-cased keys of the parsed *)
(* map, each with the entry of one of the keys that upper-case to it, for  *)
(* every set of keys and every to_uppercase, colliding keys included: the  *)
(* HashMap's order only picks which of the colliding entries survives.    *)
THEOREM ReportKept == Spec => []ReportFromParsed
<1>1. UInv => ReportFromParsed
    BY DEF UInv, UpperPrefix, NoUpperPending, ReportedFrom, MapFrom, ReportFromParsed
<1>2. Init => OInv /\ UInv
    BY InitOInv, InitUInv
<1>3. OInv /\ UInv /\ [Next]_vars => OInv' /\ UInv'
    BY OInvInductive, UInvInductive
<1>4. QED
    BY <1>1, <1>2, <1>3, PTL DEF Spec

=============================================================================
