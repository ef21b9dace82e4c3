---------------------------- MODULE MqttRecords ----------------------------
(***************************************************************************)
(* struct mqtt_msg and struct mqtt_conf (mqtt.c): records that own the     *)
(* memory of their texts and data, with operators that copy and move them. *)
(*                                                                         *)
(* Both kinds are records of the same fields here:                         *)
(*   first    topic                or client_id                            *)
(*   second   NULL                 or user_name                            *)
(*   data     payload              or password                             *)
(*   length   payload_len          or password_len                         *)
(*   setting  qos and retain       or keep_alive                           *)
(***************************************************************************)
EXTENDS Bytes, FiniteSets

CONSTANTS
    Slots,          \* where the program keeps records
    Texts,          \* strings a record is created with
    Datas,          \* payloads and passwords, as sequences
    Settings        \* the numbers beside them, with the default among them

VARIABLES
    records,        \* the record in each slot, NULL where there is none
    memory,         \* the contents of the blocks that are allocated
    expected        \* what each record has to hold, by the calls made

recordVars == <<records, memory, expected>>

\* struct mqtt_msg and struct mqtt_conf: a pointer is NULL or the number of a block.
Record ==
    [kind : {"msg", "conf"}, first : Nat \cup {NULL}, second : Nat \cup {NULL},
     data : Nat \cup {NULL}, length : Nat, setting : Settings]

ASSUME RecordsAssumption ==
    /\ NULL \notin Nat /\ NULL \notin Record
    /\ Settings # {}
    /\ Datas \subseteq Seq(Byte)

DefaultSetting == CHOOSE s \in Settings : TRUE

\* mqtt_msg_init, mqtt_conf_init
Initial(kind) ==
    [kind |-> kind, first |-> NULL, second |-> NULL, data |-> NULL, length |-> 0,
     setting |-> DefaultSetting]

Pointers(r) == {r.first, r.second, r.data} \ {NULL}

Used == DOMAIN memory

\* Three blocks that are free, whichever these are.
FreeBlocks == CHOOSE f \in [1..3 -> 1..3 + Cardinality(Used)] :
                f[1] < f[2] /\ f[2] < f[3] /\ {f[1], f[2], f[3]} \cap Used = {}

Nothing == [first |-> NULL, second |-> NULL, data |-> NULL]

\* The program sees the contents the pointers of r lead to.
Shown(r, mem) ==
    [field \in DOMAIN Nothing |->
        IF r[field] = NULL THEN NULL ELSE IF r[field] \in DOMAIN mem THEN mem[r[field]] ELSE <<>>]

Without(mem, blocks) == [b \in DOMAIN mem \ blocks |-> mem[b]]

\* The record r with copies of these contents, and the memory then.
Filled(r, contents, length, setting) ==
    LET block(i, c) == IF c = NULL THEN NULL ELSE FreeBlocks[i]
        p == <<block(1, contents.first), block(2, contents.second), block(3, contents.data)>>
        c == <<contents.first, contents.second, contents.data>>
    IN  [record |-> [r EXCEPT !.first = p[1], !.second = p[2], !.data = p[3],
                              !.length = length, !.setting = setting],
         memory |-> [b \in Used \cup ({p[1], p[2], p[3]} \ {NULL}) |->
                        IF b \in Used THEN memory[b] ELSE c[CHOOSE i \in 1..3 : p[i] = b]]]

-----------------------------------------------------------------------------
RecordsInit ==
    /\ records = [s \in Slots |-> NULL]
    /\ memory = <<>>
    /\ expected = [s \in Slots |-> Nothing]

Exists(s) == records[s] # NULL

\* mqtt_msg_new, mqtt_conf_new
NewRecord(s, kind) ==
    /\ ~Exists(s)
    /\ records' = [records EXCEPT ![s] = Initial(kind)]
    /\ expected' = [expected EXCEPT ![s] = Nothing]
    /\ UNCHANGED memory

\* mqtt_msg_create
CreateMsg(s) ==
    /\ ~Exists(s)
    /\ \E topic \in Texts, payload \in Datas, setting \in Settings :
        LET contents == [first |-> topic, second |-> NULL, data |-> payload]
            filled == Filled(Initial("msg"), contents, Len(payload), setting)
        IN  /\ records' = [records EXCEPT ![s] = filled.record]
            /\ memory' = filled.memory
            /\ expected' = [expected EXCEPT ![s] = contents]

\* mqtt_conf_create: whatever is missing stays missing, an empty password too.
CreateConf(s) ==
    /\ ~Exists(s)
    /\ \E id, user \in Texts \cup {NULL}, password \in Datas \cup {NULL}, setting \in Settings :
        LET kept == IF password # NULL /\ password # <<>> THEN password ELSE NULL
            contents == [first |-> id, second |-> user, data |-> kept]
            filled == Filled(Initial("conf"), contents, IF kept = NULL THEN 0 ELSE Len(kept), setting)
        IN  /\ records' = [records EXCEPT ![s] = filled.record]
            /\ memory' = filled.memory
            /\ expected' = [expected EXCEPT ![s] = contents]

\* The length stays as it was.
Cleaned(r) == [r EXCEPT !.first = NULL, !.second = NULL, !.data = NULL]

\* mqtt_msg_clean, mqtt_conf_clean
CleanRecord(s) ==
    /\ Exists(s)
    /\ memory' = Without(memory, Pointers(records[s]) \ Pointers(Cleaned(records[s])))
    /\ records' = [records EXCEPT ![s] = Cleaned(@)]
    /\ expected' = [expected EXCEPT ![s] = Nothing]

\* mqtt_msg_init, mqtt_conf_init of a record that owns nothing
InitRecord(s) ==
    /\ Exists(s) /\ Pointers(records[s]) = {}
    /\ records' = [records EXCEPT ![s] = Initial(@.kind)]
    /\ UNCHANGED <<memory, expected>>

\* mqtt_msg_delete, mqtt_conf_delete
DeleteRecord(s) ==
    /\ Exists(s)
    /\ memory' = Without(memory, Pointers(records[s]) \ Pointers(Cleaned(records[s])))
    /\ records' = [records EXCEPT ![s] = NULL]
    /\ expected' = [expected EXCEPT ![s] = Nothing]

\* The program copies and moves into records that are as init left them: what the
\* others own would be lost, and a password_len they have would stay.
MayFill(to, from) ==
    /\ to # from /\ Exists(to) /\ Exists(from)
    /\ records[to] = Initial(records[from].kind)

\* Mutation of CopyRecord: the copy points to what the source owns.
CopyPointers(to, from) ==
    /\ MayFill(to, from)
    /\ records' = [records EXCEPT ![to] = records[from]]
    /\ expected' = [expected EXCEPT ![to] = expected[from]]
    /\ UNCHANGED memory

\* mqtt_msg_copy takes a topic for granted; mqtt_conf_copy copies what there is.
CopyRecord(to, from) ==
    /\ MayFill(to, from)
    /\ records[from].kind = "msg" => records[from].first # NULL
    /\ LET r      == records[from]
           filled == Filled(records[to], Shown(r, memory), IF r.data = NULL THEN 0 ELSE r.length, r.setting)
       IN  /\ records' = [records EXCEPT ![to] = filled.record]
           /\ memory' = filled.memory
    /\ expected' = [expected EXCEPT ![to] = expected[from]]

\* Mutation of MovedFrom: the source keeps its data.
MovedFromTexts(r) == [r EXCEPT !.first = NULL, !.second = NULL]

\* mqtt_conf_move leaves the length behind, mqtt_msg_move does not.
MovedFrom(r) ==
    [r EXCEPT !.first = NULL, !.second = NULL, !.data = NULL,
              !.length = IF r.kind = "msg" THEN 0 ELSE @]

\* mqtt_msg_move, mqtt_conf_move
MoveRecord(to, from) ==
    /\ MayFill(to, from)
    /\ records' = [records EXCEPT ![to] = records[from], ![from] = MovedFrom(@)]
    /\ expected' = [expected EXCEPT ![to] = expected[from], ![from] = Nothing]
    /\ UNCHANGED memory

RecordsNext ==
    \/ \E s \in Slots :
        \/ NewRecord(s, "msg") \/ NewRecord(s, "conf") \/ CreateMsg(s) \/ CreateConf(s)
        \/ CleanRecord(s) \/ InitRecord(s) \/ DeleteRecord(s)
    \/ \E to, from \in Slots : CopyRecord(to, from) \/ MoveRecord(to, from)

RecordsSpec == RecordsInit /\ [][RecordsNext]_recordVars

-----------------------------------------------------------------------------
(* Properties.                                                             *)

Existing == {s \in Slots : Exists(s)}

\* Whatever is copied, moved, cleaned or deleted around it, a record holds what it
\* was given: a copy is independent of its source.
RecordsKeepValues == \A s \in Existing : Shown(records[s], memory) = expected[s]

\* Every block belongs to one field of one record: none is lost and none can be
\* freed twice.
OneOwner ==
    /\ Used = UNION {Pointers(records[s]) : s \in Existing}
    /\ \A s, t \in Existing : s # t => Pointers(records[s]) \cap Pointers(records[t]) = {}
    /\ \A s \in Existing :
        Cardinality(Pointers(records[s])) = Cardinality({f \in DOMAIN Nothing : records[s][f] # NULL})

\* Records are independent of each other: in their values and in their memory.
RecordsIndependent == RecordsKeepValues /\ OneOwner

=============================================================================
