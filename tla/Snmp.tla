-------------------------------- MODULE Snmp --------------------------------
(***************************************************************************)
(* The SNMP agent (apps/snmp): the search of the registered MIBs for an     *)
(* object identifier and for the one that follows it (snmp_core.c, with    *)
(* the scalar, scalar-array and table nodes of snmp_scalar.c and           *)
(* snmp_table.c), the processing of Get, GetNext, GetBulk and Set requests *)
(* (snmp_msg.c) with the checks of community or SNMPv3 user that come      *)
(* first, the traps of snmp_traps.c, and the BER coding of lengths,        *)
(* numbers and object identifiers (snmp_asn1.c).                           *)
(*                                                                         *)
(* A frame is a record of the fields the agent looks at; a varbind takes   *)
(* one unit of the FrameSize the answer has room for.  The codec works on  *)
(* "octets" of the given Radix, so that the widths at which a number needs *)
(* another octet are inside the bounds.                                    *)
(***************************************************************************)
EXTENDS Integers, Sequences, FiniteSets, SequencesExt, FiniteSetsExt

CONSTANTS
    Agents,      \* the registered MIBs and the write community, [mibs, write]
    RowOids,     \* the row identifiers of the tables
    Frames,      \* the frames that arrive
    FrameSize,   \* varbinds the answer has room for
    MaxReps,     \* SNMP_LWIP_GETBULK_MAX_REPETITIONS
    Radix,       \* values of an octet (256 in the code)
    Numbers      \* numbers that are encoded

VARIABLE sn

-----------------------------------------------------------------------------
(* Object identifiers *)

\* oid1 comes before oid2.
snmp_oid_compare(oid1, oid2) ==
    \/ IsStrictPrefix(oid1, oid2)
    \/ \E k \in 1..Min({Len(oid1), Len(oid2)}) :
          /\ oid1[k] < oid2[k]
          /\ \A j \in 1..(k - 1) : oid1[j] = oid2[j]

LeastOid(S) == CHOOSE o \in S : \A p \in S \ {o} : snmp_oid_compare(o, p)

\* One row offered to the search for the next one: it is kept when it is after
\* the start and before what was kept so far.
snmp_next_oid_check(start, kept, oid) ==
    IF snmp_oid_compare(start, oid) /\ (kept = <<>> \/ snmp_oid_compare(oid, kept))
    THEN oid
    ELSE kept

\* An application's get_next_cell_instance: it offers its rows in any order.
NextRow(rows, start) ==
    FoldLeft(LAMBDA kept, oid : snmp_next_oid_check(start, kept, oid), <<>>, rows)

-----------------------------------------------------------------------------
(* Nodes.  A tree node has sub-nodes; a leaf answers get_instance and      *)
(* get_next_instance with the relative identifier of an instance, or <<>>. *)

IsTree(node) == node.type = "tree"

ColumnIds(node) == {c.oid : c \in Range(node.cols)}

Column(node, id) == CHOOSE c \in Range(node.cols) : c.oid = id

snmp_scalar_get_instance(inst) == IF inst = <<0>> THEN inst ELSE <<>>

snmp_scalar_get_next_instance(inst) == IF inst = <<>> THEN <<0>> ELSE <<>>

snmp_scalar_array_get_instance(node, inst) ==
    IF Len(inst) = 2 /\ inst[2] = 0 /\ inst[1] \in ColumnIds(node) THEN inst ELSE <<>>

\* The scalars that may be next: all for an empty identifier, the scalar itself
\* when only its number is given, else the greater ones.
ArrayCandidates(node, inst) ==
    IF inst = <<>> THEN ColumnIds(node)
    ELSE IF Len(inst) = 1 /\ inst[1] \in ColumnIds(node) THEN {inst[1]}
    ELSE {c \in ColumnIds(node) : c > inst[1]}

snmp_scalar_array_get_next_instance(node, inst) ==
    IF ArrayCandidates(node, inst) = {} THEN <<>> ELSE <<Min(ArrayCandidates(node, inst)), 0>>

snmp_table_get_instance(node, rows, inst) ==
    IF Len(inst) >= 3 /\ inst[1] = 1 /\ inst[2] \in ColumnIds(node)
          /\ SubSeq(inst, 3, Len(inst)) \in Range(rows)
    THEN inst
    ELSE <<>>

\* The first cell from the given column on, after the given row in that column.
RECURSIVE NextCell(_, _, _, _, _)
NextCell(cols, column, rows, row, next) ==
    CASE \A c \in cols : c < column -> <<>>
      [] next # <<>> -> <<1, Min({c \in cols : c >= column})>> \o next
      [] OTHER -> NextCell(cols, Min({c \in cols : c >= column}) + 1, rows, <<>>,
                           NextRow(rows, <<>>))

snmp_table_get_next_instance(node, rows, inst) ==
    IF Len(inst) > 0 /\ inst[1] > 1 THEN <<>>
    ELSE NextCell(ColumnIds(node), IF Len(inst) > 1 THEN inst[2] ELSE 0, rows,
                  SubSeq(inst, 3, Len(inst)), NextRow(rows, SubSeq(inst, 3, Len(inst))))

GetInstance(node, rows, inst) ==
    CASE node.type = "scalar" -> snmp_scalar_get_instance(inst)
      [] node.type = "array"  -> snmp_scalar_array_get_instance(node, inst)
      [] node.type = "table"  -> snmp_table_get_instance(node, rows, inst)

GetNextInstance(node, rows, inst) ==
    CASE node.type = "scalar" -> snmp_scalar_get_next_instance(inst)
      [] node.type = "array"  -> snmp_scalar_array_get_next_instance(node, inst)
      [] node.type = "table"  -> snmp_table_get_next_instance(node, rows, inst)

\* What may be done with an instance: a set of "r", "w", and "c64" for a value
\* version 1 has no type for.
Access(node, inst) ==
    CASE node.type = "scalar" -> node.access
      [] node.type = "array"  -> Column(node, inst[1]).access
      [] node.type = "table"  -> Column(node, inst[2]).access

-----------------------------------------------------------------------------
(* The registered MIBs *)

None == <<>>

snmp_get_mib_from_oid(mibs, oid) ==
    LET found == {m \in mibs : IsPrefix(m.base, oid)}
    IN  IF found = {} THEN {}
        ELSE {CHOOSE m \in found : \A o \in found : Len(o.base) <= Len(m.base)}

snmp_get_next_mib(mibs, oid) ==
    LET after == {m \in mibs : snmp_oid_compare(oid, m.base)}
    IN  IF oid = <<>> \/ after = {} THEN {}
        ELSE {CHOOSE m \in after : m.base = LeastOid({o.base : o \in after})}

snmp_get_mib_between(mibs, oid1, oid2) ==
    {m \in snmp_get_next_mib(mibs, oid1) : snmp_oid_compare(m.base, oid2)}

\* The leaf an identifier goes through: [oid, node] in a set, empty when the
\* identifier ends in the tree or leaves it.
RECURSIVE Descend(_, _, _)
Descend(node, oid, offset) ==
    IF ~IsTree(node) THEN {[oid |-> SubSeq(oid, 1, offset), node |-> node]}
    ELSE IF offset = Len(oid) THEN {}
    ELSE LET subs == {s \in Range(node.subs) : s.oid = oid[offset + 1]}
         IN  IF subs = {} THEN {} ELSE Descend(CHOOSE s \in subs : TRUE, oid, offset + 1)

snmp_mib_tree_resolve_exact(mib, oid) == Descend(mib.root, oid, Len(mib.base))

\* The tree nodes along the identifier, from the root.
RECURSIVE NodeStack(_, _, _)
NodeStack(stack, oid, offset) ==
    LET subs == IF offset < Len(oid)
                THEN {s \in Range(Last(stack).subs) : s.oid = oid[offset + 1] /\ IsTree(s)}
                ELSE {}
    IN  IF subs = {} THEN stack
        ELSE NodeStack(Append(stack, CHOOSE s \in subs : TRUE), oid, offset + 1)

\* From the top of the stack, the first leaf whose number is at least subnode.
RECURSIVE Climb(_, _, _)
Climb(mib, stack, subnode) ==
    IF stack = <<>> THEN {}
    ELSE LET subs == {s \in Range(Last(stack).subs) : s.oid >= subnode}
             next == CHOOSE s \in subs : \A o \in subs : s.oid <= o.oid
         IN  IF subs = {} THEN Climb(mib, Front(stack), Last(stack).oid + 1)
             ELSE IF IsTree(next) THEN Climb(mib, Append(stack, next), 0)
             ELSE {[oid |-> mib.base \o [k \in 1..(Len(stack) - 1) |-> stack[k + 1].oid]
                              \o <<next.oid>>,
                    node |-> next]}

NextAfter(mib, stack, oid) ==
    LET offset == Len(mib.base) + Len(stack) - 1
    IN  Climb(mib, stack, IF offset >= Len(oid) THEN 0 ELSE oid[offset + 1] + 1)

snmp_mib_tree_resolve_next(mib, oid) ==
    IF ~IsTree(mib.root) THEN {}
    ELSE NextAfter(mib, NodeStack(<<mib.root>>, oid, Len(mib.base)), oid)

\* An instance GetNext may return: readable, and of a type the version has.
snmp_msg_getnext_validate_node_inst(node, inst, version) ==
    "r" \in Access(node, inst) /\ ~(version = 1 /\ "c64" \in Access(node, inst))

\* The next valid instance of a MIB from a leaf (a set of at most one) and a
\* relative identifier on; next is what the leaf itself answers.
RECURSIVE NextInLeaf(_, _, _, _, _)
NextOfLeaf(mib, rows, version, leaf, next) ==
    IF next = <<>>
    THEN NextInLeaf(mib, rows, version, snmp_mib_tree_resolve_next(mib, leaf.oid), <<>>)
    ELSE IF snmp_msg_getnext_validate_node_inst(leaf.node, next, version)
    THEN leaf.oid \o next
    ELSE NextInLeaf(mib, rows, version, {leaf}, next)
NextInLeaf(mib, rows, version, leaves, inst) ==
    IF leaves = {} THEN None
    ELSE LET leaf == CHOOSE l \in leaves : TRUE
         IN  NextOfLeaf(mib, rows, version, leaf, GetNextInstance(leaf.node, rows, inst))

\* The search begins at the leaf the identifier goes through, else at the first
\* one after it.
StartLeaf(mib, start, exact) ==
    IF exact # {} THEN exact ELSE snmp_mib_tree_resolve_next(mib, start)

StartInstance(start, exact) ==
    UNION {{SubSeq(start, Len(l.oid) + 1, Len(start))} : l \in exact}

NextInMib(mib, rows, version, start, exact) ==
    NextInLeaf(mib, rows, version, StartLeaf(mib, start, exact),
               IF exact = {} THEN <<>> ELSE CHOOSE i \in StartInstance(start, exact) : TRUE)

\* Which MIB is searched next, and from where, when `mib' has nothing more: one
\* nested in it, its parent from the same place, or the next one.
MibAfter(mibs, mib, start) ==
    LET next   == snmp_get_next_mib(mibs, start)
        nested == {m \in next : IsStrictPrefix(mib.base, m.base)}
        parent == snmp_get_mib_from_oid(mibs, Front(mib.base))
    IN  IF nested # {} THEN {<<m, m.base>> : m \in nested}
        ELSE IF parent # {} THEN {<<m, start>> : m \in parent}
        ELSE {<<m, m.base>> : m \in next}

\* An instance found is the answer unless another MIB begins before it.
Onward(mibs, mib, start, found) ==
    IF found = None THEN MibAfter(mibs, mib, start)
    ELSE {<<m, m.base>> : m \in snmp_get_mib_between(mibs, start, found)}

RECURSIVE SearchMibs(_, _, _, _, _)
SearchOn(s, version, onward, found) ==
    IF onward = {} THEN found
    ELSE LET o == CHOOSE o \in onward : TRUE
         IN  SearchMibs(s, version, o[1], o[2], snmp_mib_tree_resolve_exact(o[1], o[2]))
SearchFound(s, version, mib, start, found) ==
    SearchOn(s, version, Onward(s.mibs, mib, start, found), found)
SearchMibs(s, version, mib, start, exact) ==
    SearchFound(s, version, mib, start, NextInMib(mib, s.rows, version, start, exact))

\* The identifier of the instance that follows `oid', or None at the end of the
\* MIB view.  (A MIB with a base of one number is searched for ever by the code
\* once it has nothing more; no instance registers one.)
snmp_get_next_node_instance_from_oid(s, version, oid) ==
    LET exact == snmp_get_mib_from_oid(s.mibs, oid)
    IN  SearchOn(s, version, IF exact # {} THEN {<<m, oid>> : m \in exact}
                             ELSE {<<m, m.base>> : m \in snmp_get_next_mib(s.mibs, oid)},
                 None)

\* The leaf an identifier is an instance of, or why there is none.
LeafOf(s, oid) ==
    UNION {snmp_mib_tree_resolve_exact(m, oid) : m \in snmp_get_mib_from_oid(s.mibs, oid)}

InstanceOf(leaf, oid) == SubSeq(oid, Len(leaf.oid) + 1, Len(oid))

snmp_get_node_instance_from_oid(s, oid) ==
    IF LeafOf(s, oid) = {} THEN "noSuchObject"
    ELSE LET leaf == CHOOSE l \in LeafOf(s, oid) : TRUE
         IN  IF GetInstance(leaf.node, s.rows, InstanceOf(leaf, oid)) = <<>>
             THEN "noSuchInstance" ELSE "ok"

AccessOf(s, oid) ==
    LET leaf == CHOOSE l \in LeafOf(s, oid) : TRUE
    IN  Access(leaf.node, InstanceOf(leaf, oid))

ValueOf(s, oid) == IF oid \in DOMAIN s.vals THEN s.vals[oid] ELSE "value"

-----------------------------------------------------------------------------
(* Requests.  q is the request being processed: error status and index, the *)
(* varbinds of the answer, and how many of the frame's varbinds were read.   *)

Exceptions == {"noSuchObject", "noSuchInstance", "endOfMibView"}

NewRequest == [status |-> "ok", index |-> 0, out |-> <<>>, count |-> 0]

snmp_append_outbound_varbind(q, oid, val) ==
    IF Len(q.out) = FrameSize THEN [q EXCEPT !.status = "tooBig"]
    ELSE [q EXCEPT !.out = Append(@, [oid |-> oid, val |-> val])]

\* An exception is a value of the answer, except to version 1 where it ends the
\* request.
VarbindFails(q, version, oid, why) ==
    IF version > 1 THEN snmp_append_outbound_varbind(q, oid, why)
    ELSE [q EXCEPT !.status = why]

GetVarbind(s, q, version, oid) ==
    LET why == snmp_get_node_instance_from_oid(s, oid)
        no  == "r" \notin AccessOf(s, oid) \/ (version = 1 /\ "c64" \in AccessOf(s, oid))
    IN  IF why # "ok" THEN VarbindFails(q, version, oid, why)
        ELSE IF no THEN VarbindFails(q, version, oid, "noSuchInstance")
        ELSE snmp_append_outbound_varbind(q, oid, ValueOf(s, oid))

GetNextVarbind(q, version, oid, s, next) ==
    IF next = None THEN VarbindFails(q, version, oid, "endOfMibView")
    ELSE snmp_append_outbound_varbind(q, next, ValueOf(s, next))

snmp_process_varbind(s, q, version, oid, get_next) ==
    IF get_next
    THEN GetNextVarbind(q, version, oid, s,
                        snmp_get_next_node_instance_from_oid(s, version, oid))
    ELSE GetVarbind(s, q, version, oid)

\* One varbind of a Get or GetNext frame: its value must be NULL.
ReadVarbind(s, q, f, vb) ==
    IF q.status # "ok" THEN q
    ELSE IF vb.val # "null" THEN [q EXCEPT !.status = "genErr", !.count = @ + 1]
    ELSE snmp_process_varbind(s, [q EXCEPT !.count = @ + 1], f.version, vb.oid,
                              f.type # "get")

snmp_process_get_request(s, f) ==
    FoldLeft(LAMBDA q, vb : ReadVarbind(s, q, f, vb), NewRequest, f.vbs)

\* An error of a repetition is at the repeater whose varbind was not appended.
RepeatError(q, r, f) ==
    IF r.status = "ok" THEN r
    ELSE [r EXCEPT !.index = f.nonrep + Len(r.out) - Len(q.out) + 1]

\* One repetition of GetBulk: GetNext of every varbind the last one appended.
Repeat(s, q, f, from) ==
    RepeatError(q, FoldLeft(LAMBDA r, vb :
                               IF r.status # "ok" THEN r
                               ELSE snmp_process_varbind(s, r, f.version, vb.oid, TRUE),
                            q, SubSeq(q.out, from + 1, Len(q.out))), f)

AllEnd(q, from) == \A k \in (from + 1)..Len(q.out) : q.out[k].val = "endOfMibView"

\* The further repetitions, each from where the last one began.
RECURSIVE Repetitions(_, _, _, _, _)
Repetitions(s, q, f, from, reps) ==
    IF q.status # "ok" \/ reps = 0 \/ from = Len(q.out) THEN q
    ELSE LET r == Repeat(s, q, f, from)
         IN  IF r.status = "ok" /\ AllEnd(r, Len(q.out)) THEN r
             ELSE Repetitions(s, r, f, Len(q.out), reps - 1)

Limited(reps) == IF MaxReps > 0 THEN Min({reps, MaxReps}) ELSE reps

\* The non-repeaters and the first repetition.  With no repetition asked for,
\* the repeaters are not read at all.
BulkFirst(s, f) ==
    snmp_process_get_request(s,
        IF Limited(f.reps) = 0
        THEN [f EXCEPT !.vbs = SubSeq(@, 1, Min({f.nonrep, Len(@)}))] ELSE f)

\* Where the first repetition begins is only known once nonrep varbinds were
\* read: with more non-repeaters than varbinds the second loop reads the frame
\* from its beginning, where no varbind is.
BulkRest(s, q, f) ==
    IF f.nonrep > Len(f.vbs)
    THEN IF q.status = "ok" /\ Limited(f.reps) > 0
         THEN [q EXCEPT !.status = "genErr", !.index = f.nonrep + 1] ELSE q
    ELSE IF Limited(f.reps) = 0 THEN q
    ELSE Repetitions(s, q, f, Min({f.nonrep, Len(q.out)}), Limited(f.reps) - 1)

TooBigIsOk(q) == IF q.status = "tooBig" THEN [q EXCEPT !.status = "ok"] ELSE q

snmp_process_getbulk_request(s, f) == TooBigIsOk(BulkRest(s, BulkFirst(s, f), f))

\* What the first pass over a Set says of a varbind: found, of the right type,
\* writable, and accepted by the object's own test.
SetTest(s, vb) ==
    LET why == snmp_get_node_instance_from_oid(s, vb.oid)
    IN  IF why # "ok" THEN why
        ELSE IF vb.val = "wrongtype" THEN "wrongType"
        ELSE IF "w" \notin AccessOf(s, vb.oid) THEN "notWritable"
        ELSE IF vb.val = "bad" THEN "wrongValue"
        ELSE "ok"

\* The first pass: the first varbind that is refused, with its position.
SetTests(s, f) ==
    LET bad == {k \in 1..Len(f.vbs) : SetTest(s, f.vbs[k]) # "ok"}
    IN  IF bad = {} THEN [NewRequest EXCEPT !.count = Len(f.vbs)]
        ELSE [NewRequest EXCEPT !.status = SetTest(s, f.vbs[Min(bad)]),
                                !.count = Min(bad)]

\* The second pass writes the values; it stops at the first that cannot be
\* written (fail, 0 for none) and takes nothing back.
Commit(q, fail) ==
    IF fail = 0 THEN q
    ELSE [q EXCEPT !.status = IF fail = 1 THEN "commitFailed" ELSE "undoFailed",
                   !.count = fail]

Written(vals, f, n) ==
    [o \in DOMAIN vals |->
        LET to == {k \in 1..n : f.vbs[k].oid = o}
        IN  IF to = {} THEN vals[o] ELSE f.vbs[Max(to)].val]

snmp_process_set_request(q, fail) ==
    IF q.status = "ok" THEN Commit(q, fail) ELSE q

ValuesAfter(vals, f, q, fail) ==
    IF q.status # "ok" THEN vals ELSE Written(vals, f, IF fail = 0 THEN Len(f.vbs) ELSE fail - 1)

-----------------------------------------------------------------------------
(* Frames in and out *)

ReadCommunity == "public"

\* The level a user's algorithms make up, and the level a message claims.
LevelFits(sec) == sec.flags \in {"noauth", "auth", "priv"} /\ sec.flags = sec.user

\* The checks of an SNMPv3 message, in their order; the first that fails is
\* reported.
V3Sender(sec) ==
    CASE ~sec.engine -> "unknownEngineId"
      [] sec.user = "none" -> "unknownUser"
      [] OTHER -> "ok"

V3Protection(sec) ==
    CASE ~LevelFits(sec) -> "unsupportedLevel"
      [] sec.flags # "noauth" /\ ~sec.digest -> "wrongDigest"
      [] sec.flags # "noauth" /\ ~sec.intime -> "notInTimeWindow"
      [] sec.flags = "priv" /\ ~sec.decrypts -> "decryptionError"
      [] OTHER -> "ok"

V3Check(sec) == IF V3Sender(sec) # "ok" THEN V3Sender(sec) ELSE V3Protection(sec)

Community(f) == IF f.version = 3 THEN ReadCommunity ELSE f.community

\* What becomes of a frame: dropped, dropped with a trap, reported, processed,
\* or "readonly" when the agent has no write community at all.
snmp_parse_inbound_frame(s, f) ==
    IF f.version = 3 /\ V3Check(f.sec) # "ok" THEN V3Check(f.sec)
    ELSE IF f.type = "bulk" /\ f.version = 1 THEN "drop"
    ELSE IF Community(f) = "" THEN "badCommunity"
    ELSE IF f.type = "set"
    THEN IF s.write = "" THEN "readonly"
         ELSE IF Community(f) = s.write THEN "process" ELSE "badCommunity"
    ELSE IF Community(f) = ReadCommunity THEN "process" ELSE "badCommunity"

\* The status as the version of the request knows it.
Status(f, status) ==
    IF f.version = 1
    THEN CASE status = "ok" -> "ok"
           [] status \in Exceptions \cup {"notWritable"} -> "noSuchName"
           [] status \in {"wrongValue", "wrongType"} -> "badValue"
           [] OTHER -> "genErr"
    ELSE IF f.type = "set" /\ status \in Exceptions THEN "notWritable" ELSE status

ErrorIndex(q, status) ==
    IF status = "ok" THEN q.index
    ELSE IF status = "tooBig" THEN 0
    ELSE IF q.index = 0 THEN q.count ELSE q.index

\* The answer: after an error, and to a Set, the varbinds of the request.
snmp_complete_outbound_frame(q, f, status) ==
    [kind   |-> "response",
     status |-> status,
     index  |-> ErrorIndex(q, status),
     vbs    |-> IF status # "ok" \/ f.type = "set"
                THEN SubSeq(f.vbs, 1, Min({FrameSize, Len(f.vbs)})) ELSE q.out]

Answer(q, f) == snmp_complete_outbound_frame(q, f, Status(f, q.status))

NoAnswer == [kind |-> "none"]

NoFrame == [type |-> "none"]

\* The destinations that are enabled, have an address and a route.
snmp_send_trap(dsts) == {d \in DOMAIN dsts : dsts[d] = "ok"}

snmp_authfail_trap(s) == IF s.authtraps THEN snmp_send_trap(s.dsts) ELSE {}

\* What processing a frame that only reads makes of it.
Process(s, f) ==
    CASE f.type \in {"get", "next"} -> snmp_process_get_request(s, f)
      [] f.type = "bulk" -> snmp_process_getbulk_request(s, f)

Answered(s, f, q) == [s EXCEPT !.frame = f, !.answer = Answer(q, f)]

\* A Set is answered, and the write callback hears of each object written.
SetAnswered(s, f, q, fail) ==
    [Answered(s, f, snmp_process_set_request(q, fail)) EXCEPT
        !.vals = ValuesAfter(s.vals, f, q, fail),
        !.told = IF q.status = "ok" /\ fail = 0 THEN {vb.oid : vb \in Range(f.vbs)} ELSE {}]

Received(s, f, fail, verdict) ==
    CASE verdict = "process" /\ f.type = "set" -> SetAnswered(s, f, SetTests(s, f), fail)
      [] verdict = "process" -> Answered(s, f, Process(s, f))
      [] verdict = "badCommunity" -> [s EXCEPT !.frame = f, !.traps = snmp_authfail_trap(s)]
      [] verdict \in {"drop", "readonly"} -> [s EXCEPT !.frame = f]
      [] OTHER -> [s EXCEPT !.frame = f, !.answer = [kind |-> "report", of |-> verdict]]

\* A frame at the agent's port.
snmp_receive(f, fail) ==
    /\ sn.mode = "agent" /\ sn.frame = NoFrame
    /\ fail = 0 \/ f.type = "set"
    /\ sn' = Received(sn, f, fail, snmp_parse_inbound_frame(sn, f))

\* The answer is sent and the frame freed.
Done ==
    /\ sn.mode = "agent" /\ sn.frame # NoFrame
    /\ sn' = [sn EXCEPT !.frame = NoFrame, !.answer = NoAnswer, !.traps = {}, !.told = {},
                        !.was = sn.vals]

\* The application's tables grow and shrink between two requests.
RowAdded(r) ==
    /\ sn.mode = "agent" /\ sn.frame = NoFrame /\ r \notin Range(sn.rows)
    /\ sn' = [sn EXCEPT !.rows = <<r>> \o @]

RowRemoved(r) ==
    /\ sn.mode = "agent" /\ sn.frame = NoFrame /\ r \in Range(sn.rows)
    /\ sn' = [sn EXCEPT !.rows = SelectSeq(@, LAMBDA o : o # r)]

-----------------------------------------------------------------------------
(* BER coding.  Half is the bit 0x80 of an octet. *)

Half == Radix \div 2

\* n octets of a number, most significant first, as shifting the word gives them.
Octets(v, n) == [k \in 1..n |-> (v \div Radix^(n - k)) % Radix]

Number(octets) == FoldLeft(LAMBDA v, d : v * Radix + d, 0, octets)

snmp_asn1_enc_length_cnt(len) == IF len < Half THEN 1 ELSE IF len < Radix THEN 2 ELSE 3

snmp_asn1_enc_u32t_cnt(v) ==
    IF \E n \in 1..4 : v < Half * Radix^(n - 1)
    THEN Min({n \in 1..4 : v < Half * Radix^(n - 1)}) ELSE 5

snmp_asn1_enc_s32t_cnt(v) ==
    LET n == {k \in 1..3 : (IF v < 0 THEN -v - 1 ELSE v) < Half * Radix^(k - 1)}
    IN  IF n = {} THEN 4 ELSE Min(n)

\* Groups of one bit less than an octet; all but the last have the top bit.
Groups(id) == CHOOSE n \in 1..5 : id < Half^n /\ \A m \in 1..(n - 1) : id >= Half^m

SubId(id) ==
    [k \in 1..Groups(id) |->
        ((id \div Half^(Groups(id) - k)) % Half) + (IF k < Groups(id) THEN Half ELSE 0)]

\* The first two numbers share an octet: 40 for each step of the first.
Arc == (Radix * 5) \div 32

snmp_asn1_enc_oid(oid) == FoldLeft(LAMBDA o, id : o \o SubId(id), <<oid[1] * Arc + oid[2]>>,
                                   SubSeq(oid, 3, Len(oid)))

snmp_asn1_enc_oid_cnt(oid) ==
    FoldSeq(LAMBDA id, n : n + Groups(id), 1, SubSeq(oid, 3, Len(oid)))

snmp_asn1_enc_u32t(n, v) == IF n = 5 THEN <<0>> \o Octets(v, 4) ELSE Octets(v, n)

snmp_asn1_enc_s32t(n, v) == Octets(v, n)

\* A tag, the length in `lenlen' octets (0: as many as it needs), the value.
LengthOctets(len, n) ==
    IF n = 1 THEN <<len>> ELSE <<Half + n - 1>> \o Octets(len, n - 1)

snmp_ans1_enc_tlv(type, lenlen, value) ==
    <<type>> \o LengthOctets(Len(value), IF lenlen = 0
                                         THEN snmp_asn1_enc_length_cnt(Len(value)) ELSE lenlen)
             \o value

Invalid == -1000000

\* The value after a tag and a length; Invalid for a length no message has.
snmp_asn1_dec_tlv(octets) ==
    LET n   == octets[2] - Half
        len == IF octets[2] < Half THEN octets[2] ELSE Number(SubSeq(octets, 3, 2 + n))
        at  == IF octets[2] < Half THEN 3 ELSE 3 + n
    IN  IF octets[2] = Half \/ len = Radix^2 - 1 THEN <<Invalid>>
        ELSE SubSeq(octets, at, at + len - 1)

snmp_asn1_dec_u32t(octets) ==
    IF Len(octets) \in 1..5 /\ (IF Len(octets) = 5 THEN octets[1] = 0 ELSE octets[1] < Half)
    THEN Number(octets) ELSE Invalid

snmp_asn1_dec_s32t(octets) ==
    IF Len(octets) \in 1..4
    THEN Number(octets) - (IF octets[1] >= Half THEN Radix^Len(octets) ELSE 0)
    ELSE Invalid

\* One octet more of an object identifier: a[1] the numbers, a[2] the number
\* that is not complete.
DecGroup(a, d) ==
    IF d >= Half THEN <<a[1], a[2] * Half + d - Half>>
    ELSE <<Append(a[1], a[2] * Half + d), 0>>

snmp_asn1_dec_oid(octets) ==
    LET first == IF octets[1] < Arc THEN <<0, octets[1]>>
                 ELSE IF octets[1] < 2 * Arc THEN <<1, octets[1] - Arc>>
                 ELSE <<2, octets[1] - 2 * Arc>>
    IN  FoldLeft(DecGroup, <<first, 0>>, Tail(octets))[1]

-----------------------------------------------------------------------------
(* A trap: the space for it is computed first, from the inside out, and the *)
(* octets are written afterwards, from the outside in.                      *)

TlvLen(n) == 1 + snmp_asn1_enc_length_cnt(n) + n

snmp_varbind_length(vb) ==
    TlvLen(TlvLen(snmp_asn1_enc_oid_cnt(vb.oid)) + TlvLen(snmp_asn1_enc_s32t_cnt(vb.val)))

snmp_trap_varbind_sum(vbs) ==
    TlvLen(FoldSeq(LAMBDA vb, n : n + snmp_varbind_length(vb), 0, vbs))

TrapPduLen(t, vblen) ==
    vblen + TlvLen(snmp_asn1_enc_u32t_cnt(t.ts)) + TlvLen(snmp_asn1_enc_s32t_cnt(t.spc))
          + TlvLen(snmp_asn1_enc_s32t_cnt(t.gen)) + TlvLen(4)
          + TlvLen(snmp_asn1_enc_oid_cnt(t.enterprise))

snmp_trap_header_sum(t, vblen) ==
    TlvLen(TlvLen(TrapPduLen(t, vblen)) + TlvLen(Len(t.community))
             + TlvLen(snmp_asn1_enc_s32t_cnt(0)))

Integer(v) == snmp_ans1_enc_tlv(2, 0, snmp_asn1_enc_s32t(snmp_asn1_enc_s32t_cnt(v), v))

ObjectId(oid) == snmp_ans1_enc_tlv(6, 0, snmp_asn1_enc_oid(oid))

snmp_trap_varbind_enc(vbs) ==
    snmp_ans1_enc_tlv(0, 0, FoldLeft(LAMBDA o, vb :
        o \o snmp_ans1_enc_tlv(0, 0, ObjectId(vb.oid) \o Integer(vb.val)), <<>>, vbs))

snmp_trap_header_enc(t) ==
    snmp_ans1_enc_tlv(0, 0,
        Integer(0) \o snmp_ans1_enc_tlv(4, 0, t.community)
          \o snmp_ans1_enc_tlv(7, 0,
                ObjectId(t.enterprise) \o snmp_ans1_enc_tlv(5, 0, <<1, 1, 1, 1>>)
                  \o Integer(t.gen) \o Integer(t.spc) \o Integer(t.ts)
                  \o snmp_trap_varbind_enc(t.vbs)))

\* A number, an identifier, a value of some length or a trap is encoded, and what
\* a receiver makes of it.
Encode(what, v, code, back) ==
    /\ sn.mode = "codec" /\ sn.what = "none"
    /\ sn' = [mode |-> "codec", what |-> what, value |-> v, code |-> code, back |-> back]

EncodeS32(v) ==
    LET o == snmp_asn1_enc_s32t(snmp_asn1_enc_s32t_cnt(v), v)
    IN  Encode("s32", v, o, snmp_asn1_dec_s32t(o))

EncodeU32(v) ==
    LET o == snmp_asn1_enc_u32t(snmp_asn1_enc_u32t_cnt(v), v)
    IN  v >= 0 /\ Encode("u32", v, o, snmp_asn1_dec_u32t(o))

EncodeOid(oid) ==
    LET o == snmp_asn1_enc_oid(oid) IN Encode("oid", oid, o, snmp_asn1_dec_oid(o))

EncodeTlv(n, lenlen) ==
    LET value == [k \in 1..n |-> k % Radix]
        o     == snmp_ans1_enc_tlv(4, lenlen, value)
    IN  /\ lenlen = 0 \/ lenlen >= snmp_asn1_enc_length_cnt(n)
        /\ Encode("tlv", value, o, snmp_asn1_dec_tlv(o))

EncodeTrap(t) ==
    Encode("trap", t, snmp_trap_header_enc(t),
           snmp_trap_header_sum(t, snmp_trap_varbind_sum(t.vbs)))

-----------------------------------------------------------------------------

\* The writable objects begin with a value the agent was built with.
RECURSIVE Leaves(_, _)
Leaves(node, oid) ==
    IF IsTree(node) THEN UNION {Leaves(s, Append(oid, s.oid)) : s \in Range(node.subs)}
    ELSE {[oid |-> oid, node |-> node]}

LeavesOf(mibs) == UNION {Leaves(m.root, m.base) : m \in mibs}

InstancesOf(leaf, rows) ==
    CASE leaf.node.type = "scalar" -> {leaf.oid \o <<0>>}
      [] leaf.node.type = "array"  -> {leaf.oid \o <<c, 0>> : c \in ColumnIds(leaf.node)}
      [] leaf.node.type = "table"  -> {leaf.oid \o <<1, c>> \o r :
                                          c \in ColumnIds(leaf.node), r \in Range(rows)}

Writable(mibs) ==
    UNION {{o \in InstancesOf(l, <<>>) : "w" \in Access(l.node, InstanceOf(l, o))} :
           l \in LeavesOf(mibs)}

AgentInit ==
    \E a \in Agents :
        sn = [mode |-> "agent", mibs |-> a.mibs, write |-> a.write, rows |-> <<>>,
              vals |-> [o \in Writable(a.mibs) |-> "value"],
              was |-> [o \in Writable(a.mibs) |-> "value"],
              authtraps |-> TRUE, dsts |-> <<"ok", "off", "noroute">>,
              frame |-> NoFrame, answer |-> NoAnswer, traps |-> {}, told |-> {}]

CodecInit == sn = [mode |-> "codec", what |-> "none", value |-> 0, code |-> <<>>, back |-> 0]

Init == AgentInit \/ CodecInit

Traps ==
    {[gen |-> g, spc |-> s, ts |-> t, enterprise |-> <<1, 1, s>>, community |-> c, vbs |-> v] :
        g \in {0, 6}, s \in {0, Half}, t \in {n \in Numbers : n >= 0},
        c \in {<<1>>, <<1, 2, 3>>},
        v \in {<<>>} \cup {<<[oid |-> <<1, 1, 4>>, val |-> n]>> : n \in Numbers}}

Coding ==
    \/ \E v \in Numbers : EncodeS32(v) \/ EncodeU32(v)
    \/ \E a \in 0..2, b \in 0..(Arc - 1), id \in {n \in Numbers : n >= 0} :
          EncodeOid(<<a, b, id, 1>>)
    \/ \E n \in {0, Half - 1, Half, Radix - 1, Radix, 3 * Radix}, lenlen \in {0, 1, 3} :
          EncodeTlv(n, lenlen)
    \/ \E t \in Traps : EncodeTrap(t)

Next ==
    \/ /\ sn.mode = "agent" /\ sn.frame = NoFrame
       /\ \/ \E f \in Frames, fail \in 0..2 : snmp_receive(f, fail)
          \/ \E r \in RowOids : RowAdded(r) \/ RowRemoved(r)
    \/ Done
    \/ sn.mode = "codec" /\ sn.what = "none" /\ Coding

Spec == Init /\ [][Next]_sn

-----------------------------------------------------------------------------
(* Properties *)

Readable(s, version) ==
    UNION {{o \in InstancesOf(l, s.rows) :
              snmp_msg_getnext_validate_node_inst(l.node, InstanceOf(l, o), version)} :
           l \in LeavesOf(s.mibs)}

\* The answer to GetNext of an identifier: the first readable instance after it.
IsNext(s, version, oid, vb) ==
    LET after == {o \in Readable(s, version) : snmp_oid_compare(oid, o)}
    IN  IF after = {} THEN vb = [oid |-> oid, val |-> "endOfMibView"]
        ELSE vb = [oid |-> LeastOid(after), val |-> ValueOf(s, LeastOid(after))]

\* The identifiers a walk meets: a MIB, a node or an instance, not a column or
\* an entry that a table does not have (see the README).
Walked(s, oid) ==
    \A l \in LeavesOf(s.mibs) :
        (l.node.type = "table" /\ IsPrefix(l.oid, oid) /\ Len(oid) > Len(l.oid) + 1) =>
            oid[Len(l.oid) + 1] # 0 /\ oid[Len(l.oid) + 2] \in ColumnIds(l.node)

Repeaters(f) == Len(f.vbs) - Min({f.nonrep, Len(f.vbs)})

\* The identifier the k-th varbind of an answer follows.
Follows(f, vbs, k) == IF k <= Len(f.vbs) THEN f.vbs[k].oid ELSE vbs[k - Repeaters(f)].oid

\* GetNext returns for each identifier the first readable instance after it over
\* all registered MIBs, nested ones included, so that a walk meets every instance
\* once and in order; GetBulk returns what the repeated GetNext would, cut off
\* only where the frame is full, the repetitions are done or a whole repetition
\* is past the end.
SnmpWalks ==
    (sn.mode = "agent" /\ sn.frame.type \in {"next", "bulk"} /\ sn.answer.kind = "response") =>
        LET f == sn.frame
            a == sn.answer
        IN  (a.status = "ok" /\ \A k \in DOMAIN f.vbs : Walked(sn, f.vbs[k].oid)) =>
              /\ \A k \in DOMAIN a.vbs : IsNext(sn, f.version, Follows(f, a.vbs, k), a.vbs[k])
              /\ f.type = "next" => Len(a.vbs) = Len(f.vbs)
              /\ f.type = "bulk" =>
                    \/ Len(a.vbs) = FrameSize
                    \/ Len(a.vbs) = Len(f.vbs) + Repeaters(f) * (Limited(f.reps) - 1)
                    \/ \A k \in (Len(a.vbs) - Repeaters(f) + 1)..Len(a.vbs) :
                          k > 0 => a.vbs[k].val = "endOfMibView"

\* A Set writes all its objects and tells the application of each, or it writes
\* none and says why; only a write that fails after the tests (commitFailed and
\* undoFailed, genErr to version 1) leaves what was written before it.
SnmpSets ==
    sn.mode = "agent" =>
        LET f    == sn.frame
            a    == sn.answer
            set  == f.type = "set" /\ a.kind = "response"
            late == set /\ a.status \in {"undoFailed", "genErr"}
        IN  /\ sn.vals # sn.was => set /\ (a.status = "ok" \/ late)
            /\ (set /\ a.status = "ok") =>
                  /\ sn.told = {f.vbs[k].oid : k \in DOMAIN f.vbs}
                  /\ sn.told \subseteq DOMAIN sn.vals
                  /\ \A k \in DOMAIN f.vbs :
                        \E j \in k..Len(f.vbs) : /\ f.vbs[j].oid = f.vbs[k].oid
                                                 /\ sn.vals[f.vbs[k].oid] = f.vbs[j].val
            /\ (set /\ a.status # "ok") => sn.told = {}

\* Nothing is read or written for a frame of the wrong community, nor for a
\* version 3 message of another engine, of an unknown user, of less protection
\* than its user has keys for, or whose digest, time or encryption is wrong.
SnmpGuarded ==
    (sn.mode = "agent" /\ sn.answer.kind = "response") =>
        LET f == sn.frame
        IN  /\ f.version < 3 =>
                  f.community = IF f.type = "set" THEN sn.write ELSE ReadCommunity
            /\ f.version = 3 =>
                  /\ f.sec.engine /\ f.sec.user = f.sec.flags
                  /\ f.sec.user \in {"auth", "priv"} => f.sec.digest /\ f.sec.intime
                  /\ f.sec.user = "priv" => f.sec.decrypts

\* What is encoded is read back unchanged, at every width; and the octets of a
\* trap are as many as the space that was computed for it before.
Asn1Agrees ==
    sn.mode = "codec" =>
        /\ sn.what \in {"s32", "u32", "oid", "tlv"} => sn.back = sn.value
        /\ sn.what = "trap" => Len(sn.code) = sn.back

=============================================================================
