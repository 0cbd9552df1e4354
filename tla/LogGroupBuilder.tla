--------------------------- MODULE LogGroupBuilder ---------------------------
(***************************************************************************)
(* The protobuf encoding of a log group by log_builder.c: the sizes that   *)
(* are computed before the bytes are written, the two buffers that grow,   *)
(* the key/value interface that writes a log before its size is known, and *)
(* fix_log_group_time, which rewrites the times in a finished group.       *)
(*                                                                         *)
(* A byte is a number; those of a varint are below 2 * Base, where Base is *)
(* 128 in the code, and a byte with a successor has Base added.  A key, a  *)
(* value, a topic or a source is its length: its bytes are all LogHeader,  *)
(* which is the worst for fix_log_group_time.  A log is the sequence of    *)
(* its fields, <<time>> or <<length of key, length of value>>.             *)
(***************************************************************************)
EXTENDS Integers, Sequences, SequencesExt

CONSTANTS
    Base,       \* 128
    Wrap,       \* 2^32: the lengths of a buffer, and those given to _adjust_buffer, are uint32_t
    MinTime,    \* 1263563523, the least log time: its varint has five bytes
    Overhead,   \* sizeof(log_group) + sizeof(log_group_builder)
    Times,      \* the times that are given to logs, and to fix_log_group_time
    Lengths,    \* the lengths of keys, values, topics and sources
    MaxPairs,   \* bound of the model: the pairs of a log that add_log_full is given
    MaxFields   \* bound of the model: logs, their fields, tags, topic and source together

\* The bounds of the varints: 1UL << 7, 14, 21 and 28 in the code.
Power(n) ==
    <<1, Base, Base * Base, Base * Base * Base, Base * Base * Base * Base,
      Base * Base * Base * Base * Base>>[n + 1]

ASSUME BaseAssumption == Base \in Nat /\ Base > 1 /\ Overhead \in Nat
ASSUME WrapAssumption == Wrap \in 4 * Power(4) .. Power(5) /\ Overhead < Wrap
ASSUME TimesAssumption ==
    /\ MinTime \in Power(4) .. Wrap - 1 /\ Times \subseteq 0 .. Wrap - 1
    /\ Lengths \subseteq Nat /\ MaxPairs \in Nat /\ MaxFields \in Nat

VARIABLES
    logs,       \* grp->logs: its bytes up to now_buffer_len, and max_buffer_len
    tags,       \* grp->tags
    open,       \* whether add_log_begin has been called, and add_log_end not
    body,       \* the bytes up to log_now_buffer that follow the reserved header
    size,       \* loggroup_size
    topic, source,      \* <<>>, or the length
    packed,     \* the serialized group, <<>> before
    given,      \* the logs that the caller gave
    givenTags,  \* the tags that the caller gave
    fixed,      \* the times that packed was given later, 0 for none
    overrun     \* fix_log_group_time has written behind the end of packed

caller == <<given, givenTags, fixed, overrun>>
vars == <<logs, tags, open, body, size, topic, source, packed, caller>>

LogHeader == 1000   \* 0x0A, also the header of a key
TimeHeader == 1001  \* 0x08
PairHeader == 1002  \* 0x12, also the header of a value
TopicHeader == 1003     \* 0x1A
SourceHeader == 1004    \* 0x22
TagHeader == 1005       \* 0x32

\* No byte of a varint is a header.  In the code that is so where fix_log_group_time
\* depends on it, as long as times end in another byte than 0x0A: before 2055.
ASSUME HeaderAssumption == 2 * Base <= LogHeader

Content(n) == [i \in 1 .. n |-> LogHeader]

-----------------------------------------------------------------------------
(***************************************************************************)
(* Varints                                                                 *)
(***************************************************************************)
\* uint32_size
VarSize(v) == CHOOSE n \in 1 .. 5 : (v < Power(n) \/ n = 5) /\ \A m \in 1 .. n - 1 : v >= Power(m)

\* uint32_pack: up to four times a byte that has a successor.
More(v, rest) == IF v >= Base THEN <<(v % Base) + Base>> \o rest ELSE <<v>>
Pack1(v) == <<v>>
Pack2(v) == More(v, Pack1(v \div Base))
Pack3(v) == More(v, Pack2(v \div Base))
Pack4(v) == More(v, Pack3(v \div Base))
Pack(v) == More(v, Pack4(v \div Base))

\* scan_varint: the length of the varint at p, 0 when no byte is the last.
HasSuccessor(x) == x \in Base .. 2 * Base - 1
ScanVarint(b, p) ==
    LET last == {n \in 1 .. 5 : p + n - 1 <= Len(b) /\ ~HasSuccessor(b[p + n - 1])}
    IN IF last = {} THEN 0 ELSE CHOOSE n \in last : \A m \in last : n <= m

\* parse_uint32, which always reads the first byte.  A byte beyond b adds nothing:
\* ScanVarint does not see it either.
ParseUint32(n, b, p) ==
    LET read(i) == (i = 1 \/ i <= n) /\ p + i - 1 <= Len(b)
        digit(i) == IF read(i) THEN (b[p + i - 1] % Base) * Power(i - 1) ELSE 0
    IN digit(1) + digit(2) + digit(3) + digit(4) + digit(5)

-----------------------------------------------------------------------------
(***************************************************************************)
(* _adjust_buffer                                                          *)
(***************************************************************************)
NoBuffer == [bytes |-> <<>>, max |-> 0]
IsNull(buf) == buf = NoBuffer

\* new_len << 2, max_buffer_len << 1 and now_buffer_len + new_len, in 32 bits each.
Adjust(buf, n) ==
    LET needed == (Len(buf.bytes) + n) % Wrap
        twice == (2 * buf.max) % Wrap
    IN [buf EXCEPT !.max = IF IsNull(buf) THEN (4 * n) % Wrap
                           ELSE IF twice < needed THEN needed ELSE twice]

Ensure(buf, n) == IF IsNull(buf) \/ buf.max < Len(buf.bytes) + n THEN Adjust(buf, n) ELSE buf

Write(buf, bytes) == [buf EXCEPT !.bytes = @ \o bytes]

-----------------------------------------------------------------------------
(***************************************************************************)
(* The sizes as they are computed, and the bytes as they are written       *)
(***************************************************************************)
PairSize(k, v) == VarSize(k) + VarSize(v) + k + v + 2
Announce(n) == 1 + VarSize(n) + n

\* The size of a log that has a time and these pairs: six bytes are for the time.
LogSize(pairs) ==
    LET upto[i \in 0 .. Len(pairs)] ==
          IF i = 0 THEN 6 ELSE upto[i - 1] + Announce(PairSize(pairs[i][1], pairs[i][2]))
    IN upto[Len(pairs)]

PairBytes(header, k, v) ==
    <<header>> \o Pack(PairSize(k, v))
    \o <<LogHeader>> \o Pack(k) \o Content(k) \o <<PairHeader>> \o Pack(v) \o Content(v)
TimeBytes(t) == <<TimeHeader>> \o Pack(t)
LogBytes(t, pairs) ==
    <<LogHeader>> \o Pack(LogSize(pairs)) \o TimeBytes(t)
    \o FlattenSeq([i \in DOMAIN pairs |-> PairBytes(PairHeader, pairs[i][1], pairs[i][2])])

-----------------------------------------------------------------------------
Init ==
    /\ logs = NoBuffer /\ tags = NoBuffer
    /\ open = FALSE /\ body = <<>>
    /\ size = Overhead
    /\ topic = <<>> /\ source = <<>> /\ packed = <<>>
    /\ given = <<>> /\ givenTags = <<>> /\ fixed = 0 /\ overrun = FALSE

\* loggroup_size, with the log that is open.
Extent == size + Len(body)

\* The bounds of the model: the number of fields, and a group of less than Wrap bytes,
\* so that now_buffer_len and the sizes of pairs and tags, uint32_t too, do not wrap.
Fields == Len(givenTags) + Len(FlattenSeq(given)) + Len(given) + Len(topic) + Len(source)
Building == packed = <<>>
Room(n) == Building /\ Fields < MaxFields /\ Extent + n < Wrap

\* A mutation: times are taken as they are.
LeastTimeNone(t) == t

\* The log's time is never less than MinTime.
LeastTime(t) == IF t < MinTime THEN MinTime ELSE t

\* add_log_full.  total is an int32_t: when it does not hold the log's size, the program
\* ends at the assert of line 223.
AddLogFull(t, pairs) ==
    /\ ~open
    /\ LET total == Announce(LogSize(pairs)) IN
       /\ Room(total) /\ total < Wrap \div 2
       /\ logs' = Write(Ensure(logs, total), LogBytes(LeastTime(t), pairs))
       /\ size' = size + total
    /\ given' = Append(given, <<<<LeastTime(t)>>>> \o pairs)
    /\ UNCHANGED <<tags, open, body, topic, source, packed, givenTags, fixed, overrun>>

\* add_tag, with which add_pack_id ends.
AddTag(k, v) ==
    /\ LET n == Announce(PairSize(k, v)) IN
       /\ Room(n)
       /\ tags' = Write(Ensure(tags, n), PairBytes(TagHeader, k, v))
       /\ size' = size + n
    /\ givenTags' = Append(givenTags, <<k, v>>)
    /\ UNCHANGED <<logs, open, body, topic, source, packed, given, fixed, overrun>>

AddTopic(n) ==
    /\ Room(n + VarSize(n) + 1) /\ topic = <<>>
    /\ topic' = <<n>> /\ size' = size + n + VarSize(n) + 1
    /\ UNCHANGED <<logs, tags, open, body, source, packed, caller>>

AddSource(n) ==
    /\ Room(n + VarSize(n) + 1) /\ source = <<>>
    /\ source' = <<n>> /\ size' = size + n + VarSize(n) + 1
    /\ UNCHANGED <<logs, tags, open, body, topic, packed, caller>>

-----------------------------------------------------------------------------
(***************************************************************************)
(* The key/value interface of LOG_KEY_VALUE_FLAG.  Three bytes are         *)
(* reserved for a log's header, whose size is known only in the end.       *)
(***************************************************************************)
Reserved == 3   \* INIT_LOG_SIZE_BYTES

\* log_now_buffer - buffer
Cursor == Len(logs.bytes) + Reserved + Len(body)

\* Room for n bytes at log_now_buffer, and n more than needed.
EnsureCursor(n) == IF Cursor + n > logs.max THEN Adjust(logs, Cursor + n) ELSE logs

AddLogBegin ==
    /\ Room(Reserved) /\ ~open
    /\ open' = TRUE /\ body' = <<>>
    /\ logs' = Ensure(logs, Reserved)
    /\ given' = Append(given, <<>>)
    /\ UNCHANGED <<tags, size, topic, source, packed, givenTags, fixed, overrun>>

GivenField(f) == given' = [given EXCEPT ![Len(given)] = Append(@, f)]

\* Once in a log, as log_builder.h asks.  The time is taken as it is.
AddLogTime(t) ==
    /\ Room(6) /\ open
    /\ \A i \in DOMAIN Last(given) : Len(Last(given)[i]) # 1
    /\ logs' = EnsureCursor(6)
    /\ body' = body \o TimeBytes(t)
    /\ GivenField(<<t>>)
    /\ UNCHANGED <<tags, open, size, topic, source, packed, givenTags, fixed, overrun>>

AddLogKeyValue(k, v) ==
    /\ Room(Announce(PairSize(k, v))) /\ open
    /\ logs' = EnsureCursor(Announce(PairSize(k, v)))
    /\ body' = body \o PairBytes(PairHeader, k, v)
    /\ GivenField(<<k, v>>)
    /\ UNCHANGED <<tags, open, size, topic, source, packed, givenTags, fixed, overrun>>

\* A mutation: the room for a longer header is not ensured.
AddLogEndUnchecked ==
    /\ Building /\ open
    /\ size + Announce(Len(body)) < Wrap
    /\ logs' = Write(logs, <<LogHeader>> \o Pack(Len(body)) \o body)
    /\ size' = size + Announce(Len(body))
    /\ open' = FALSE /\ body' = <<>>
    /\ UNCHANGED <<tags, topic, source, packed, caller>>

AddLogEnd ==
    /\ Building /\ open
    /\ size + Announce(Len(body)) < Wrap
    /\ LET longer == 1 + VarSize(Len(body)) - Reserved IN
       logs' = Write(IF longer > 0 THEN EnsureCursor(longer) ELSE logs,
                     <<LogHeader>> \o Pack(Len(body)) \o body)
    /\ size' = size + Announce(Len(body))
    /\ open' = FALSE /\ body' = <<>>
    /\ UNCHANGED <<tags, topic, source, packed, caller>>

-----------------------------------------------------------------------------
\* topic and source as _log_pack writes them.
Optional(header, field) ==
    IF field = <<>> THEN <<>> ELSE <<header>> \o Pack(field[1]) \o Content(field[1])

\* _log_pack: what follows the logs in their buffer.
LogPack == logs.bytes \o Optional(TopicHeader, topic) \o Optional(SourceHeader, source) \o tags.bytes

\* serialize_to_proto_buf_with_malloc
Serialize ==
    /\ Building /\ ~open /\ ~IsNull(logs)
    /\ logs' = IF logs.max < size THEN Adjust(logs, size - Len(logs.bytes)) ELSE logs
    /\ packed' = LogPack
    /\ UNCHANGED <<tags, open, body, size, topic, source, caller>>

(***************************************************************************)
(* fix_log_group_time.  It works in place, in a copy of packed that is as  *)
(* long as packed (_rebuild_time), and compares only the places of the     *)
(* logs' headers with that length: what lies behind the copy is in its     *)
(* reach, too.                                                             *)
(***************************************************************************)
\* Of the memory behind the copy only the first byte is ever read, and five more are
\* written: the longest time, behind a log that is empty.
Behind(next) == <<next>> \o Content(5)

Overwrite(memory, from, bytes) ==
    [i \in DOMAIN memory |-> IF i - from + 1 \in DOMAIN bytes THEN bytes[i - from + 1] ELSE memory[i]]

\* A mutation: the length of a varint is not added.
TurnShort(s, t) ==
    LET n == ScanVarint(s.memory, s.at + 1)
        first == s.at + 1 + n
    IN [memory |-> IF s.memory[first] = TimeHeader THEN Overwrite(s.memory, first + 1, Pack(t))
                   ELSE s.memory,
        at |-> s.at + 1 + ParseUint32(n, s.memory, s.at + 1)]

\* The body of the loop, buf being at s.at.
Turn(s, t) ==
    LET n == ScanVarint(s.memory, s.at + 1)
        first == s.at + 1 + n
    IN [memory |-> IF s.memory[first] = TimeHeader THEN Overwrite(s.memory, first + 1, Pack(t))
                   ELSE s.memory,
        at |-> first + ParseUint32(n, s.memory, s.at + 1)]

Going(s, len) == s.at <= len /\ s.memory[s.at] = LogHeader

\* A turn passes at least one byte, so that the loop ends within len turns.
FixTime(memory, len, t) ==
    LET after[k \in 0 .. len] ==
          IF k = 0 THEN [memory |-> memory, at |-> 1]
          ELSE IF Going(after[k - 1], len) THEN Turn(after[k - 1], t) ELSE after[k - 1]
        last == CHOOSE k \in 0 .. len : ~Going(after[k], len)
    IN IF t < MinTime THEN memory ELSE after[last].memory

Fix(t, next) ==
    /\ ~Building /\ fixed = 0
    /\ LET memory == FixTime(packed \o Behind(next), Len(packed), t) IN
       /\ packed' = SubSeq(memory, 1, Len(packed))
       /\ overrun' = (SubSeq(memory, Len(packed) + 1, Len(packed) + 6) # Behind(next))
    /\ fixed' = t
    /\ UNCHANGED <<logs, tags, open, body, size, topic, source, given, givenTags>>

-----------------------------------------------------------------------------
Pairs == UNION {[1 .. n -> Lengths \X Lengths] : n \in 0 .. MaxPairs}

Next ==
    \/ \E t \in Times, pairs \in Pairs : AddLogFull(t, pairs)
    \/ \E k \in Lengths, v \in Lengths : AddTag(k, v) \/ AddLogKeyValue(k, v)
    \/ \E n \in Lengths : AddTopic(n) \/ AddSource(n)
    \/ \E t \in Times : AddLogTime(t)
    \/ \E t \in Times, next \in {LogHeader, TimeHeader} : Fix(t, next)
    \/ AddLogBegin \/ AddLogEnd \/ Serialize

Spec == Init /\ [][Next]_vars

-----------------------------------------------------------------------------
(***************************************************************************)
(* The wire format of protobuf, by its definition                          *)
(***************************************************************************)
Varint(v) ==
    LET n == CHOOSE m \in 1 .. 5 : v < Power(m) /\ (m = 1 \/ v >= Power(m - 1))
    IN [i \in 1 .. n |-> ((v \div Power(i - 1)) % Base) + (IF i < n THEN Base ELSE 0)]
Message(header, bytes) == <<header>> \o Varint(Len(bytes)) \o bytes
PairMessage(header, k, v) ==
    Message(header, Message(LogHeader, Content(k)) \o Message(PairHeader, Content(v)))
FieldMessage(f) ==
    IF Len(f) = 1 THEN <<TimeHeader>> \o Varint(f[1]) ELSE PairMessage(PairHeader, f[1], f[2])
LogMessage(log) == Message(LogHeader, FlattenSeq([i \in DOMAIN log |-> FieldMessage(log[i])]))
GroupMessage(gs) ==
    FlattenSeq([i \in DOMAIN gs |-> LogMessage(gs[i])])
    \o (IF topic = <<>> THEN <<>> ELSE Message(TopicHeader, Content(topic[1])))
    \o (IF source = <<>> THEN <<>> ELSE Message(SourceHeader, Content(source[1])))
    \o FlattenSeq([i \in DOMAIN givenTags |-> PairMessage(TagHeader, givenTags[i][1], givenTags[i][2])])

(***************************************************************************)
(* Properties                                                              *)
(***************************************************************************)
\* What follows the header of log i in the group.
Rest(i) ==
    FlattenSeq([j \in DOMAIN given[i] |-> FieldMessage(given[i][j])])
    \o GroupMessage(SubSeq(given, i + 1, Len(given)))

\* A log that ends the group so closely that five bytes of time do not fit in: its
\* time is its first field and shorter, or it is empty.  Only the key/value interface
\* writes such logs.
Exposed == \E i \in DOMAIN given :
    Len(Rest(i)) < 6 /\ (Rest(i) = <<>> \/ Rest(i)[1] = TimeHeader)

\* What is written is within the buffers as long as a group is smaller than a quarter of
\* Wrap, so that no length wraps when a buffer is made or grows: no size that was
\* announced is smaller than what is then written, in an open log, whose header may
\* become longer than what was reserved, and in the serialized group.  Nor does
\* fix_log_group_time, which has no bound, write behind the group - except when the
\* group ends in a log that is Exposed.
WithinBuffers == Extent < Wrap \div 4 =>
    /\ Len(tags.bytes) <= tags.max
    /\ Len(logs.bytes) <= logs.max
    /\ open => Cursor <= logs.max
    /\ Len(packed) <= logs.max
    /\ overrun => Exposed

\* loggroup_size, by which add_log decides that a package is full and which
\* totalBufferSize counts, is the size of the group when it is serialized now.
SizeAnnounced == ~open =>
    size = Overhead + Len(logs.bytes) + Len(Optional(TopicHeader, topic))
           + Len(Optional(SourceHeader, source)) + Len(tags.bytes)

\* The serialized group is, in the wire format, what the caller gave.
Encoded == packed # <<>> /\ fixed = 0 => packed = GroupMessage(given)

\* A log whose time is the first field and takes five bytes: all of add_log_full.
Timed(log) == log # <<>> /\ Len(log[1]) = 1 /\ log[1][1] >= MinTime
Untimed(log) == log = <<>> \/ Len(log[1]) # 1
Retimed(log, t) == IF Timed(log) THEN [log EXCEPT ![1] = <<t>>] ELSE log

\* fix_log_group_time gives every log the new time and changes nothing else, also
\* in logs that have no time or have it later - but it overruns a time that the
\* key/value interface has written in fewer than five bytes.
TimesFixed ==
    packed # <<>> /\ fixed >= MinTime /\ (\A i \in DOMAIN given : Timed(given[i]) \/ Untimed(given[i]))
    => packed = GroupMessage([i \in DOMAIN given |-> Retimed(given[i], fixed)])
=============================================================================
