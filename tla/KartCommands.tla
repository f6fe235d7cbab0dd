---------------------------- MODULE KartCommands ----------------------------
(***************************************************************************)
(* Commands for the motors (client-qt/common/kart_commands.h, .cpp): how   *)
(* RemoteService::send_cmd() packs one into an archive, and how            *)
(* CmdDispatcher finds one in an archive at the other end and executes it. *)
(* No program of the repository is that other end: a receiver is modelled  *)
(* that registers its functions first and then calls                       *)
(* dispatch_from_archive() as long as its archive has bytes, because the   *)
(* value it returns is always false.  Its archives hold one command each,  *)
(* as the size byte says, or whatever TCP delivered.                       *)
(*                                                                         *)
(* An operator Op_Mistake, written before Op, is Op with a mistake in it   *)
(* that no action makes; with it a property of RemoteControl fails.        *)
(***************************************************************************)
EXTENDS KartArchive, SequencesExt

CONSTANTS
  Cmds,           \* the commands that are sent
  MaxCmds,        \* bound: commands sent
  Cuts            \* bound: how many bytes TCP delivers

CmdNone == [id |-> 0]
CmdMotorSetSpeed(l, r) == [id |-> 1, l_speed |-> l, r_speed |-> r]

Ids == 0..1

CmdsWith(speeds) == {CmdNone} \cup [id : {1}, l_speed : speeds, r_speed : speeds]

AnyCmd == CmdsWith(Int16)

ASSUME CmdsAssumption == Cmds \subseteq AnyCmd /\ MaxCmds \in Nat /\ Cuts \subseteq Nat

VARIABLES
  sent,         \* history: the commands sent
  stream,       \* the bytes sent and not yet received
  entries,      \* CmdDispatcher::Data::m_entries: the ids that have a function
  archive,      \* the receiver's archive, from MemInputArchive::m_pos on
  dispatched,   \* history: calls of dispatch_from_archive()
  executed,     \* history: the commands executed
  astray        \* history: has an archive ended inside a command, or has the
                \* receiver not known the id of a command with fields?

commandVars == <<sent, stream, entries, archive, dispatched, executed, astray>>

-----------------------------------------------------------------------------
(* RemoteService::send_cmd()                                               *)

pack(cmd) ==
  IF cmd = CmdNone THEN <<>> ELSE ToBytes(cmd.l_speed) \o ToBytes(cmd.r_speed)

\* The size byte counts itself, the id and the fields.
SizeByte_FieldsOnly(cmd) == Len(pack(cmd))
SizeByte(cmd) == (2 + Len(pack(cmd))) % 256

Packet(cmd) == <<SizeByte(cmd), cmd.id>> \o pack(cmd)

Packets(cmds) == FlattenSeq([i \in DOMAIN cmds |-> Packet(cmds[i])])

\* With a connection; without one send_raw() refuses the command.
send_cmd(cmd) ==
  /\ Len(sent) < MaxCmds
  /\ sent' = Append(sent, cmd)
  /\ stream' = stream \o Packet(cmd)
  /\ UNCHANGED <<entries, archive, dispatched, executed, astray>>

-----------------------------------------------------------------------------
(* CmdDispatcher                                                           *)

\* A second registration of an id is rejected: the first function stays.
register_command(id) ==
  /\ dispatched = 0 /\ archive = <<>>
  /\ entries' = entries \cup {id}
  /\ UNCHANGED <<sent, stream, archive, dispatched, executed, astray>>

\* The command constructed and its fields read; one that a read does not reach
\* stays unwritten.
Unpack(id, bytes) ==
  IF id = 0 THEN CmdNone
            ELSE CmdMotorSetSpeed(Value(bytes), Value(AfterRead(bytes)))

AfterUnpack_LeftOnly(id, bytes) ==
  IF id = 0 THEN bytes ELSE AfterRead(bytes)
AfterUnpack(id, bytes) ==
  IF id = 0 THEN bytes ELSE AfterRead(AfterRead(bytes))

\* Nothing but the two bytes read is skipped for an id that is not known, and
\* nothing is done when the archive has no second byte.
dispatch_from_archive ==
  /\ archive # <<>>
  /\ dispatched' = dispatched + 1
  /\ IF Len(archive) > 1 /\ archive[2] \in entries
       THEN LET id == archive[2]  fields == Behind(archive, 2) IN
            /\ executed' = Append(executed, Unpack(id, fields))
            /\ archive' = AfterUnpack(id, fields)
            /\ UNCHANGED astray
       ELSE /\ archive' = Behind(archive, 2)
            /\ astray' = (astray \/ Len(archive) < 2 \/ archive[2] # 0)
            /\ UNCHANGED executed
  /\ UNCHANGED <<sent, stream, entries>>

-----------------------------------------------------------------------------
(* The receiver                                                            *)

Receive(n) ==
  /\ archive = <<>> /\ n \in 1..Len(stream)
  /\ archive' = SubSeq(stream, 1, n) /\ stream' = Behind(stream, n)
  /\ UNCHANGED <<sent, entries, dispatched, executed>>

ReceiveBySize ==
  /\ stream # <<>> /\ Receive(stream[1])
  /\ UNCHANGED astray

\* Does the stream, which ends where a command ends, go on with a command
\* after n bytes?
Between(n) == \E i \in 0..Len(sent) :
  Behind(stream, n) = Packets(SubSeq(sent, i + 1, Len(sent)))

\* TCP may deliver any part of what was sent.
ReceiveRaw ==
  \E n \in Cuts :
    /\ Receive(n)
    /\ astray' = (astray \/ ~Between(n))

InitCommands ==
  /\ sent = <<>> /\ stream = <<>>
  /\ entries = {}
  /\ archive = <<>> /\ dispatched = 0 /\ executed = <<>> /\ astray = FALSE

-----------------------------------------------------------------------------
CommandsTypeOK ==
  /\ sent \in Seq(Cmds) /\ Len(sent) <= MaxCmds
  /\ stream \in Seq(Byte) /\ archive \in Seq(Byte)
  /\ entries \subseteq Ids
  /\ dispatched \in Nat /\ astray \in BOOLEAN
  /\ executed \in Seq(CmdsWith(Int16 \cup {Unwritten}))

=============================================================================
