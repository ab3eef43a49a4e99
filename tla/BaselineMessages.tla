------------------------- MODULE BaselineMessages ---------------------------
(***************************************************************************)
(* The message types of the baseline protocols, as their generated         *)
(* Marshal and Unmarshal write and read them: one array for each run of    *)
(* fixed fields (bs[0] up), a varint for the length of a list, the         *)
(* elements one after the other.  A varint is one byte for the lengths     *)
(* the instances have.  Where the generated code calls the Unmarshal of an *)
(* element or of a nested struct it drops the error.                       *)
(***************************************************************************)
EXTENDS BusMessages

-----------------------------------------------------------------------------
(* Commands and client messages: state/state.go, replica/defs/defs.go.     *)

Key == Type(<<Block(8, [k |-> <<0, 8>>])>>)

\* Four bytes of which two hold the length.
Value == Type(<<Block(4, [n |-> <<0, 2>>]), List("bytes", Byte)>>)

Command ==
  Type(<<Block(1, [Op |-> <<0, 1>>]), Nested("K", Key), Nested("V", Value)>>)

Int32 == Type(<<Block(4, [i |-> <<0, 4>>])>>)

Int64 == Type(<<Block(8, [i |-> <<0, 8>>])>>)

Propose ==
  Type(<<Block(8, [CommandId |-> <<0, 4>>, ClientId |-> <<4, 8>>]),
         Unchecked(Nested("Command", Command)), Block(8, [Timestamp |-> <<0, 8>>])>>)

ProposeReplyTS ==
  Type(<<Block(5, [OK |-> <<0, 1>>, CommandId |-> <<1, 5>>]),
         Unchecked(Nested("Value", Value)), Block(8, [Timestamp |-> <<0, 8>>])>>)

Read ==
  Type(<<Block(4, [CommandId |-> <<0, 4>>]), Unchecked(Nested("Key", Key))>>)

ProposeAndRead ==
  Type(<<Block(4, [CommandId |-> <<0, 4>>]), Unchecked(Nested("Command", Command)),
         Unchecked(Nested("Key", Key))>>)

Beacon ==
  Type(<<Block(8, [Timestamp |-> <<0, 8>>])>>)

BeaconReply ==
  Type(<<Block(8, [Timestamp |-> <<0, 8>>])>>)

-----------------------------------------------------------------------------
(* paxos/defs.go.                                                          *)

PaxosPrepare ==
  Type(<<Block(12, [LeaderId |-> <<0, 4>>, Instance |-> <<4, 8>>, Ballot |-> <<8, 12>>])>>)

PaxosAccept ==
  Type(<<Block(12, [LeaderId |-> <<0, 4>>, Instance |-> <<4, 8>>, Ballot |-> <<8, 12>>]),
         Count(1), Unchecked(List("Command", Command))>>)

PaxosCommit ==
  Type(<<Block(12, [LeaderId |-> <<0, 4>>, Instance |-> <<4, 8>>, Ballot |-> <<8, 12>>]),
         Count(1), Unchecked(List("Command", Command))>>)

PaxosCommitShort ==
  Type(<<Block(16, [LeaderId |-> <<0, 4>>, Instance |-> <<4, 8>>, Count |-> <<8, 12>>,
                    Ballot |-> <<12, 16>>])>>)

PaxosPrepareReply ==
  Type(<<Block(20, [Instance |-> <<0, 4>>, Ballot |-> <<4, 8>>, VBallot |-> <<8, 12>>,
                    DefaultBallot |-> <<12, 16>>, AcceptorId |-> <<16, 20>>]), Count(1),
         Unchecked(List("Command", Command))>>)

PaxosAcceptReply ==
  Type(<<Block(8, [Instance |-> <<0, 4>>, Ballot |-> <<4, 8>>])>>)

-----------------------------------------------------------------------------
(* n2paxos/defs.go.                                                        *)

N2paxosM1A ==
  Type(<<Block(8, [Replica |-> <<0, 4>>, Ballot |-> <<4, 8>>])>>)

N2paxosM1B ==
  Type(<<Block(12, [Replica |-> <<0, 4>>, Ballot |-> <<4, 8>>, CBallot |-> <<8, 12>>]),
         Count(1), Unchecked(List("Cmds", Command))>>)

N2paxosM2A ==
  Type(<<Block(8, [Replica |-> <<0, 4>>, Ballot |-> <<4, 8>>]),
         Unchecked(Nested("Cmd", Command)), Block(16, [CmdId_ClientId |-> <<0, 4>>,
                    CmdId_SeqNum |-> <<4, 8>>, CmdSlot |-> <<8, 16>>])>>)

N2paxosM2B ==
  Type(<<Block(16, [Replica |-> <<0, 4>>, Ballot |-> <<4, 8>>, CmdSlot |-> <<8, 16>>])>>)

N2paxosM2s ==
  Type(<<Count(1), Unchecked(List("TwoAs", N2paxosM2A)), Count(1),
         List("TwoBs", N2paxosM2B)>>)

N2paxosMPaxosSync ==
  Type(<<Block(8, [Replica |-> <<0, 4>>, Ballot |-> <<4, 8>>]), Count(1),
         Unchecked(List("Cmds", Command))>>)

-----------------------------------------------------------------------------
(* curp/defs.go.                                                           *)

CurpMReply ==
  Type(<<Block(16, [Replica |-> <<0, 4>>, Ballot |-> <<4, 8>>, CmdId_ClientId |-> <<8, 12>>,
                    CmdId_SeqNum |-> <<12, 16>>]), Count(1), List("Rep", Byte),
         Block(1, [Ok |-> <<0, 1>>])>>)

CurpMAccept ==
  Type(<<Block(8, [Replica |-> <<0, 4>>, Ballot |-> <<4, 8>>]),
         Unchecked(Nested("Cmd", Command)), Block(16, [CmdId_ClientId |-> <<0, 4>>,
                    CmdId_SeqNum |-> <<4, 8>>, CmdSlot |-> <<8, 16>>])>>)

CurpMAcceptAck ==
  Type(<<Block(16, [Replica |-> <<0, 4>>, Ballot |-> <<4, 8>>, CmdSlot |-> <<8, 16>>])>>)

CurpMAAcks ==
  Type(<<Count(1), List("Acks", CurpMAcceptAck), Count(1),
         Unchecked(List("Accepts", CurpMAccept))>>)

CurpMRecordAck ==
  Type(<<Block(17, [Replica |-> <<0, 4>>, Ballot |-> <<4, 8>>, CmdId_ClientId |-> <<8, 12>>,
                    CmdId_SeqNum |-> <<12, 16>>, Ok |-> <<16, 17>>])>>)

CurpMCommit ==
  Type(<<Block(16, [Replica |-> <<0, 4>>, Ballot |-> <<4, 8>>, CmdSlot |-> <<8, 16>>])>>)

CurpMSync ==
  Type(<<Block(8, [CmdId_ClientId |-> <<0, 4>>, CmdId_SeqNum |-> <<4, 8>>])>>)

CurpMSyncReply ==
  Type(<<Block(16, [Replica |-> <<0, 4>>, Ballot |-> <<4, 8>>, CmdId_ClientId |-> <<8, 12>>,
                    CmdId_SeqNum |-> <<12, 16>>]), Count(1), List("Rep", Byte)>>)

-----------------------------------------------------------------------------
(* fastpaxos/defs.go.                                                      *)

FastpaxosM2B ==
  Type(<<Block(28, [CmdId_ClientId |-> <<0, 4>>, CmdId_SeqNum |-> <<4, 8>>,
                    Ballot |-> <<8, 12>>, Cballot |-> <<12, 16>>, Replica |-> <<16, 20>>,
                    InstanceId |-> <<20, 28>>])>>)

-----------------------------------------------------------------------------
(* epaxos/defs.go.                                                         *)

EpaxosPrepare ==
  Type(<<Block(16, [LeaderId |-> <<0, 4>>, Replica |-> <<4, 8>>, Instance |-> <<8, 12>>,
                    Ballot |-> <<12, 16>>])>>)

EpaxosPrepareReply ==
  [Type(<<Block(17, [AcceptorId |-> <<0, 4>>, Replica |-> <<4, 8>>, Instance |-> <<8, 12>>,
                     Ballot |-> <<12, 16>>, Status |-> <<16, 17>>]), Count(1),
          Unchecked(List("Command", Command)), Block(4, [Seq |-> <<0, 4>>]), Count(1),
          List("Deps", Int32)>>)
     EXCEPT !.unwritten = {"VBallot"}]

EpaxosPreAccept ==
  Type(<<Block(16, [LeaderId |-> <<0, 4>>, Replica |-> <<4, 8>>, Instance |-> <<8, 12>>,
                    Ballot |-> <<12, 16>>]), Count(1), Unchecked(List("Command", Command)),
         Block(4, [Seq |-> <<0, 4>>]), Count(1), List("Deps", Int32)>>)

EpaxosPreAcceptReply ==
  Type(<<Block(21, [Replica |-> <<0, 4>>, Instance |-> <<4, 8>>, Ballot |-> <<8, 12>>,
                    VBallot |-> <<12, 16>>, Seq |-> <<16, 20>>, Status |-> <<20, 21>>]),
         Count(1), List("Deps", Int32), Count(1), List("CommittedDeps", Int32)>>)

EpaxosAccept ==
  Type(<<Block(20, [LeaderId |-> <<0, 4>>, Replica |-> <<4, 8>>, Instance |-> <<8, 12>>,
                    Ballot |-> <<12, 16>>, Seq |-> <<16, 20>>]), Count(1),
         List("Deps", Int32)>>)

EpaxosAcceptReply ==
  Type(<<Block(12, [Replica |-> <<0, 4>>, Instance |-> <<4, 8>>, Ballot |-> <<8, 12>>])>>)

EpaxosCommit ==
  Type(<<Block(16, [LeaderId |-> <<0, 4>>, Replica |-> <<4, 8>>, Instance |-> <<8, 12>>,
                    Ballot |-> <<12, 16>>]), Count(1), Unchecked(List("Command", Command)),
         Block(4, [Seq |-> <<0, 4>>]), Count(1), List("Deps", Int32)>>)

EpaxosTryPreAccept ==
  Type(<<Block(16, [LeaderId |-> <<0, 4>>, Replica |-> <<4, 8>>, Instance |-> <<8, 12>>,
                    Ballot |-> <<12, 16>>]), Count(1), Unchecked(List("Command", Command)),
         Block(4, [Seq |-> <<0, 4>>]), Count(1), List("Deps", Int32)>>)

EpaxosTryPreAcceptReply ==
  Type(<<Block(29, [AcceptorId |-> <<0, 4>>, Replica |-> <<4, 8>>, Instance |-> <<8, 12>>,
                    Ballot |-> <<12, 16>>, VBallot |-> <<16, 20>>,
                    ConflictReplica |-> <<20, 24>>, ConflictInstance |-> <<24, 28>>,
                    ConflictStatus |-> <<28, 29>>])>>)

-----------------------------------------------------------------------------
(* swift/defs.go (MSync is encoded with gob and is left out).              *)

CommandId == Type(<<Block(8, [ClientId |-> <<0, 4>>, SeqNum |-> <<4, 8>>])>>)

SHash == Type(<<Block(32, [H |-> <<0, 32>>])>>)

SwiftMFastAck ==
  Type(<<Block(16, [Replica |-> <<0, 4>>, Ballot |-> <<4, 8>>, CmdId_ClientId |-> <<8, 12>>,
                    CmdId_SeqNum |-> <<12, 16>>]), Count(1), List("Dep", CommandId),
         Count(1), List("Checksum", SHash), Block(8, [Seqnum |-> <<0, 8>>])>>)

SwiftMFastAckClient ==
  Type(<<Block(16, [Replica |-> <<0, 4>>, Ballot |-> <<4, 8>>, CmdId_ClientId |-> <<8, 12>>,
                    CmdId_SeqNum |-> <<12, 16>>]), Count(1), List("Checksum", SHash)>>)

SwiftMSlowAck ==
  Type(<<Block(16, [Replica |-> <<0, 4>>, Ballot |-> <<4, 8>>, CmdId_ClientId |-> <<8, 12>>,
                    CmdId_SeqNum |-> <<12, 16>>]), Count(1), List("Dep", CommandId),
         Count(1), List("Checksum", SHash)>>)

SwiftMLightSlowAck ==
  Type(<<Block(16, [Replica |-> <<0, 4>>, Ballot |-> <<4, 8>>, CmdId_ClientId |-> <<8, 12>>,
                    CmdId_SeqNum |-> <<12, 16>>])>>)

SwiftMAcks ==
  Type(<<Count(1), Unchecked(List("FastAcks", SwiftMFastAck)), Count(1),
         List("LightSlowAcks", SwiftMLightSlowAck)>>)

SwiftAck ==
  Type(<<Block(8, [CmdId_ClientId |-> <<0, 4>>, CmdId_SeqNum |-> <<4, 8>>]), Count(1),
         List("Dep", CommandId), Count(1), List("Checksum", SHash),
         Block(8, [Seqnum |-> <<0, 8>>])>>)

SwiftMOptAcks ==
  Type(<<Block(8, [Replica |-> <<0, 4>>, Ballot |-> <<4, 8>>]), Count(1),
         Unchecked(List("Acks", SwiftAck))>>)

SwiftMReply ==
  Type(<<Block(16, [Replica |-> <<0, 4>>, Ballot |-> <<4, 8>>, CmdId_ClientId |-> <<8, 12>>,
                    CmdId_SeqNum |-> <<12, 16>>]), Count(1), List("Checksum", SHash),
         Count(1), List("Rep", Byte)>>)

SwiftMNewLeader ==
  Type(<<Block(8, [Replica |-> <<0, 4>>, Ballot |-> <<4, 8>>])>>)

SwiftSDep ==
  Type(<<Count(1), List("Dep", CommandId)>>)

SwiftMNewLeaderAckN ==
  Type(<<Block(12, [Replica |-> <<0, 4>>, Ballot |-> <<4, 8>>, Cballot |-> <<8, 12>>]),
         Count(1), List("CmdIds", CommandId), Count(1), List("Phases", Int64), Count(1),
         Unchecked(List("Cmds", Command)), Count(1), Unchecked(List("Deps", SwiftSDep))>>)

SwiftMPing ==
  Type(<<Block(8, [Replica |-> <<0, 4>>, Ballot |-> <<4, 8>>])>>)

SwiftMPingRep ==
  Type(<<Block(8, [Replica |-> <<0, 4>>, Ballot |-> <<4, 8>>])>>)

SwiftMCollect ==
  Type(<<Block(8, [Replica |-> <<0, 4>>, Ballot |-> <<4, 8>>]), Count(1),
         List("Ids", CommandId)>>)

SwiftMAccept ==
  Type(<<Block(16, [Replica |-> <<0, 4>>, Ballot |-> <<4, 8>>, CmdId_ClientId |-> <<8, 12>>,
                    CmdId_SeqNum |-> <<12, 16>>]), Count(1), List("Rep", Byte)>>)

-----------------------------------------------------------------------------
(* Which types a reader knows: the beacons, then the types registered in   *)
(* the protocol's table, numbered from RPC_TABLE on.                       *)

RPC_TABLE == 9

\* rpc.Table.Register of types[1], types[2], ... and Table.Get.
Registered(types) == [code \in RPC_TABLE .. RPC_TABLE + Len(types) - 1 |->
                        types[code - RPC_TABLE + 1]]

\* replica.replicaListener.
ListenerHandles(types) == 6 :> Beacon @@ 7 :> BeaconReply @@ Registered(types)

PaxosTypes == <<PaxosPrepare, PaxosAccept, PaxosCommit, PaxosCommitShort,
                PaxosPrepareReply, PaxosAcceptReply>>

N2paxosTypes == <<N2paxosM1A, N2paxosM1B, N2paxosM2A, N2paxosM2B, N2paxosM2s,
                  N2paxosMPaxosSync>>

CurpTypes == <<CurpMReply, CurpMAccept, CurpMAcceptAck, CurpMAAcks, CurpMRecordAck,
               CurpMCommit, CurpMSync, CurpMSyncReply>>

FastpaxosTypes == <<FastpaxosM2B>>

EpaxosTypes == <<EpaxosPrepare, EpaxosPrepareReply, EpaxosPreAccept, EpaxosPreAcceptReply,
                 EpaxosAccept, EpaxosAcceptReply, EpaxosCommit, EpaxosTryPreAccept,
                 EpaxosTryPreAcceptReply>>

\* The tenth type registered is MSync, which gob encodes; the reader's table
\* leaves its code out.
SwiftTypes == <<SwiftMFastAck, SwiftMFastAckClient, SwiftMSlowAck, SwiftMLightSlowAck,
                SwiftMAcks, SwiftMOptAcks, SwiftMReply, SwiftMNewLeader,
                SwiftMNewLeaderAckN, Type(<<>>), SwiftMPing, SwiftMPingRep, SwiftMCollect,
                SwiftMAccept>>

\* replica.clientListener; PROPOSE, READ and PROPOSE_AND_READ.
ProposeHandles == 0 :> Propose @@ 2 :> Read @@ 4 :> ProposeAndRead

\* Client.GetReplyFrom: ReplyProposeTS writes no code.
ReplyHandles == NoCode :> ProposeReplyTS

=============================================================================
