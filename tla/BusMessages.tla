---------------------------- MODULE BusMessages -----------------------------
(***************************************************************************)
(* The message types of PaxosBus and their codes: internal/wire/msgs.go,   *)
(* schedule_msgs.go and protocol/client_control.go.                        *)
(***************************************************************************)
EXTENDS WireFormat, TLC

Byte == Type(<<Block(1, [b |-> <<0, 1>>])>>)

Uint32 == Type(<<Block(4, [u |-> <<0, 4>>])>>)

Uint64 == Type(<<Block(8, [u |-> <<0, 8>>])>>)

BusSyncMessage ==
  Type(<<Block(32, [ClientId |-> <<0, 8>>, FirstMsgNs |-> <<8, 16>>,
                    IntervalMs |-> <<16, 24>>, EndTime |-> <<24, 32>>])>>)

schedule(f) == <<Count(4), Limited(f, BusSyncMessage, MaxScheduleHistoryLen)>>

slotList(f) == <<Count(4), Limited(f, Uint64, maxSlotListLen)>>

replicaList(f) == <<Count(4), Limited(f, Uint32, MaxStateEntries)>>

-----------------------------------------------------------------------------
(* Requests, buses and their answers.                                      *)

RequestMessage ==
  Type(<<Block(28, [ClientId |-> <<0, 8>>, RequestId |-> <<8, 16>>,
                    SendTimeNs |-> <<16, 24>>, n |-> <<24, 28>>]),
         List("Op", Byte)>>)

BusMessage ==
  Type(<<Block(28, [ClientId |-> <<0, 8>>, BusSeqNum |-> <<8, 16>>,
                    SendTimeNs |-> <<16, 24>>, n |-> <<24, 28>>]),
         List("Requests", RequestMessage)>>)

\* The payload of a bus slot in a gap reply or a state entry.
MarshalRequests == Type(<<Count(4), List("reqs", RequestMessage)>>)

RequestReplyMessage ==
  Type(<<Block(48, [ClientId |-> <<0, 8>>, RequestId |-> <<8, 16>>,
                    BusSlotNum |-> <<16, 24>>, LogIndex |-> <<24, 32>>,
                    ViewId |-> <<32, 40>>, ReplicaIdx |-> <<40, 44>>,
                    n |-> <<44, 48>>]), List("Result", Byte)>>)

-----------------------------------------------------------------------------
(* Gap agreement and synchronisation rounds.                               *)

BusGapRequest ==
  Type(<<Block(20, [Slot |-> <<0, 8>>, SenderIdx |-> <<8, 12>>,
                    ViewId |-> <<12, 20>>])>>)

BusGapReply ==
  Type(<<Block(26, [Slot |-> <<0, 8>>, SenderIdx |-> <<8, 12>>,
                    ViewId |-> <<12, 20>>, Found |-> <<20, 21>>,
                    Bus |-> <<21, 22>>, n |-> <<22, 26>>]), List("Op", Byte)>>)

BusGapCommit ==
  Type(<<Block(20, [Slot |-> <<0, 8>>, SenderIdx |-> <<8, 12>>,
                    ViewId |-> <<12, 20>>])>>)

BusGapCommitReply ==
  Type(<<Block(20, [Slot |-> <<0, 8>>, SenderIdx |-> <<8, 12>>,
                    ViewId |-> <<12, 20>>])>>)

BusSyncPrepare ==
  Type(<<Block(29, [ViewId |-> <<0, 8>>, SlotToSync |-> <<8, 16>>,
                    HasSlot |-> <<16, 17>>, PrefixHash |-> <<17, 25>>,
                    SenderIdx |-> <<25, 29>>])>>)

BusSyncReply ==
  Type(<<Block(20, [ViewId |-> <<0, 8>>, Slot |-> <<8, 16>>,
                    SenderIdx |-> <<16, 20>>])>>)

BusSyncCommit ==
  Type(<<Block(20, [ViewId |-> <<0, 8>>, StableSlot |-> <<8, 16>>,
                    SenderIdx |-> <<16, 20>>])>>)

-----------------------------------------------------------------------------
(* View change and state transfer.                                         *)

BusViewChangeRequest ==
  Type(<<Block(12, [ViewId |-> <<0, 8>>, SenderIdx |-> <<8, 12>>])>>)

BusStateQuery ==
  Type(<<Block(12, [ViewId |-> <<0, 8>>, SenderIdx |-> <<8, 12>>])>>)

BusViewChange ==
  Type(<<Block(58, [SenderIdx |-> <<0, 4>>, ViewId |-> <<4, 12>>,
                    LastNormalView |-> <<12, 20>>, StableSlot |-> <<20, 28>>,
                    HasStable |-> <<28, 29>>, PrefixHash |-> <<29, 37>>,
                    NextExpected |-> <<37, 45>>, MaxSlotFilled |-> <<45, 53>>,
                    HasMax |-> <<53, 54>>, n |-> <<54, 58>>]),
         Limited("FilledBitmap", Byte, MaxBitmapBytes),
         Block(8, [BitmapBase |-> <<0, 8>>])>>
       \o slotList("NoOpSlots") \o schedule("Schedule"))

BusStartView ==
  Type(<<Block(46, [ViewId |-> <<0, 8>>, StableSlot |-> <<8, 16>>,
                    HasStable |-> <<16, 17>>, MaxSlot |-> <<17, 25>>,
                    HasMax |-> <<25, 26>>, PrefixHash |-> <<26, 34>>,
                    SenderIdx |-> <<34, 38>>, SourceNormalView |-> <<38, 46>>])>>
       \o slotList("NoOpSlots") \o replicaList("SelectedReports") \o schedule("Schedule"))

BusGetState ==
  Type(<<Block(36, [ViewId |-> <<0, 8>>, FromSlot |-> <<8, 16>>,
                    ToSlot |-> <<16, 24>>, FetchId |-> <<24, 32>>,
                    SenderIdx |-> <<32, 36>>])>>
       \o slotList("Slots"))

StateEntry ==
  Type(<<Block(30, [Slot |-> <<0, 8>>, ClientId |-> <<8, 16>>,
                    ReqId |-> <<16, 24>>, IsBus |-> <<24, 25>>,
                    IsNoOp |-> <<25, 26>>, n |-> <<26, 30>>]),
         List("Payload", Byte)>>)

BusNewState ==
  Type(<<Block(40, [ViewId |-> <<0, 8>>, FromSlot |-> <<8, 16>>,
                    ToSlot |-> <<16, 24>>, FetchId |-> <<24, 32>>,
                    SenderIdx |-> <<32, 36>>, n |-> <<36, 40>>]),
         Limited("Entries", StateEntry, MaxStateEntries)>>)

-----------------------------------------------------------------------------
(* Client schedules and control.                                           *)

BusScheduleInstall ==
  Type(<<Block(20, [Epoch |-> <<0, 8>>, Digest |-> <<8, 16>>,
                    SenderIdx |-> <<16, 20>>])>>
       \o schedule("Schedule"))

HsRequest ==
  Type(<<Block(24, [ClientId |-> <<0, 8>>, StartTime |-> <<8, 16>>,
                    IntervalMs |-> <<16, 24>>])>>)

SchdPrepareReply ==
  Type(<<Block(28, [ReplicaId |-> <<0, 4>>, ViewId |-> <<4, 12>>,
                    StartTime |-> <<12, 20>>, EndTime |-> <<20, 28>>])>>)

SchdCommit == SchdPrepareReply

SchdPrepare ==
  Type(SchdPrepareReply.parts \o
       <<Count(4), Limited("HsReqList", HsRequest, MaxScheduleLen)>>)

HsReply ==
  Type(SchdPrepareReply.parts \o <<Block(8, [IntervalMs |-> <<0, 8>>])>>)

clientControlMessage ==
  Type(<<Block(21, [ClientId |-> <<0, 8>>, ViewId |-> <<8, 16>>,
                    ReplicaIdx |-> <<16, 20>>, Normal |-> <<20, 21>>])>>)

-----------------------------------------------------------------------------
(* Which types a reader of a connection knows, by the code before a message. *)

\* replica.clientListener.
ReplicaHandles ==
  4 :> BusGapRequest @@ 5 :> BusGapReply @@ 6 :> BusGapCommit @@ 7 :> BusGapCommitReply @@
  8 :> BusMessage @@ 10 :> BusSyncPrepare @@ 11 :> BusSyncReply @@ 12 :> BusSyncCommit @@
  13 :> BusViewChangeRequest @@ 14 :> BusViewChange @@ 15 :> BusStartView @@
  16 :> BusStateQuery @@ 17 :> BusGetState @@ 18 :> BusNewState @@
  20 :> clientControlMessage @@ 24 :> BusScheduleInstall @@ 27 :> HsRequest @@
  28 :> SchdPrepare @@ 29 :> SchdPrepareReply @@ 30 :> SchdCommit

\* Client.receiveLoop.
ClientHandles == 9 :> RequestReplyMessage

\* Client.controlPeerLoop: a pause and a status reply.
ControlHandles == 19 :> clientControlMessage @@ 21 :> clientControlMessage

\* The reader of Client.schedulePeerLoop.
ScheduleHandles == 31 :> HsReply

\* UnmarshalRequests on the payload of a slot: no code before it.
PayloadHandles == NoCode :> MarshalRequests

=============================================================================
