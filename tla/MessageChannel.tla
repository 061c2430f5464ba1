-------------------------- MODULE MessageChannel --------------------------
(***************************************************************************)
(* What the RLPx framing layer promises to the code above it: the messages *)
(* the remote node framed come out one by one, each exactly once, in the   *)
(* order they were framed, however TCP cut the byte stream.                *)
(*                                                                         *)
(* This is the abstract specification; RlpxFraming implements it.          *)
(***************************************************************************)
EXTENDS Naturals, Sequences

CONSTANT Messages   \* the set of messages the channel can carry

VARIABLES
    sent,           \* every message framed so far, in order
    delivered       \* every message handed to the packet handler so far

channelVars == <<sent, delivered>>

ChannelInit ==
    /\ sent = <<>>
    /\ delivered = <<>>

Send(m) ==
    /\ sent' = Append(sent, m)
    /\ UNCHANGED delivered

Deliver ==
    /\ Len(delivered) < Len(sent)
    /\ delivered' = Append(delivered, sent[Len(delivered) + 1])
    /\ UNCHANGED sent

ChannelNext == (\E m \in Messages : Send(m)) \/ Deliver

ChannelSafety == ChannelInit /\ [][ChannelNext]_channelVars

ChannelSpec == ChannelSafety /\ WF_channelVars(Deliver)
===========================================================================
