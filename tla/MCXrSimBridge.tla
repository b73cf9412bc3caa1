--------------------------- MODULE MCXrSimBridge ----------------------------
(* Sessions of a few verbs.  The plans are one that every actor but a zone *)
(* may have, and one whose tool call comes before an action that only a    *)
(* pack may take; a zone reply fails at its second intent or coasts; the   *)
(* snapshot of an earlier process has one record in its log.               *)
EXTENDS XrSimBridge

MCInjectDeltas == {-3}
MCZoneReplies ==
    {Intents(<<AdjustBy(DebugRegion, BlindDog, 60),
               AdjustBy(OneWord("nowhere"), BlindDog, 1)>>), CoastReply}
MCLivePlans ==
    {Plan(TRUE, <<Act("retreat")>>),
     Plan(FALSE, <<AdjustBy(DebugRegion, BlindDog, -7), Act("stalk")>>)}

MCEarlierSnapshots ==
    {SaveSnapshot(NullAgentWake(DebugWorld, NullAgentProvider).world)}

\* What a later verb can depend on: not what the last one said.
Session == <<bridge, asked, status, outcome, closed, saved>>
=============================================================================
