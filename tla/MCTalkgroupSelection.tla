------------------------ MODULE MCTalkgroupSelection ------------------------
(* TalkgroupSelection with the constants its configurations give. *)
EXTENDS TalkgroupSelection

Entry(tg, plus) == [tg |-> tg, plus |-> plus]

\* A list with a double entry, one for talkgroup 0 and one with too many plus
\* signs; and a profile that parks the client, with another list.
MCProfiles ==
  {[talkgroup |-> 1, default |-> 1, timeout |-> 2,
    spec |-> <<Entry(2, 1), Entry(0, 2), Entry(2, 0), Entry(3, 4)>>],
   [talkgroup |-> 0, default |-> 0, timeout |-> 1, spec |-> <<Entry(2, 0)>>]}
=============================================================================
