------------------------------- MODULE Party --------------------------------
(***************************************************************************)
(* Parties of players (src/src/party.cpp), the requests that change them   *)
(* (src/src/game.cpp) and the references a player keeps                    *)
(* (src/src/player.cpp).                                                   *)
(*                                                                         *)
(* Every request is one task of the dispatcher.  A Party and its players   *)
(* refer to each other in both directions, and one request may end several *)
(* parties: whoever joins a party or leaves the game drops all invitations *)
(* it has, and a party left with nobody disbands.                          *)
(*                                                                         *)
(* Scripts may veto a request, except that onDisband agrees, as the        *)
(* scripts of the repository do.  Shared experience, shields and messages  *)
(* are left out.                                                           *)
(***************************************************************************)
EXTENDS Naturals, Sequences, FiniteSets

CONSTANTS
    Fellows,        \* players
    Parties,        \* Party objects; one is used again once nobody refers to it
    NoFellow, NoParty

ASSUME PartyConstants == NoFellow \notin Fellows /\ NoParty \notin Parties

VARIABLES
    party,          \* [leader, memberList, inviteList] of each Party
    partyOf,        \* Player::party
    invitePartyList,
    inGame          \* the players in the world

partyVars == <<party, partyOf, invitePartyList, inGame>>

Disbanded == [leader |-> NoFellow, memberList |-> <<>>, inviteList |-> {}]

PartyInit ==
    /\ party = [x \in Parties |-> Disbanded]
    /\ partyOf = [p \in Fellows |-> NoParty]
    /\ invitePartyList = [p \in Fellows |-> {}]
    /\ inGame = Fellows

SetOf(s) == {s[k] : k \in DOMAIN s}

\* remove_if: everybody but p, in the same order.
Leaving(s, p) ==
    LET kept[k \in 0 .. Len(s)] ==
            IF k = 0 THEN <<>> ELSE IF s[k] = p THEN kept[k - 1] ELSE Append(kept[k - 1], s[k])
    IN  kept[Len(s)]

Alone(r) == r.memberList = <<>> /\ r.inviteList = {}

-----------------------------------------------------------------------------
(* The operations compute on s, a record of party, partyOf and              *)
(* invitePartyList.                                                         *)

References == [party |-> party, of |-> partyOf, invites |-> invitePartyList]

Become(s) == party' = s.party /\ partyOf' = s.of /\ invitePartyList' = s.invites

\* Another r for party x, with what its players refer to.
WithParty(s, x, r, of, invites) ==
    [party |-> [s.party EXCEPT ![x] = r], of |-> of, invites |-> invites]

disband(s, x) ==
    LET r == s.party[x] IN
    [party   |-> [s.party EXCEPT ![x] = Disbanded],
     of      |-> [p \in Fellows |->
                    IF p = r.leader \/ p \in SetOf(r.memberList) THEN NoParty ELSE s.of[p]],
     invites |-> [p \in Fellows |->
                    IF p \in r.inviteList THEN s.invites[p] \ {x} ELSE s.invites[p]]]

DisbandIfEmpty(s, x) == IF Alone(s.party[x]) THEN disband(s, x) ELSE s

\* removeInvite, which also tells the player.
removeInvite(s, x, p) ==
    IF p \notin s.party[x].inviteList THEN s
    ELSE DisbandIfEmpty(WithParty(s, x, [s.party[x] EXCEPT !.inviteList = @ \ {p}],
                                  s.of, [s.invites EXCEPT ![p] = @ \ {x}]), x)

\* Wrong variant: a party that is left without invitations goes on.
clearPartyInvitationsOnly(s, p) ==
    [s EXCEPT !.party = [x \in Parties |-> IF x \in s.invites[p]
                                           THEN [s.party[x] EXCEPT !.inviteList = @ \ {p}]
                                           ELSE s.party[x]],
              !.invites[p] = {}]

\* removeInvite by every party that invites p.  One that disbands had no member and invited p alone,
\* so it takes nobody but its leader along.
clearPartyInvitations(s, p) ==
    LET from == {x \in s.invites[p] : p \in s.party[x].inviteList}
        ends == {x \in from : s.party[x].memberList = <<>> /\ s.party[x].inviteList = {p}}
    IN  [party   |-> [x \in Parties |->
                        IF x \in ends THEN Disbanded
                        ELSE IF x \in from THEN [s.party[x] EXCEPT !.inviteList = @ \ {p}]
                        ELSE s.party[x]],
         of      |-> [q \in Fellows |->
                        IF \E x \in ends : s.party[x].leader = q THEN NoParty ELSE s.of[q]],
         invites |-> [s.invites EXCEPT ![p] = {}]]

\* The old leader becomes the first member.
passPartyLeadership(s, x, p) ==
    LET r == s.party[x]
        led == [leader |-> p, memberList |-> <<r.leader>> \o Leaving(r.memberList, p),
                inviteList |-> r.inviteList]
    IN  WithParty(s, x, led, s.of, s.invites)

\* leaveParty: a leader hands over to the first member, unless that member would be alone.
leaveParty(s, x, p) ==
    LET r == s.party[x]
        others == Leaving(r.memberList, p)
        ends == /\ r.leader = p
                /\ others = <<>> \/ (Len(others) = 1 /\ r.inviteList = {})
        passed == IF r.leader = p /\ ~ends THEN passPartyLeadership(s, x, Head(others)) ELSE s
        left == WithParty(passed, x, [passed.party[x] EXCEPT !.memberList = Leaving(@, p)],
                          [passed.of EXCEPT ![p] = NoParty], passed.invites)
    IN  IF ends \/ Alone(left.party[x]) THEN disband(left, x) ELSE left

\* The first to join makes it a real party: then the leader drops its own invitations too.
joinParty(s, x, p) ==
    LET r == s.party[x]
        cleared == IF r.memberList = <<>> THEN clearPartyInvitations(s, r.leader) ELSE s
        joined == WithParty(cleared, x, [cleared.party[x] EXCEPT !.memberList = Append(@, p)],
                            [cleared.of EXCEPT ![p] = x], cleared.invites)
    IN  clearPartyInvitations(joined, p)

-----------------------------------------------------------------------------
(* The requests.                                                            *)

Unused(x) ==
    party[x] = Disbanded /\ \A p \in Fellows : partyOf[p] # x /\ x \notin invitePartyList[p]

Leads(p, x) == x # NoParty /\ party[x].leader = p

\* A vetoed invitation disbands the party it was to found, so that nothing changes.
playerInviteToParty(p, q) ==
    /\ {p, q} \subseteq inGame /\ p # q /\ partyOf[q] = NoParty
    /\ \E x \in Parties :
          LET founds == partyOf[p] = NoParty
              r == [leader |-> p, memberList |-> party[x].memberList,
                    inviteList |-> party[x].inviteList \cup {q}]
          IN  /\ IF founds THEN Unused(x) ELSE partyOf[p] = x /\ Leads(p, x)
              /\ q \notin party[x].inviteList
              /\ Become(WithParty(References, x, r, [partyOf EXCEPT ![p] = x],
                                  [invitePartyList EXCEPT ![q] = @ \cup {x}]))
    /\ UNCHANGED inGame

playerJoinParty(p, q) ==
    LET x == partyOf[q] IN
    /\ {p, q} \subseteq inGame /\ Leads(q, x) /\ p \in party[x].inviteList /\ partyOf[p] = NoParty
    /\ Become(joinParty(References, x, p))
    /\ UNCHANGED inGame

playerRevokePartyInvitation(p, q) ==
    LET x == partyOf[p] IN
    /\ {p, q} \subseteq inGame /\ Leads(p, x) /\ q \in party[x].inviteList
    /\ Become(removeInvite(References, x, q))
    /\ UNCHANGED inGame

playerPassPartyLeadership(p, q) ==
    LET x == partyOf[p] IN
    /\ {p, q} \subseteq inGame /\ Leads(p, x) /\ p # q /\ partyOf[q] = x
    /\ Become(passPartyLeadership(References, x, q))
    /\ UNCHANGED inGame

playerLeaveParty(p) ==
    /\ p \in inGame /\ partyOf[p] # NoParty
    /\ Become(leaveParty(References, partyOf[p], p))
    /\ UNCHANGED inGame

\* Player::onRemoveCreature: a logout, a kick or a death.
partyLogout(p) ==
    /\ p \in inGame
    /\ LET s == clearPartyInvitations(References, p) IN
       Become(IF s.of[p] = NoParty THEN s ELSE leaveParty(s, s.of[p], p))
    /\ inGame' = inGame \ {p}

\* A new Player object for the same character.
partyLogin(p) ==
    /\ p \notin inGame
    /\ inGame' = inGame \cup {p}
    /\ UNCHANGED <<party, partyOf, invitePartyList>>

PartyNext ==
    \/ \E p, q \in Fellows :
          \/ playerInviteToParty(p, q) \/ playerJoinParty(p, q)
          \/ playerRevokePartyInvitation(p, q) \/ playerPassPartyLeadership(p, q)
    \/ \E p \in Fellows : playerLeaveParty(p) \/ partyLogout(p) \/ partyLogin(p)

PartySpec == PartyInit /\ [][PartyNext]_partyVars

-----------------------------------------------------------------------------
(* Properties.                                                              *)

\* The variables have their types, and what is limited stays within its limit.
PartyTypeOK ==
    /\ \A x \in Parties : /\ party[x].leader \in Fellows \cup {NoFellow}
                          /\ SetOf(party[x].memberList) \cup party[x].inviteList \subseteq Fellows
    /\ partyOf \in [Fellows -> Parties \cup {NoParty}]
    /\ invitePartyList \in [Fellows -> SUBSET Parties]
    /\ inGame \subseteq Fellows

\* A player's party is the one that lists the player, once, as its leader or as a member: nobody is
\* left in a party that does not know it, or listed by a party it is not in.
MembershipAgrees ==
    \A p \in Fellows, x \in Parties :
        LET r == party[x]
            listed == Cardinality({k \in DOMAIN r.memberList : r.memberList[k] = p})
                      + (IF r.leader = p THEN 1 ELSE 0)
        IN  listed = IF partyOf[p] = x THEN 1 ELSE 0

\* No party is left with its leader alone and nobody invited, or without a leader, and everybody a
\* party refers to is in the game.
NoLonelyParty ==
    \A x \in Parties : party[x] # Disbanded =>
        /\ party[x].leader \in inGame
        /\ ~Alone(party[x])
        /\ SetOf(party[x].memberList) \cup party[x].inviteList \subseteq inGame

\* Invitations are known to both sides, and nobody who is in a party of two or more has one: an
\* invited player can always accept once it has ended the party it leads alone.
InvitedIsFree ==
    \A p \in Fellows :
        /\ \A x \in Parties : x \in invitePartyList[p] <=> p \in party[x].inviteList
        /\ invitePartyList[p] # {} /\ partyOf[p] # NoParty => party[partyOf[p]].memberList = <<>>

\* Players and parties agree on who is in and who is invited, although one request may end several
\* parties: memberships, invitations and the parties that must disband.
PartiesAgree == PartyTypeOK /\ MembershipAgrees /\ NoLonelyParty /\ InvitedIsFree

=============================================================================
