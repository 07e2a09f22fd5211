----------------------------- MODULE SceneBook -----------------------------
(***************************************************************************)
(* What the Groups and Scenes clusters promise (zigbee/src/zcl.rs): a set  *)
(* of groups the light is in, and under a group and an identifier at most  *)
(* one remembered setting.  A setting is kept only for a group the light   *)
(* is in, or for no group; losing a group loses its settings.  A restart   *)
(* goes back to the copy in storage.                                       *)
(***************************************************************************)
EXTENDS Integers, FiniteSets

CONSTANTS Groups, NoGroup, Ids, Settings, MaxGroups, MaxScenes

VARIABLES members,   \* the groups the light is in
          book,      \* the settings kept: a set of [group, id, setting]
          copy       \* the [members, book] in storage

vars == <<members, book, copy>>

Of(group) == {e \in book : e.group = group}
At(group, id) == {e \in book : e.group = group /\ e.id = id}

Fits(m, b) ==
    /\ Cardinality(m) <= MaxGroups
    /\ Cardinality(b) <= MaxScenes
    /\ \A e \in b : e.group \in m \cup {NoGroup}
    /\ \A e, f \in b : e.group = f.group /\ e.id = f.id => e = f

Init ==
    /\ members = {}
    /\ book = {}
    /\ copy = [members |-> {}, book |-> {}]

Join(group) == members' = members \cup {group} /\ UNCHANGED <<book, copy>>

Leave(group) ==
    /\ members' = members \ {group}
    /\ book' = book \ Of(group)
    /\ UNCHANGED copy

(* Settings kept for no group may go with the groups.                      *)
LeaveAll ==
    /\ members' = {}
    /\ book' \in {{}, Of(NoGroup)}
    /\ UNCHANGED copy

Put(group, id) ==
    /\ \E setting \in Settings :
          book' = (book \ At(group, id))
                      \cup {[group |-> group, id |-> id, setting |-> setting]}
    /\ UNCHANGED <<members, copy>>

Remove(group, id) == book' = book \ At(group, id) /\ UNCHANGED <<members, copy>>

RemoveOf(group) == book' = book \ Of(group) /\ UNCHANGED <<members, copy>>

(* Storage takes a copy, or loses the one it had.                          *)
Keep ==
    /\ Fits(copy'.members, copy'.book)
    /\ UNCHANGED <<members, book>>

Restart ==
    /\ members' = copy.members
    /\ book' = copy.book
    /\ UNCHANGED copy

Next ==
    /\ \/ \E group \in Groups : Join(group) \/ Leave(group)
       \/ \E group \in Groups \cup {NoGroup} :
             \/ RemoveOf(group)
             \/ \E id \in Ids : Put(group, id) \/ Remove(group, id)
       \/ LeaveAll
       \/ Keep
       \/ Restart
    /\ Fits(members', book')

Spec == Init /\ [][Next]_vars
=============================================================================
