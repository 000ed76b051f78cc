------------------------------- MODULE DoorBot -------------------------------
(***************************************************************************)
(* open_door_bot: a chat bot that opens doors and whose administrators     *)
(* keep the table of those who may (bot.py, db.py, hikvision.py,           *)
(* keyboards.py).  Updates are handled one after another.  A button of any *)
(* message shown earlier stays usable: its handler looks at the data it    *)
(* carries and at the table only.  So every button is there to be pressed, *)
(* and what is kept of the messages is what the members' cards say.        *)
(* Handlers that only show something (the menus, /help, /users, the        *)
(* confirmation of a deletion) change nothing here.                        *)
(***************************************************************************)
EXTENDS Naturals

CONSTANTS
  Ids,        \* those who may be in the table
  Chats,      \* those of them who write to the bot
  Main,       \* the main administrator
  Doors,
  MaxUpdates  \* bound on the updates that change something

ASSUME BotAssumption ==
  /\ Chats \subseteq Ids
  /\ Main \in Chats
  /\ MaxUpdates \in Nat

VARIABLES
  members,    \* the table: role and activity; role "none" for one who is not there
  expects,    \* admin_state and new_user_id: what the next text in each chat is taken for
  cards,      \* the cards in each chat whose member's activity has not changed since
  modes,      \* the mode each door is in
  told,       \* the mode the bot has last said it has put a door in
  late,       \* commands without an answer, which may still be carried out
  updates,    \* the updates so far
  unanswered, \* history: doors that may have carried out one of these since the last answer
  misled      \* history: members whom a toggle did the opposite of what an up-to-date card said

doorVars == <<modes, told, late, unanswered>>
tableVars == <<members, cards, misled>>
botVars == <<expects, doorVars, tableVars, updates>>

Nobody == [role |-> "none", active |-> FALSE]

InTable(t) == members[t].role # "none"
IsUserAllowed(u) == members[u].active
IsUserAdmin(u) == u = Main \/ (members[u].role = "admin" /\ members[u].active)

\* The table is seeded when it is empty.
BotInit ==
  /\ members = [u \in Ids |-> [role |-> IF u = Main THEN "admin" ELSE "user", active |-> TRUE]]
  /\ expects = [u \in Chats |-> [kind |-> "nothing"]]
  /\ cards = [u \in Chats |-> {}]
  /\ modes = [d \in Doors |-> "close"]
  /\ told = [d \in Doors |-> "close"]
  /\ late = {}
  /\ updates = 0
  /\ unanswered = {}
  /\ misled = {}

Update == updates < MaxUpdates /\ updates' = updates + 1

-----------------------------------------------------------------------------
(* The table and what is shown of it.                                      *)

\* mutant: an administrator is protected by role.
OtherThanAdmin(t) == members[t].role # "admin"

\* Whom the handlers and the table protect from being changed.
Changeable(t) == t # Main

\* mutant: the card is built from the row as it was read before the change.
EarlierCard(t, row) == [of |-> t, active |-> members[t].active]

Card(t, row) == [of |-> t, active |-> row.active]

\* The row of t becomes "row", in an update from chat u that shows the cards "shown".
SetsMember(u, t, row, shown) ==
  /\ members' = [members EXCEPT ![t] = row]
  /\ cards' = [c \in Chats |-> (IF c = u THEN shown ELSE {}) \cup
                 {k \in cards[c] : k.of = t => row.active = members[t].active}]

\* A card comes, unless the member is not there or the message cannot be sent.
ShowsCard(u, t) ==
  \/ /\ InTable(t)
     /\ cards' = [cards EXCEPT ![u] = @ \cup {Card(t, members[t])}]
  \/ UNCHANGED cards

Says(u, expected) == expects' = [expects EXCEPT ![u] = expected]

\* One who is there already becomes an active user, whatever they were.
AddUser(u, id) == SetsMember(u, id, [role |-> "user", active |-> TRUE], {})

-----------------------------------------------------------------------------
(* Commands and texts.                                                     *)

\* Also the main menu, for those who are allowed.
StartHandler(u) ==
  /\ Says(u, [kind |-> "nothing"])
  /\ UNCHANGED <<tableVars, doorVars, updates>>

AdminAddUserCmd(u, id) ==
  /\ Update
  /\ IsUserAdmin(u)
  /\ AddUser(u, id)
  /\ UNCHANGED <<misled, expects, doorVars>>

AdminDelUserCmd(u, t) ==
  /\ Update
  /\ IsUserAdmin(u) /\ Changeable(t) /\ InTable(t)
  /\ SetsMember(u, t, Nobody, {})
  /\ UNCHANGED <<misled, expects, doorVars>>

\* A text is a number, a number and a name, or another text.
TextMessageHandler(u, id) ==
  /\ IsUserAdmin(u)
  /\ \/ /\ expects[u].kind = "id"
        /\ Update
        /\ AddUser(u, id)
        /\ Says(u, [kind |-> "nothing"])
     \/ /\ expects[u].kind = "id"
        /\ Says(u, [kind |-> "name", of |-> id])
        /\ UNCHANGED <<members, cards, updates>>
     \/ /\ expects[u].kind = "name"
        /\ Update
        /\ AddUser(u, expects[u].of)
        /\ Says(u, [kind |-> "nothing"])
     \/ /\ expects[u].kind = "rename"
        /\ Says(u, [kind |-> "nothing"])
        /\ ShowsCard(u, expects[u].of)
        /\ UNCHANGED <<members, updates>>
  /\ UNCHANGED <<misled, doorVars>>

-----------------------------------------------------------------------------
(* Buttons.                                                                *)

\* The buttons of the administrators' screens.
AdminPresses(u) == IsUserAllowed(u) /\ IsUserAdmin(u)

\* The panel and the lists: what the chat waits for is forgotten.
AdminMenu(u) ==
  /\ AdminPresses(u)
  /\ Says(u, [kind |-> "nothing"])
  /\ UNCHANGED <<tableVars, doorVars, updates>>

ViewUser(u, t) ==
  /\ AdminPresses(u)
  /\ Says(u, [kind |-> "nothing"])
  /\ ShowsCard(u, t)
  /\ UNCHANGED <<members, misled, doorVars, updates>>

AddUserPrompt(u) ==
  /\ AdminPresses(u)
  /\ Says(u, [kind |-> "id"])
  /\ UNCHANGED <<tableVars, doorVars, updates>>

RenamePrompt(u, t) ==
  /\ AdminPresses(u)
  /\ InTable(t)
  /\ Says(u, [kind |-> "rename", of |-> t])
  /\ UNCHANGED <<tableVars, doorVars, updates>>

\* The member is changed, and the card shown anew, unless that fails.
ChangesMember(u, t, row) ==
  /\ Update
  /\ AdminPresses(u)
  /\ Changeable(t) /\ InTable(t)
  /\ SetsMember(u, t, row, {}) \/ SetsMember(u, t, row, {Card(t, row)})
  /\ UNCHANGED <<expects, doorVars>>

\* The button names the new role.
RoleUser(u, t, role) ==
  /\ ChangesMember(u, t, [members[t] EXCEPT !.role = role])
  /\ UNCHANGED misled

\* The button says what it does to one with the activity the card shows; it flips the row's.
ToggleUser(u, t) ==
  /\ ChangesMember(u, t, [members[t] EXCEPT !.active = ~@])
  /\ misled' = IF \E k \in cards[u] : k.of = t /\ k.active # members[t].active
                 THEN misled \cup {t} ELSE misled

DeleteExecute(u, t) ==
  /\ Update
  /\ AdminPresses(u)
  /\ Changeable(t)
  /\ SetsMember(u, t, Nobody, {})
  /\ UNCHANGED <<misled, expects, doorVars>>

-----------------------------------------------------------------------------
(* Doors.                                                                  *)

\* A single opening leaves the door's mode as it is.
After(cmd, mode) == IF cmd = "open" THEN mode ELSE cmd

\* mutant: any answer counts.
AnyAnswer(outcome) == outcome \in {"200", "refused"}

Succeeded(outcome) == outcome = "200"

\* No answer in time, or none because the connection failed.
Unheard(outcome) == outcome \in {"timeout", "broken"}

\* The device carries the command out, refuses it, or is not heard of, and may then have
\* carried it out, or still do so.  After an answer to a change of mode the door is known.
SendDoorCommand(u, d, cmd, outcome) ==
  /\ Update
  /\ IsUserAllowed(u)
  /\ modes' = IF outcome = "200" THEN [modes EXCEPT ![d] = After(cmd, @)] ELSE modes
  /\ late' = IF Unheard(outcome) THEN late \cup {<<d, cmd>>} ELSE late
  /\ told' = IF Succeeded(outcome) THEN [told EXCEPT ![d] = After(cmd, @)] ELSE told
  /\ unanswered' = IF outcome = "200" /\ cmd # "open" THEN unanswered \ {d} ELSE unanswered
  /\ UNCHANGED <<expects, tableVars>>

LateCommand(d, cmd) ==
  /\ <<d, cmd>> \in late
  /\ late' = late \ {<<d, cmd>>}
  /\ modes' = [modes EXCEPT ![d] = After(cmd, @)]
  /\ unanswered' = unanswered \cup {d}
  /\ UNCHANGED <<expects, tableVars, told, updates>>

BotNext ==
  \/ \E u \in Chats : StartHandler(u) \/ AdminMenu(u) \/ AddUserPrompt(u)
  \/ \E u \in Chats, t \in Ids :
       \/ AdminAddUserCmd(u, t) \/ AdminDelUserCmd(u, t) \/ TextMessageHandler(u, t)
       \/ ViewUser(u, t) \/ RenamePrompt(u, t) \/ ToggleUser(u, t) \/ DeleteExecute(u, t)
  \/ \E u \in Chats, t \in Ids, role \in {"user", "admin"} : RoleUser(u, t, role)
  \/ \E u \in Chats, d \in Doors, cmd \in {"open", "close", "alwaysOpen", "alwaysClose"},
        outcome \in {"200", "refused", "timeout", "broken"} : SendDoorCommand(u, d, cmd, outcome)
  \/ \E d \in Doors, cmd \in {"open", "close", "alwaysOpen", "alwaysClose"} : LateCommand(d, cmd)

BotSpec == BotInit /\ [][BotNext]_botVars

-----------------------------------------------------------------------------
(* Properties.                                                             *)

\* The main administrator stays in the table and active, whatever administrators do.
MainIsKept == InTable(Main) /\ members[Main].active

\* A toggle never does the opposite of what its button says on a card whose member has the
\* activity that they had when the card was shown.
ButtonsTell == misled = {}

\* A door is in the mode that the bot has last said, unless it has carried out, after the
\* last change of mode that it answered, a command that the bot had reported as failed.
DoorsAsTold == \A d \in Doors \ unanswered : modes[d] = told[d]

\* The three together.
BotIsTrue == MainIsKept /\ ButtonsTell /\ DoorsAsTold
=============================================================================
