----------------------- MODULE TokenLifecycleProofs -----------------------
(***************************************************************************)
(* Theorems about TokenLifecycle, for any number of calls and instances    *)
(* and any set of faults.                                                  *)
(***************************************************************************)
EXTENDS TokenLifecycle, TLAPS, SequenceTheorems

\* A call that must save or revoke has a token in hand.
HoldsToken ==
    \A c \in Calls :
        pc[c] \in {"save", "callback_save", "revoke"} => hand[c] \in Tokens

\* The types of what Intuit, the store and the locks keep ...
SystemTypes ==
    /\ grantOf \in Seq(Nat \ {0})
    /\ live \subseteq Tokens
    /\ revoked \subseteq Nat
    /\ refused \subseteq Tokens
    /\ expired \subseteq Tokens
    /\ store \in Tokens \cup {None}
    /\ holder \in [Instances -> Calls \cup {Free}]
    /\ lost \subseteq Tokens

\* ... and of what each call keeps.
CallTypes ==
    /\ pc \in [Calls -> Locations]
    /\ cached \in [Calls -> Tokens \cup {None}]
    /\ hand \in [Calls -> Tokens \cup {None}]
    /\ sends \in [Calls -> 0 .. 1]
    /\ result \in [Calls -> Results]
    /\ HoldsToken

TypeInv == SystemTypes /\ CallTypes

LEMMA InitType == Init => TypeInv
  <1> SUFFICES ASSUME Init PROVE TypeInv
    OBVIOUS
  <1>1. grantOf \in Seq(Nat \ {0}) /\ Len(grantOf) \in {0, 1}
    <2>1. CASE grantOf = <<>>
      BY <2>1
    <2>2. CASE grantOf = <<1>>
      BY <2>2
    <2>3. QED
      BY <2>1, <2>2 DEF Init
  <1>2. SystemTypes
    BY <1>1, CallsAssumption DEF Init, SystemTypes, Tokens, None
  <1>3. \A c \in Calls : Entry(c) \in {"load", "lock", "exchange"}
    BY DEF Entry
  <1>4. CallTypes
    BY <1>3 DEF Init, CallTypes, HoldsToken, Tokens, Locations, Results, None
  <1>5. QED
    BY <1>2, <1>4 DEF TypeInv

\* A token has a grant.
LEMMA GrantOfToken ==
  ASSUME TypeInv
  PROVE  /\ Len(grantOf) \in Nat
         /\ \A t \in Tokens : grantOf[t] \in Nat \ {0}
  BY ElementOfSeq DEF TypeInv, SystemTypes, Tokens

\* Issuing a token keeps the types, and only adds tokens.
LEMMA IssueTypes ==
  ASSUME TypeInv, NEW g \in Nat \ {0}, NEW S, Issue(g, S)
  PROVE  /\ grantOf' \in Seq(Nat \ {0})
         /\ Len(grantOf') = Len(grantOf) + 1
         /\ Tokens \subseteq Tokens'
         /\ Len(grantOf) + 1 \in Tokens'
         /\ live' \subseteq Tokens'
         /\ revoked' = revoked /\ refused' = refused
  <1>1. /\ grantOf \in Seq(Nat \ {0}) /\ grantOf' = Append(grantOf, g)
        /\ Len(grantOf) \in Nat
    BY DEF TypeInv, SystemTypes, Issue
  <1>2. grantOf' \in Seq(Nat \ {0}) /\ Len(grantOf') = Len(grantOf) + 1
    BY <1>1, AppendProperties
  <1>3. Tokens \subseteq Tokens' /\ Len(grantOf) + 1 \in Tokens'
    BY <1>1, <1>2 DEF Tokens
  <1>4. live \subseteq Tokens
    BY DEF TypeInv, SystemTypes
  <1>5. QED
    BY <1>2, <1>3, <1>4 DEF Issue

\* A call that is answered keeps the types of the calls.
LEMMA FinishTypes ==
  ASSUME TypeInv, NEW c \in Calls, NEW r \in Results, Finish(c, r),
         Tokens \subseteq Tokens'
  PROVE  CallTypes'
  BY DEF TypeInv, CallTypes, HoldsToken, Finish, Locations, None

\* So does one that moves on with tokens cached and in hand.
LEMMA GotoTypes ==
  ASSUME TypeInv, NEW c \in Calls, NEW l \in Locations, Goto(c, l),
         Tokens \subseteq Tokens',
         cached' \in [Calls -> Tokens' \cup {None}],
         hand' \in [Calls -> Tokens' \cup {None}],
         sends' \in [Calls -> 0 .. 1],
         \A d \in Calls \ {c} : hand'[d] = hand[d],
         l \in {"save", "callback_save", "revoke"} => hand'[c] \in Tokens'
  PROVE  CallTypes'
  BY DEF TypeInv, CallTypes, HoldsToken, Goto

LEMMA ResumeTypes ==
  ASSUME TypeInv, NEW c \in Calls, NEW t \in Tokens \cup {None}, Resume(c, t),
         UNCHANGED grantOf
  PROVE  CallTypes'
  <1>1. Tokens' = Tokens
    BY DEF Tokens
  <1>2. CASE Finish(c, "ready")
    BY <1>1, <1>2, FinishTypes DEF Results
  <1>3. CASE /\ Goto(c, "send")
             /\ cached' = [cached EXCEPT ![c] = t]
             /\ hand' = [hand EXCEPT ![c] = None]
             /\ UNCHANGED sends
    <2>1. /\ cached' \in [Calls -> Tokens' \cup {None}]
          /\ hand' \in [Calls -> Tokens' \cup {None}]
          /\ sends' \in [Calls -> 0 .. 1]
          /\ \A d \in Calls \ {c} : hand'[d] = hand[d]
      BY <1>1, <1>3 DEF TypeInv, CallTypes
    <2>2. QED
      BY <1>1, <1>3, <2>1, GotoTypes DEF Locations
  <1>4. QED
    BY <1>2, <1>3 DEF Resume

\* A lock operation keeps the type of the locks.
LEMMA LockTypes ==
  ASSUME TypeInv, NEW c \in Calls, NEW h \in Calls \cup {Free},
         holder' = [holder EXCEPT ![On[c]] = h] \/ UNCHANGED holder
  PROVE  holder' \in [Instances -> Calls \cup {Free}]
  BY CallsAssumption DEF TypeInv, SystemTypes

LEMMA StepType ==
  ASSUME TypeInv, NEW c \in Calls, Step(c)
  PROVE  TypeInv'
  <1>1. CASE Load(c)
    <2>1. UNCHANGED <<grantOf, live, revoked, refused>> /\ Tokens' = Tokens
      BY <1>1 DEF Load, intuit, Tokens
    <2>2. holder' \in [Instances -> Calls \cup {Free}]
      BY <1>1, LockTypes DEF Load
    <2>3. SystemTypes'
      BY <1>1, <2>1, <2>2 DEF Load, TypeInv, SystemTypes
    <2>4. CASE store # None
      <3>1. /\ cached' \in [Calls -> Tokens' \cup {None}]
           /\ hand' \in [Calls -> Tokens' \cup {None}]
           /\ sends' \in [Calls -> 0 .. 1]
           /\ \A d \in Calls \ {c} : hand'[d] = hand[d]
        BY <1>1, <2>1, <2>4 DEF Load, TypeInv, SystemTypes, CallTypes, intuit
      <3>2. Goto(c, "check")
        BY <1>1, <2>4 DEF Load
      <3>3. CallTypes'
        BY <2>1, <3>1, <3>2, GotoTypes DEF Locations
      <3>4. QED
        BY <3>3, <2>3 DEF TypeInv
    <2>5. CASE store = None
      <3>1. CallTypes'
        BY <1>1, <2>1, FinishTypes, <2>5 DEF Load, Results
      <3>2. QED
        BY <3>1, <2>3 DEF TypeInv
    <2>6. QED
      BY <1>1, <2>4, <2>5 DEF Load
  <1>2. CASE LoadFails(c)
    <2>1. UNCHANGED <<grantOf, live, revoked, refused>> /\ Tokens' = Tokens
      BY <1>2 DEF LoadFails, intuit, Tokens
    <2>2. holder' \in [Instances -> Calls \cup {Free}]
      BY <1>2, LockTypes DEF LoadFails, Release
    <2>3. SystemTypes'
      BY <1>2, <2>1, <2>2 DEF LoadFails, TypeInv, SystemTypes
    <2>4. CallTypes'
      BY <1>2, <2>1, FinishTypes DEF LoadFails, Results
    <2>5. QED
      BY <2>3, <2>4 DEF TypeInv
  <1>3. CASE CheckExpiry(c)
    <2>1. UNCHANGED <<grantOf, live, revoked, refused>> /\ Tokens' = Tokens
      BY <1>3 DEF CheckExpiry, intuit, Tokens
    <2>2. holder' \in [Instances -> Calls \cup {Free}]
      BY <1>3, LockTypes DEF CheckExpiry
    <2>3. SystemTypes'
      BY <1>3, <2>1, <2>2 DEF CheckExpiry, TypeInv, SystemTypes
    <2>4. CASE cached[c] \in expired
      <3>1. /\ cached' \in [Calls -> Tokens' \cup {None}]
           /\ hand' \in [Calls -> Tokens' \cup {None}]
           /\ sends' \in [Calls -> 0 .. 1]
           /\ \A d \in Calls \ {c} : hand'[d] = hand[d]
        BY <1>3, <2>1, <2>4 DEF CheckExpiry, TypeInv, SystemTypes, CallTypes, intuit, client
      <3>2. Goto(c, "lock")
        BY <1>3, <2>4 DEF CheckExpiry
      <3>3. CallTypes'
        BY <2>1, <3>1, <3>2, GotoTypes DEF Locations
      <3>4. QED
        BY <3>3, <2>3 DEF TypeInv
    <2>5. CASE cached[c] \notin expired
      <3>1. cached[c] \in Tokens \cup {None}
        BY DEF TypeInv, CallTypes
      <3>2. CallTypes'
        BY <1>3, <2>1, <3>1, ResumeTypes, <2>5 DEF CheckExpiry, intuit
      <3>3. QED
        BY <3>2, <2>3 DEF TypeInv
    <2>6. QED
      BY <1>3, <2>4, <2>5 DEF CheckExpiry
  <1>4. CASE Accepted(c)
    <2>1. UNCHANGED <<grantOf, live, revoked, refused>> /\ Tokens' = Tokens
      BY <1>4 DEF Accepted, intuit, Tokens
    <2>2. holder' \in [Instances -> Calls \cup {Free}]
      BY <1>4, LockTypes DEF Accepted
    <2>3. SystemTypes'
      BY <1>4, <2>1, <2>2 DEF Accepted, TypeInv, SystemTypes
    <2>4. CallTypes'
      BY <1>4, <2>1, FinishTypes DEF Accepted, Results
    <2>5. QED
      BY <2>3, <2>4 DEF TypeInv
  <1>5. CASE Unauthorized(c)
    <2>1. UNCHANGED <<grantOf, live, revoked, refused>> /\ Tokens' = Tokens
      BY <1>5 DEF Unauthorized, intuit, Tokens
    <2>2. holder' \in [Instances -> Calls \cup {Free}]
      BY <1>5, LockTypes DEF Unauthorized
    <2>3. SystemTypes'
      BY <1>5, <2>1, <2>2 DEF Unauthorized, TypeInv, SystemTypes
    <2>4. CASE sends[c] = 0
      <3>1. /\ cached' \in [Calls -> Tokens' \cup {None}]
           /\ hand' \in [Calls -> Tokens' \cup {None}]
           /\ sends' \in [Calls -> 0 .. 1]
           /\ \A d \in Calls \ {c} : hand'[d] = hand[d]
        BY <1>5, <2>1, <2>4 DEF Unauthorized, TypeInv, SystemTypes, CallTypes, intuit
      <3>2. Goto(c, "lock")
        BY <1>5, <2>4 DEF Unauthorized
      <3>3. CallTypes'
        BY <2>1, <3>1, <3>2, GotoTypes DEF Locations
      <3>4. QED
        BY <3>3, <2>3 DEF TypeInv
    <2>5. CASE sends[c] = 1
      <3>1. CallTypes'
        BY <1>5, <2>1, FinishTypes, <2>5 DEF Unauthorized, Results
      <3>2. QED
        BY <3>1, <2>3 DEF TypeInv
    <2>6. QED
      BY <1>5, <2>4, <2>5 DEF Unauthorized
  <1>6. CASE AcquireLock(c)
    <2>1. UNCHANGED <<grantOf, live, revoked, refused>> /\ Tokens' = Tokens
      BY <1>6 DEF AcquireLock, intuit, Tokens
    <2>2. holder' \in [Instances -> Calls \cup {Free}]
      BY <1>6, LockTypes DEF AcquireLock
    <2>3. SystemTypes'
      BY <1>6, <2>1, <2>2 DEF AcquireLock, TypeInv, SystemTypes
    <2>4. /\ cached' \in [Calls -> Tokens' \cup {None}]
         /\ hand' \in [Calls -> Tokens' \cup {None}]
         /\ sends' \in [Calls -> 0 .. 1]
         /\ \A d \in Calls \ {c} : hand'[d] = hand[d]
      BY <1>6, <2>1 DEF AcquireLock, TypeInv, SystemTypes, CallTypes, None, intuit, client
    <2>5. CallTypes'
      BY <1>6, <2>1, <2>4, GotoTypes DEF AcquireLock, Locations
    <2>6. QED
      BY <2>3, <2>5 DEF TypeInv
  <1>7. CASE Adopt(c)
    <2>1. UNCHANGED <<grantOf, live, revoked, refused>> /\ Tokens' = Tokens
      BY <1>7 DEF Adopt, intuit, Tokens
    <2>2. holder' \in [Instances -> Calls \cup {Free}]
      BY <1>7, LockTypes DEF Adopt, Release
    <2>3. SystemTypes'
      BY <1>7, <2>1, <2>2 DEF Adopt, TypeInv, SystemTypes
    <2>4. store \in Tokens \cup {None}
      BY DEF TypeInv, SystemTypes
    <2>5. CallTypes'
      BY <1>7, <2>1, <2>4, ResumeTypes DEF Adopt
    <2>6. QED
      BY <2>3, <2>5 DEF TypeInv
  <1>8. CASE ChooseSource(c)
    <2>1. UNCHANGED <<grantOf, live, revoked, refused>> /\ Tokens' = Tokens
      BY <1>8 DEF ChooseSource, intuit, Tokens
    <2>2. holder' \in [Instances -> Calls \cup {Free}]
      BY <1>8, LockTypes DEF ChooseSource
    <2>3. SystemTypes'
      BY <1>8, <2>1, <2>2 DEF ChooseSource, TypeInv, SystemTypes
    <2>4. /\ cached' \in [Calls -> Tokens' \cup {None}]
         /\ hand' \in [Calls -> Tokens' \cup {None}]
         /\ sends' \in [Calls -> 0 .. 1]
         /\ \A d \in Calls \ {c} : hand'[d] = hand[d]
      BY <1>8, <2>1 DEF ChooseSource, TypeInv, SystemTypes, CallTypes, None, intuit
    <2>5. CallTypes'
      BY <1>8, <2>1, <2>4, GotoTypes DEF ChooseSource, Locations
    <2>6. QED
      BY <2>3, <2>5 DEF TypeInv
  <1>9. CASE Rotate(c)
    <2>1. hand[c] \in live /\ Issue(grantOf[hand[c]], {hand[c]})
      BY <1>9 DEF Rotate
    <2>2. grantOf[hand[c]] \in Nat \ {0}
      BY <2>1, GrantOfToken DEF TypeInv, SystemTypes
    <2>3. /\ grantOf' \in Seq(Nat \ {0}) /\ Len(grantOf') = Len(grantOf) + 1
         /\ Tokens \subseteq Tokens' /\ Len(grantOf) + 1 \in Tokens'
         /\ live' \subseteq Tokens' /\ revoked' = revoked /\ refused' = refused
      BY <2>1, <2>2, IssueTypes
    <2>4. holder' \in [Instances -> Calls \cup {Free}]
      BY <1>9, LockTypes DEF Rotate
    <2>5. SystemTypes'
      BY <1>9, <2>3, <2>4 DEF Rotate, TypeInv, SystemTypes, CallTypes, HoldsToken
    <2>6. /\ cached' \in [Calls -> Tokens' \cup {None}]
         /\ hand' \in [Calls -> Tokens' \cup {None}]
         /\ sends' \in [Calls -> 0 .. 1]
         /\ \A d \in Calls \ {c} : hand'[d] = hand[d]
         /\ hand'[c] \in Tokens'
      BY <1>9, <2>3 DEF Rotate, TypeInv, SystemTypes, CallTypes, None
    <2>7. CallTypes'
      BY <1>9, <2>3, <2>6, GotoTypes DEF Rotate, Locations
    <2>8. QED
      BY <2>5, <2>7 DEF TypeInv
  <1>10. CASE RefreshFails(c)
    <2>1. UNCHANGED <<grantOf, live, revoked, refused>> /\ Tokens' = Tokens
      BY <1>10 DEF RefreshFails, intuit, Tokens
    <2>2. holder' \in [Instances -> Calls \cup {Free}]
      BY <1>10, LockTypes DEF RefreshFails, Release
    <2>3. SystemTypes'
      BY <1>10, <2>1, <2>2 DEF RefreshFails, TypeInv, SystemTypes, CallTypes, HoldsToken
    <2>4. CallTypes'
      BY <1>10, <2>1, FinishTypes DEF RefreshFails, Results
    <2>5. QED
      BY <2>3, <2>4 DEF TypeInv
  <1>11. CASE RotationLost(c)
    <2>1. hand[c] \in live /\ Issue(grantOf[hand[c]], {hand[c]})
      BY <1>11 DEF RotationLost
    <2>2. grantOf[hand[c]] \in Nat \ {0}
      BY <2>1, GrantOfToken DEF TypeInv, SystemTypes
    <2>3. /\ grantOf' \in Seq(Nat \ {0}) /\ Len(grantOf') = Len(grantOf) + 1
         /\ Tokens \subseteq Tokens' /\ Len(grantOf) + 1 \in Tokens'
         /\ live' \subseteq Tokens' /\ revoked' = revoked /\ refused' = refused
      BY <2>1, <2>2, IssueTypes
    <2>4. holder' \in [Instances -> Calls \cup {Free}]
      BY <1>11, LockTypes DEF RotationLost, Release
    <2>5. SystemTypes'
      BY <1>11, <2>3, <2>4 DEF RotationLost, TypeInv, SystemTypes, CallTypes, HoldsToken
    <2>6. CallTypes'
      BY <1>11, <2>3, FinishTypes DEF RotationLost, Results
    <2>7. QED
      BY <2>5, <2>6 DEF TypeInv
  <1>12. CASE Save(c)
    <2>1. UNCHANGED <<grantOf, live, revoked, refused>> /\ Tokens' = Tokens
      BY <1>12 DEF Save, intuit, Tokens
    <2>2. holder' \in [Instances -> Calls \cup {Free}]
      BY <1>12, LockTypes DEF Save, Release
    <2>3. SystemTypes'
      BY <1>12, <2>1, <2>2 DEF Save, TypeInv, SystemTypes, CallTypes, HoldsToken
    <2>4. hand[c] \in Tokens \cup {None}
      BY DEF TypeInv, CallTypes
    <2>5. CallTypes'
      BY <1>12, <2>1, <2>4, ResumeTypes DEF Save
    <2>6. QED
      BY <2>3, <2>5 DEF TypeInv
  <1>13. CASE SaveFails(c)
    <2>1. UNCHANGED <<grantOf, live, revoked, refused>> /\ Tokens' = Tokens
      BY <1>13 DEF SaveFails, intuit, Tokens
    <2>2. holder' \in [Instances -> Calls \cup {Free}]
      BY <1>13, LockTypes DEF SaveFails, Release
    <2>3. SystemTypes'
      BY <1>13, <2>1, <2>2 DEF SaveFails, TypeInv, SystemTypes, CallTypes, HoldsToken
    <2>4. CallTypes'
      BY <1>13, <2>1, FinishTypes DEF SaveFails, Results
    <2>5. QED
      BY <2>3, <2>4 DEF TypeInv
  <1>14. CASE Authorize(c)
    <2>1. PICK S : Issue(Len(grantOf) + 1, S)
      BY <1>14 DEF Authorize
    <2>2. Len(grantOf) + 1 \in Nat \ {0}
      BY GrantOfToken
    <2>3. /\ grantOf' \in Seq(Nat \ {0}) /\ Len(grantOf') = Len(grantOf) + 1
         /\ Tokens \subseteq Tokens' /\ Len(grantOf) + 1 \in Tokens'
         /\ live' \subseteq Tokens' /\ revoked' = revoked /\ refused' = refused
      BY <2>1, <2>2, IssueTypes
    <2>4. holder' \in [Instances -> Calls \cup {Free}]
      BY <1>14, LockTypes DEF Authorize
    <2>5. SystemTypes'
      BY <1>14, <2>3, <2>4 DEF Authorize, TypeInv, SystemTypes
    <2>6. /\ cached' \in [Calls -> Tokens' \cup {None}]
         /\ hand' \in [Calls -> Tokens' \cup {None}]
         /\ sends' \in [Calls -> 0 .. 1]
         /\ \A d \in Calls \ {c} : hand'[d] = hand[d]
         /\ hand'[c] \in Tokens'
      BY <1>14, <2>3 DEF Authorize, TypeInv, SystemTypes, CallTypes, None
    <2>7. CallTypes'
      BY <1>14, <2>3, <2>6, GotoTypes DEF Authorize, Locations
    <2>8. QED
      BY <2>5, <2>7 DEF TypeInv
  <1>15. CASE AuthorizeFails(c)
    <2>1. UNCHANGED <<grantOf, live, revoked, refused>> /\ Tokens' = Tokens
      BY <1>15 DEF AuthorizeFails, intuit, Tokens
    <2>2. holder' \in [Instances -> Calls \cup {Free}]
      BY <1>15, LockTypes DEF AuthorizeFails
    <2>3. SystemTypes'
      BY <1>15, <2>1, <2>2 DEF AuthorizeFails, TypeInv, SystemTypes
    <2>4. CallTypes'
      BY <1>15, <2>1, FinishTypes DEF AuthorizeFails, Results
    <2>5. QED
      BY <2>3, <2>4 DEF TypeInv
  <1>16. CASE AuthorizationLost(c)
    <2>1. PICK S : Issue(Len(grantOf) + 1, S)
      BY <1>16 DEF AuthorizationLost
    <2>2. Len(grantOf) + 1 \in Nat \ {0}
      BY GrantOfToken
    <2>3. /\ grantOf' \in Seq(Nat \ {0}) /\ Len(grantOf') = Len(grantOf) + 1
         /\ Tokens \subseteq Tokens' /\ Len(grantOf) + 1 \in Tokens'
         /\ live' \subseteq Tokens' /\ revoked' = revoked /\ refused' = refused
      BY <2>1, <2>2, IssueTypes
    <2>4. holder' \in [Instances -> Calls \cup {Free}]
      BY <1>16, LockTypes DEF AuthorizationLost
    <2>5. SystemTypes'
      BY <1>16, <2>3, <2>4 DEF AuthorizationLost, TypeInv, SystemTypes
    <2>6. CallTypes'
      BY <1>16, <2>3, FinishTypes DEF AuthorizationLost, Results
    <2>7. QED
      BY <2>5, <2>6 DEF TypeInv
  <1>17. CASE CallbackSave(c)
    <2>1. UNCHANGED <<grantOf, live, revoked, refused>> /\ Tokens' = Tokens
      BY <1>17 DEF CallbackSave, intuit, Tokens
    <2>2. holder' \in [Instances -> Calls \cup {Free}]
      BY <1>17, LockTypes DEF CallbackSave
    <2>3. SystemTypes'
      BY <1>17, <2>1, <2>2 DEF CallbackSave, TypeInv, SystemTypes, CallTypes, HoldsToken
    <2>4. CallTypes'
      BY <1>17, <2>1, FinishTypes DEF CallbackSave, Results
    <2>5. QED
      BY <2>3, <2>4 DEF TypeInv
  <1>18. CASE CallbackSaveFails(c)
    <2>1. UNCHANGED <<grantOf, live, revoked, refused>> /\ Tokens' = Tokens
      BY <1>18 DEF CallbackSaveFails, intuit, Tokens
    <2>2. holder' \in [Instances -> Calls \cup {Free}]
      BY <1>18, LockTypes DEF CallbackSaveFails
    <2>3. SystemTypes'
      BY <1>18, <2>1, <2>2 DEF CallbackSaveFails, TypeInv, SystemTypes, CallTypes, HoldsToken
    <2>4. CallTypes'
      BY <1>18, <2>1, FinishTypes DEF CallbackSaveFails, Results
    <2>5. QED
      BY <2>3, <2>4 DEF TypeInv
  <1>19. CASE NothingToDisconnect(c)
    <2>1. UNCHANGED <<grantOf, live, revoked, refused>> /\ Tokens' = Tokens
      BY <1>19 DEF NothingToDisconnect, intuit, Tokens
    <2>2. holder' \in [Instances -> Calls \cup {Free}]
      BY <1>19, LockTypes DEF NothingToDisconnect, Release
    <2>3. SystemTypes'
      BY <1>19, <2>1, <2>2 DEF NothingToDisconnect, TypeInv, SystemTypes
    <2>4. CallTypes'
      BY <1>19, <2>1, FinishTypes DEF NothingToDisconnect, Results
    <2>5. QED
      BY <2>3, <2>4 DEF TypeInv
  <1>20. CASE DisconnectLoad(c)
    <2>1. UNCHANGED <<grantOf, live, revoked, refused>> /\ Tokens' = Tokens
      BY <1>20 DEF DisconnectLoad, intuit, Tokens
    <2>2. holder' \in [Instances -> Calls \cup {Free}]
      BY <1>20, LockTypes DEF DisconnectLoad
    <2>3. SystemTypes'
      BY <1>20, <2>1, <2>2 DEF DisconnectLoad, TypeInv, SystemTypes
    <2>4. /\ cached' \in [Calls -> Tokens' \cup {None}]
         /\ hand' \in [Calls -> Tokens' \cup {None}]
         /\ sends' \in [Calls -> 0 .. 1]
         /\ \A d \in Calls \ {c} : hand'[d] = hand[d]
         /\ hand'[c] \in Tokens'
      BY <1>20, <2>1 DEF DisconnectLoad, TypeInv, SystemTypes, CallTypes, None, intuit
    <2>5. CallTypes'
      BY <1>20, <2>1, <2>4, GotoTypes DEF DisconnectLoad, Locations
    <2>6. QED
      BY <2>3, <2>5 DEF TypeInv
  <1>21. CASE Revoke(c)
    <2>1. hand[c] \in Tokens /\ grantOf[hand[c]] \in Nat
      BY <1>21, GrantOfToken DEF Revoke, TypeInv, CallTypes, HoldsToken
    <2>2. /\ grantOf' = grantOf /\ refused' = refused /\ Tokens' = Tokens
         /\ revoked' \subseteq Nat /\ live' \subseteq Tokens'
      BY <1>21, <2>1 DEF Revoke, EndGrant, TypeInv, SystemTypes, Tokens
    <2>3. holder' \in [Instances -> Calls \cup {Free}]
      BY <1>21, LockTypes DEF Revoke
    <2>4. SystemTypes'
      BY <1>21, <2>2, <2>3 DEF Revoke, TypeInv, SystemTypes, CallTypes, HoldsToken
    <2>5. /\ cached' \in [Calls -> Tokens' \cup {None}]
         /\ hand' \in [Calls -> Tokens' \cup {None}]
         /\ sends' \in [Calls -> 0 .. 1]
         /\ \A d \in Calls \ {c} : hand'[d] = hand[d]
      BY <1>21, <2>2 DEF Revoke, TypeInv, SystemTypes, CallTypes, None, client
    <2>6. CallTypes'
      BY <1>21, <2>2, <2>5, GotoTypes DEF Revoke, Locations
    <2>7. QED
      BY <2>4, <2>6 DEF TypeInv
  <1>22. CASE RevokeFails(c)
    <2>1. UNCHANGED <<grantOf, live, revoked, refused>> /\ Tokens' = Tokens
      BY <1>22 DEF RevokeFails, intuit, Tokens
    <2>2. holder' \in [Instances -> Calls \cup {Free}]
      BY <1>22, LockTypes DEF RevokeFails, Release
    <2>3. SystemTypes'
      BY <1>22, <2>1, <2>2 DEF RevokeFails, TypeInv, SystemTypes, CallTypes, HoldsToken
    <2>4. CallTypes'
      BY <1>22, <2>1, FinishTypes DEF RevokeFails, Results
    <2>5. QED
      BY <2>3, <2>4 DEF TypeInv
  <1>23. CASE RevocationLost(c)
    <2>1. hand[c] \in Tokens /\ grantOf[hand[c]] \in Nat
      BY <1>23, GrantOfToken DEF RevocationLost, TypeInv, CallTypes, HoldsToken
    <2>2. /\ grantOf' = grantOf /\ refused' = refused /\ Tokens' = Tokens
         /\ revoked' \subseteq Nat /\ live' \subseteq Tokens'
      BY <1>23, <2>1 DEF RevocationLost, EndGrant, TypeInv, SystemTypes, Tokens
    <2>3. holder' \in [Instances -> Calls \cup {Free}]
      BY <1>23, LockTypes DEF RevocationLost, Release
    <2>4. SystemTypes'
      BY <1>23, <2>2, <2>3 DEF RevocationLost, TypeInv, SystemTypes, CallTypes, HoldsToken
    <2>5. CallTypes'
      BY <1>23, <2>2, FinishTypes DEF RevocationLost, Results
    <2>6. QED
      BY <2>4, <2>5 DEF TypeInv
  <1>24. CASE Clear(c)
    <2>1. UNCHANGED <<grantOf, live, revoked, refused>> /\ Tokens' = Tokens
      BY <1>24 DEF Clear, intuit, Tokens
    <2>2. holder' \in [Instances -> Calls \cup {Free}]
      BY <1>24, LockTypes DEF Clear, Release
    <2>3. SystemTypes'
      BY <1>24, <2>1, <2>2 DEF Clear, TypeInv, SystemTypes
    <2>4. CallTypes'
      BY <1>24, <2>1, FinishTypes DEF Clear, Results
    <2>5. QED
      BY <2>3, <2>4 DEF TypeInv
  <1>25. CASE ClearFails(c)
    <2>1. UNCHANGED <<grantOf, live, revoked, refused>> /\ Tokens' = Tokens
      BY <1>25 DEF ClearFails, intuit, Tokens
    <2>2. holder' \in [Instances -> Calls \cup {Free}]
      BY <1>25, LockTypes DEF ClearFails, Release
    <2>3. SystemTypes'
      BY <1>25, <2>1, <2>2 DEF ClearFails, TypeInv, SystemTypes
    <2>4. CallTypes'
      BY <1>25, <2>1, FinishTypes DEF ClearFails, Results
    <2>5. QED
      BY <2>3, <2>4 DEF TypeInv
  <1>26. CASE NetworkFails(c)
    <2>1. UNCHANGED <<grantOf, live, revoked, refused>> /\ Tokens' = Tokens
      BY <1>26 DEF NetworkFails, intuit, Tokens
    <2>2. holder' \in [Instances -> Calls \cup {Free}]
      BY <1>26, LockTypes DEF NetworkFails, Release
    <2>3. SystemTypes'
      BY <1>26, <2>1, <2>2 DEF NetworkFails, TypeInv, SystemTypes
    <2>4. CallTypes'
      BY <1>26, <2>1, FinishTypes DEF NetworkFails, Results
    <2>5. QED
      BY <2>3, <2>4 DEF TypeInv
  <1>27. QED
    BY <1>1, <1>2, <1>3, <1>4, <1>5, <1>6, <1>7, <1>8, <1>9, <1>10, <1>11, <1>12, <1>13, <1>14, <1>15, <1>16, <1>17, <1>18, <1>19, <1>20, <1>21, <1>22, <1>23, <1>24, <1>25, <1>26
    DEF Step, RequestStep, RefreshStep, CallbackStep, DisconnectStep

\* No step breaks the types.
LEMMA NextType == TypeInv /\ [Next]_vars => TypeInv'
  <1> SUFFICES ASSUME TypeInv, [Next]_vars PROVE TypeInv'
    OBVIOUS
  <1>1. ASSUME NEW t \in Tokens, Expire(t) PROVE TypeInv'
    BY <1>1 DEF Expire, intuit, client, TypeInv, SystemTypes, CallTypes,
                HoldsToken, Tokens
  <1>2. ASSUME NEW t \in Tokens, Withdraw(t) PROVE TypeInv'
    BY <1>2 DEF Withdraw, client, TypeInv, SystemTypes, CallTypes, HoldsToken,
                Tokens
  <1>3. ASSUME NEW i \in Instances, Crash(i) PROVE TypeInv'
    <2>1. UNCHANGED <<grantOf, live, revoked, refused, expired, store>>
          /\ Tokens' = Tokens
      BY <1>3 DEF Crash, intuit, Tokens
    <2>2. lost' \subseteq Tokens /\ holder' \in [Instances -> Calls \cup {Free}]
      BY <1>3 DEF Crash, Aboard, TypeInv, SystemTypes, CallTypes, HoldsToken
    <2>3. CallTypes'
      BY <1>3, <2>1 DEF Crash, TypeInv, CallTypes, HoldsToken, Locations, Results
    <2>4. QED
      BY <2>1, <2>2, <2>3 DEF TypeInv, SystemTypes
  <1>4. CASE UNCHANGED vars
    BY <1>4 DEF vars, TypeInv, SystemTypes, CallTypes, HoldsToken, Tokens
  <1>5. QED
    BY StepType, <1>1, <1>2, <1>3, <1>4 DEF Next, AllDone

\* Every state has the types of TypeOK.
THEOREM TypeCorrect == Spec => []TypeOK
  <1>1. TypeInv => TypeOK
    BY DEF TypeInv, SystemTypes, CallTypes, TypeOK
  <1>2. QED
    BY <1>1, InitType, NextType, PTL DEF Spec
---------------------------------------------------------------------------

\* One step of call c moves it to location l and leaves the lock in accord:
\* it stays outside, stays inside, leaves or enters the critical section.
LEMMA LockStep ==
  ASSUME TypeInv, LockHeldInCritical, NEW c \in Calls, NEW l \in Locations,
         pc' = [pc EXCEPT ![c] = l],
         \/ pc[c] \notin Critical /\ l \notin Critical /\ UNCHANGED holder
         \/ pc[c] \in Critical /\ l \in Critical /\ UNCHANGED holder
         \/ pc[c] \in Critical /\ l \notin Critical /\ Release(c)
         \/ /\ pc[c] \notin Critical /\ l \in Critical
            /\ holder[On[c]] = Free /\ holder' = [holder EXCEPT ![On[c]] = c]
  PROVE  LockHeldInCritical'
  <1>1. /\ pc'[c] = l /\ \A d \in Calls \ {c} : pc'[d] = pc[d]
        /\ \A d \in Calls : On[d] \in Instances /\ d # Free
        /\ holder \in [Instances -> Calls \cup {Free}]
    BY CallsAssumption DEF TypeInv, SystemTypes, CallTypes
  <1>2. CASE UNCHANGED holder /\ (pc[c] \in Critical <=> l \in Critical)
    BY <1>1, <1>2 DEF LockHeldInCritical
  <1>3. CASE pc[c] \in Critical /\ l \notin Critical /\ Release(c)
    <2>1. holder[On[c]] = c /\ holder' = [holder EXCEPT ![On[c]] = Free]
      BY <1>3 DEF LockHeldInCritical, Release
    <2>2. \A d \in Calls \ {c} : holder'[On[d]] = d <=> holder[On[d]] = d
      BY <1>1, <2>1
    <2>3. QED
      BY <1>1, <1>3, <2>1, <2>2 DEF LockHeldInCritical
  <1>4. CASE /\ pc[c] \notin Critical /\ l \in Critical
             /\ holder[On[c]] = Free /\ holder' = [holder EXCEPT ![On[c]] = c]
    <2>1. \A d \in Calls \ {c} : holder'[On[d]] = d <=> holder[On[d]] = d
      BY <1>1, <1>4
    <2>2. QED
      BY <1>1, <1>4, <2>1 DEF LockHeldInCritical
  <1>5. QED
    BY <1>2, <1>3, <1>4

LEMMA StepLock ==
  ASSUME TypeInv, LockHeldInCritical, NEW c \in Calls, Step(c)
  PROVE  LockHeldInCritical'
  <1>1. CASE Load(c)
    BY <1>1, LockStep DEF Load, Finish, Goto, Critical, Locations
  <1>2. CASE LoadFails(c)
    BY <1>2, LockStep DEF LoadFails, Finish, Critical, Locations
  <1>3. CASE CheckExpiry(c)
    BY <1>3, LockStep DEF CheckExpiry, Finish, Goto, Resume, Critical, Locations
  <1>4. CASE Accepted(c)
    BY <1>4, LockStep DEF Accepted, Finish, Critical, Locations
  <1>5. CASE Unauthorized(c)
    BY <1>5, LockStep DEF Unauthorized, Finish, Goto, Critical, Locations
  <1>6. CASE AcquireLock(c)
    BY <1>6, LockStep DEF AcquireLock, Goto, Critical, Locations
  <1>7. CASE Adopt(c)
    BY <1>7, LockStep DEF Adopt, Finish, Goto, Resume, Critical, Locations
  <1>8. CASE ChooseSource(c)
    BY <1>8, LockStep DEF ChooseSource, Goto, Critical, Locations
  <1>9. CASE Rotate(c)
    BY <1>9, LockStep DEF Rotate, Goto, Critical, Locations
  <1>10. CASE RefreshFails(c)
    BY <1>10, LockStep DEF RefreshFails, Finish, Critical, Locations
  <1>11. CASE RotationLost(c)
    BY <1>11, LockStep DEF RotationLost, Finish, Critical, Locations
  <1>12. CASE Save(c)
    BY <1>12, LockStep DEF Save, Finish, Goto, Resume, Critical, Locations
  <1>13. CASE SaveFails(c)
    BY <1>13, LockStep DEF SaveFails, Finish, Critical, Locations
  <1>14. CASE Authorize(c)
    BY <1>14, LockStep DEF Authorize, Goto, Critical, Locations
  <1>15. CASE AuthorizeFails(c)
    BY <1>15, LockStep DEF AuthorizeFails, Finish, Critical, Locations
  <1>16. CASE AuthorizationLost(c)
    BY <1>16, LockStep DEF AuthorizationLost, Finish, Critical, Locations
  <1>17. CASE CallbackSave(c)
    BY <1>17, LockStep DEF CallbackSave, Finish, Critical, Locations
  <1>18. CASE CallbackSaveFails(c)
    BY <1>18, LockStep DEF CallbackSaveFails, Finish, Critical, Locations
  <1>19. CASE NothingToDisconnect(c)
    BY <1>19, LockStep DEF NothingToDisconnect, Finish, Critical, Locations
  <1>20. CASE DisconnectLoad(c)
    BY <1>20, LockStep DEF DisconnectLoad, Goto, Critical, Locations
  <1>21. CASE Revoke(c)
    BY <1>21, LockStep DEF Revoke, Goto, Critical, Locations
  <1>22. CASE RevokeFails(c)
    BY <1>22, LockStep DEF RevokeFails, Finish, Critical, Locations
  <1>23. CASE RevocationLost(c)
    BY <1>23, LockStep DEF RevocationLost, Finish, Critical, Locations
  <1>24. CASE Clear(c)
    BY <1>24, LockStep DEF Clear, Finish, Critical, Locations
  <1>25. CASE ClearFails(c)
    BY <1>25, LockStep DEF ClearFails, Finish, Critical, Locations
  <1>26. CASE NetworkFails(c)
    BY <1>26, LockStep DEF NetworkFails, Finish, Critical, Locations
  <1>27. QED
    BY <1>1, <1>2, <1>3, <1>4, <1>5, <1>6, <1>7, <1>8, <1>9, <1>10, <1>11, <1>12, <1>13, <1>14, <1>15, <1>16, <1>17, <1>18, <1>19, <1>20, <1>21, <1>22, <1>23, <1>24, <1>25, <1>26
    DEF Step, RequestStep, RefreshStep, CallbackStep, DisconnectStep

\* The lock of every instance is held by exactly the call inside its critical
\* section, on every path: see LockHeldInCritical.
THEOREM LockDiscipline == Spec => []LockHeldInCritical
  <1>1. Init => LockHeldInCritical
    <2> SUFFICES ASSUME Init, NEW c \in Calls
                 PROVE  pc[c] \notin Critical /\ holder[On[c]] # c
      BY DEF LockHeldInCritical
    <2>1. holder[On[c]] = Free /\ c # Free
      BY CallsAssumption DEF Init
    <2>2. pc[c] \in {"load", "lock", "exchange", "done"}
      BY DEF Init, Entry
    <2>3. QED
      BY <2>1, <2>2 DEF Critical
  <1>2. TypeInv /\ LockHeldInCritical /\ [Next]_vars => LockHeldInCritical'
    <2> SUFFICES ASSUME TypeInv, LockHeldInCritical, [Next]_vars
                 PROVE  LockHeldInCritical'
      OBVIOUS
    <2>1. ASSUME NEW t, Expire(t) \/ Withdraw(t) PROVE LockHeldInCritical'
      BY <2>1 DEF Expire, Withdraw, LockHeldInCritical
    <2>2. ASSUME NEW i \in Instances, Crash(i) PROVE LockHeldInCritical'
      BY <2>2, CallsAssumption
      DEF Crash, Aboard, Entry, Critical, LockHeldInCritical, TypeInv,
          SystemTypes, CallTypes
    <2>3. CASE UNCHANGED vars
      BY <2>3 DEF vars, LockHeldInCritical
    <2>4. QED
      BY StepLock, <2>1, <2>2, <2>3 DEF Next, AllDone
  <1>3. QED
    BY <1>1, <1>2, InitType, NextType, PTL DEF Spec

---------------------------------------------------------------------------
(***************************************************************************)
(* The fleet: TokenLifecycle when no callback runs, the time between two   *)
(* authorizations, with any number of instances, requests and disconnects. *)
(* There is one grant, and its tokens form a chain in which only the       *)
(* newest can be live.  The refresh token itself is what keeps the         *)
(* instances apart: Intuit accepts it once.                                *)
(***************************************************************************)
Newest == Len(grantOf)

\* No call is an authorization callback.
NoCallbacks == \A c \in Calls : Kind[c] # "callback"

OneGrant == \A t \in Tokens : grantOf[t] = 1

NoCallbackRuns == \A c \in Calls : pc[c] \notin {"exchange", "callback_save"}

OnlyNewestLives == live \subseteq {Newest}

\* The token a call is about to save is the newest, and nobody else has it.
SaverHoldsNewest ==
    \A c \in Calls : pc[c] = "save" =>
        /\ hand[c] = Newest
        /\ store # Newest
        /\ \A d \in Calls : cached[d] # Newest /\ (d # c => hand[d] # Newest)

\* The connection is over once its grant is revoked: nothing lives, and
\* unless Intuit honours stale revocations nobody is about to save.
Over == store = None \/ \E c \in Calls : pc[c] = "clear"
OverMeansDead ==
    Over => /\ live = {}
            /\ "stale_revoke" \notin Faults => \A c \in Calls : pc[c] # "save"

FleetInv ==
    /\ OneGrant
    /\ NoCallbackRuns
    /\ OnlyNewestLives
    /\ SaverHoldsNewest
    /\ OverMeansDead
    /\ NoStrandedGrant

LEMMA InitFleet == NoCallbacks /\ Init => FleetInv
  <1> SUFFICES ASSUME NoCallbacks, Init PROVE FleetInv
    OBVIOUS
  <1>1. \/ grantOf = <<>> /\ Len(grantOf) = 0 /\ Tokens = {}
        \/ grantOf = <<1>> /\ Len(grantOf) = 1 /\ Tokens = {1}
    <2>1. CASE grantOf = <<>>
      BY <2>1 DEF Tokens
    <2>2. CASE grantOf = <<1>>
      BY <2>2 DEF Tokens
    <2>3. QED
      BY <2>1, <2>2 DEF Init
  <1>2. \A c \in Calls : pc[c] \in {"load", "lock", "done"}
    BY CallsAssumption DEF Init, Entry, NoCallbacks
  <1>3. OneGrant /\ OnlyNewestLives /\ NoStrandedGrant
    BY <1>1 DEF Init, OneGrant, OnlyNewestLives, NoStrandedGrant, Newest
  <1>4. NoCallbackRuns /\ SaverHoldsNewest
    BY <1>2 DEF NoCallbackRuns, SaverHoldsNewest
  <1>5. OverMeansDead
    BY <1>1, <1>2 DEF Init, OverMeansDead, Over, None
  <1>6. QED
    BY <1>3, <1>4, <1>5 DEF FleetInv

\* What is unsaved changes with the calls at "save" only.
LEMMA UnsavedAre ==
  ASSUME NoCallbackRuns
  PROVE  Unsaved = {hand[c] : c \in {d \in Calls : pc[d] = "save"}}
  BY DEF Unsaved, NoCallbackRuns

\* A step that neither reaches nor leaves a save, changes nothing at Intuit or
\* in the store, and only moves the tokens the call can read.
LEMMA QuietStep ==
  ASSUME TypeInv, FleetInv, NEW c \in Calls,
         NEW l \in Locations \ {"save", "clear", "exchange", "callback_save"},
         pc[c] # "save",
         pc' = [pc EXCEPT ![c] = l],
         UNCHANGED <<grantOf, live, store, lost>>,
         \A d \in Calls : cached'[d] \in {cached[d], store, None},
         \A d \in Calls \ {c} : hand'[d] = hand[d],
         hand'[c] \in {hand[c], cached[c], store, None}
  PROVE  FleetInv'
  <1>1. Tokens' = Tokens /\ Newest' = Newest
    BY DEF Tokens, Newest
  <1>2. /\ \A d \in Calls : pc'[d] = "save" <=> pc[d] = "save" /\ d # c
        /\ \A d \in Calls : pc'[d] = "save" => pc[d] = "save" /\ d # c /\ hand'[d] = hand[d]
        /\ \A d \in Calls : pc'[d] = "clear" => pc[d] = "clear"
        /\ pc'[c] = l /\ \A d \in Calls \ {c} : pc'[d] = pc[d]
    BY DEF TypeInv, CallTypes
  <1>3. OneGrant' /\ OnlyNewestLives'
    BY <1>1 DEF FleetInv, OneGrant, OnlyNewestLives
  <1>4. NoCallbackRuns'
    BY <1>2 DEF FleetInv, NoCallbackRuns
  <1>5. SaverHoldsNewest'
    <2> SUFFICES ASSUME NEW e \in Calls, pc'[e] = "save"
                 PROVE  /\ hand'[e] = Newest
                        /\ store # Newest
                        /\ \A d \in Calls : /\ cached'[d] # Newest
                                            /\ d # e => hand'[d] # Newest
      BY <1>1 DEF SaverHoldsNewest
    <2>1. pc[e] = "save" /\ e # c /\ hand'[e] = hand[e]
      BY <1>2
    <2>2. /\ hand[e] = Newest /\ store # Newest
          /\ \A d \in Calls : cached[d] # Newest /\ (d # e => hand[d] # Newest)
      BY <2>1 DEF FleetInv, SaverHoldsNewest
    <2>3. hand[e] # None
      BY <2>1 DEF TypeInv, CallTypes, HoldsToken, Tokens, None
    <2>4. QED
      BY <2>1, <2>2, <2>3
  <1>6. OverMeansDead'
    BY <1>2 DEF FleetInv, OverMeansDead, Over
  <1>7. Unsaved' = Unsaved
    <2>1. {d \in Calls : pc'[d] = "save"} = {d \in Calls : pc[d] = "save"}
      BY <1>2
    <2>2. \A d \in Calls : pc[d] = "save" => hand'[d] = hand[d]
      BY <1>2
    <2>3. QED
      BY <1>4, <2>1, <2>2, UnsavedAre DEF FleetInv, Unsaved, NoCallbackRuns
  <1>8. NoStrandedGrant'
    BY <1>7 DEF FleetInv, NoStrandedGrant
  <1>9. QED
    BY <1>3, <1>4, <1>5, <1>6, <1>8 DEF FleetInv

\* The exchange of the live token leaves one live token: the new one.
LEMMA RotationFacts ==
  ASSUME TypeInv, FleetInv, NEW c \in Calls,
         pc[c] = "refresh", hand[c] \in live, Issue(grantOf[hand[c]], {hand[c]})
  PROVE  /\ Newest \in Nat /\ Newest' = Newest + 1
         /\ hand[c] = Newest
         /\ live' = {Newest + 1}
         /\ OneGrant'
         /\ ~Over
         /\ \A d \in Calls : pc[d] # "save"
  <1>1. /\ hand[c] \in Tokens /\ hand[c] = Newest /\ live = {Newest}
    BY DEF FleetInv, OnlyNewestLives, TypeInv, SystemTypes
  <1>2. /\ grantOf \in Seq(Nat \ {0}) /\ grantOf' = Append(grantOf, 1)
        /\ live' = {Newest + 1} /\ Newest \in Nat
    BY <1>1, GrantOfToken
    DEF FleetInv, OneGrant, Issue, TypeInv, SystemTypes, Newest
  <1>3. Len(grantOf') = Len(grantOf) + 1
    BY <1>2, AppendProperties, 1 \in Nat \ {0}
  <1>4. OneGrant'
    <2> SUFFICES ASSUME NEW t \in 1 .. Len(grantOf) + 1 PROVE grantOf'[t] = 1
      BY <1>3 DEF OneGrant, Tokens
    <2>1. CASE t = Len(grantOf) + 1
      BY <2>1, <1>2, AppendProperties, 1 \in Nat \ {0}
    <2>2. CASE t \in 1 .. Len(grantOf)
      <3>1. grantOf'[t] = grantOf[t]
        BY <2>2, <1>2, AppendProperties, 1 \in Nat \ {0}
      <3>2. QED
        BY <3>1, <2>2 DEF FleetInv, OneGrant, Tokens
    <2>3. QED
      BY <2>1, <2>2, <1>2 DEF Newest
  <1>5. \A d \in Calls : pc[d] # "save"
    BY <1>1 DEF FleetInv, SaverHoldsNewest
  <1>6. ~Over
    BY <1>1 DEF FleetInv, OverMeansDead
  <1>7. QED
    BY <1>1, <1>2, <1>3, <1>4, <1>5, <1>6 DEF Newest

LEMMA RotateFleet ==
  ASSUME TypeInv, FleetInv, NEW c \in Calls, Rotate(c)
  PROVE  FleetInv'
  <1>1. /\ Newest \in Nat /\ Newest' = Newest + 1
        /\ hand[c] = Newest /\ live' = {Newest + 1}
        /\ OneGrant' /\ ~Over /\ \A d \in Calls : pc[d] # "save"
    BY RotationFacts DEF Rotate
  <1>2. /\ pc' = [pc EXCEPT ![c] = "save"] /\ hand' = [hand EXCEPT ![c] = Newest + 1]
        /\ UNCHANGED <<store, cached, lost>>
    BY DEF Rotate, Goto, Newest
  <1>3. /\ pc'[c] = "save" /\ hand'[c] = Newest + 1
        /\ \A d \in Calls \ {c} : pc'[d] = pc[d] /\ hand'[d] = hand[d]
    BY <1>2 DEF TypeInv, CallTypes
  <1>4. /\ \A d \in Calls : cached[d] \in 0 .. Newest /\ hand[d] \in 0 .. Newest
        /\ store \in 0 .. Newest
    BY <1>1 DEF TypeInv, SystemTypes, CallTypes, Tokens, None, Newest
  <1>5. OnlyNewestLives'
    BY <1>1 DEF OnlyNewestLives
  <1>6. NoCallbackRuns'
    BY <1>3 DEF FleetInv, NoCallbackRuns
  <1>7. SaverHoldsNewest'
    BY <1>1, <1>2, <1>3, <1>4 DEF SaverHoldsNewest
  <1>8. OverMeansDead'
    BY <1>1, <1>2, <1>3 DEF OverMeansDead, Over
  <1>9. NoStrandedGrant'
    <2>1. Newest + 1 \in Unsaved'
      BY <1>3 DEF Unsaved
    <2>2. QED
      BY <1>1, <2>1 DEF NoStrandedGrant
  <1>10. QED
    BY <1>1, <1>5, <1>6, <1>7, <1>8, <1>9 DEF FleetInv

LEMMA RotationLostFleet ==
  ASSUME TypeInv, FleetInv, NEW c \in Calls, RotationLost(c)
  PROVE  FleetInv'
  <1>1. /\ Newest \in Nat /\ Newest' = Newest + 1
        /\ live' = {Newest + 1}
        /\ OneGrant' /\ ~Over /\ \A d \in Calls : pc[d] # "save"
    BY RotationFacts DEF RotationLost
  <1>2. /\ pc' = [pc EXCEPT ![c] = "done"] /\ store' = store
        /\ lost' = lost \cup {Newest + 1}
    BY DEF RotationLost, Finish, Newest
  <1>3. pc'[c] = "done" /\ \A d \in Calls \ {c} : pc'[d] = pc[d]
    BY <1>2 DEF TypeInv, CallTypes
  <1>4. OnlyNewestLives'
    BY <1>1 DEF OnlyNewestLives
  <1>5. NoCallbackRuns' /\ SaverHoldsNewest'
    BY <1>1, <1>3 DEF FleetInv, NoCallbackRuns, SaverHoldsNewest
  <1>6. OverMeansDead'
    BY <1>1, <1>2, <1>3 DEF OverMeansDead, Over
  <1>7. NoStrandedGrant'
    BY <1>1, <1>2 DEF NoStrandedGrant
  <1>8. QED
    BY <1>1, <1>4, <1>5, <1>6, <1>7 DEF FleetInv

\* The end of a save, well or badly: nobody else was saving.
LEMMA SaverLeaves ==
  ASSUME TypeInv, FleetInv, NEW c \in Calls, pc[c] = "save",
         NEW l \in {"send", "done"}, pc' = [pc EXCEPT ![c] = l]
  PROVE  /\ hand[c] = Newest /\ store # Newest
         /\ pc'[c] = l /\ \A d \in Calls \ {c} : pc'[d] = pc[d]
         /\ \A d \in Calls : pc'[d] # "save"
         /\ Newest # None
  <1>1. /\ hand[c] = Newest /\ store # Newest
        /\ \A d \in Calls \ {c} : hand[d] # Newest
    BY DEF FleetInv, SaverHoldsNewest
  <1>2. \A d \in Calls \ {c} : pc[d] # "save"
    BY <1>1 DEF FleetInv, SaverHoldsNewest
  <1>3. hand[c] # None
    BY DEF TypeInv, CallTypes, HoldsToken, Tokens, None
  <1>4. QED
    BY <1>1, <1>2, <1>3 DEF TypeInv, CallTypes

LEMMA SaveFleet ==
  ASSUME TypeInv, FleetInv, NEW c \in Calls, Save(c) \/ SaveFails(c)
  PROVE  FleetInv'
  <1>1. PICK l \in {"send", "done"} : pc' = [pc EXCEPT ![c] = l]
    BY DEF Save, SaveFails, Resume, Finish, Goto
  <1>2. /\ pc[c] = "save" /\ UNCHANGED <<grantOf, live>>
        /\ \/ store' = hand[c] /\ lost' = lost
           \/ store' = store /\ lost' = lost \cup {hand[c]}
    BY DEF Save, SaveFails, intuit
  <1>3. /\ hand[c] = Newest /\ store # Newest
        /\ pc'[c] = l /\ \A d \in Calls \ {c} : pc'[d] = pc[d]
        /\ \A d \in Calls : pc'[d] # "save"
        /\ Newest # None
    BY <1>1, <1>2, SaverLeaves
  <1>4. Tokens' = Tokens /\ Newest' = Newest
    BY <1>2 DEF Tokens, Newest
  <1>5. OneGrant' /\ OnlyNewestLives'
    BY <1>2, <1>4 DEF FleetInv, OneGrant, OnlyNewestLives
  <1>6. NoCallbackRuns' /\ SaverHoldsNewest'
    BY <1>3 DEF FleetInv, NoCallbackRuns, SaverHoldsNewest
  <1>7. OverMeansDead'
    BY <1>2, <1>3 DEF FleetInv, OverMeansDead, Over
  <1>8. NoStrandedGrant'
    BY <1>2, <1>3 DEF FleetInv, OnlyNewestLives, NoStrandedGrant
  <1>9. QED
    BY <1>5, <1>6, <1>7, <1>8 DEF FleetInv

\* Revoking any token of the one grant ends everything.
LEMMA RevokeFleet ==
  ASSUME TypeInv, FleetInv, NEW c \in Calls, Revoke(c) \/ RevocationLost(c)
  PROVE  FleetInv'
  <1>1. hand[c] \in Tokens /\ grantOf[hand[c]] = 1
    BY DEF Revoke, RevocationLost, TypeInv, CallTypes, HoldsToken, FleetInv, OneGrant
  <1>2. /\ live' = {} /\ UNCHANGED <<grantOf, store, lost>>
    BY <1>1 DEF Revoke, RevocationLost, EndGrant, FleetInv, OneGrant, TypeInv,
                SystemTypes
  <1>3. Tokens' = Tokens /\ Newest' = Newest
    BY <1>2 DEF Tokens, Newest
  <1>4. PICK l \in {"clear", "done"} : pc' = [pc EXCEPT ![c] = l]
    BY DEF Revoke, RevocationLost, Goto, Finish
  <1>5. /\ pc[c] = "revoke" /\ pc'[c] = l /\ \A d \in Calls \ {c} : pc'[d] = pc[d]
    BY <1>4 DEF TypeInv, CallTypes, Revoke, RevocationLost
  <1>6. \A d \in Calls : cached'[d] \in {cached[d], None} /\ hand'[d] \in {hand[d], None}
                         /\ (d # c => hand'[d] = hand[d])
    BY DEF Revoke, RevocationLost, Finish, client, TypeInv, CallTypes
  <1>7. OneGrant' /\ OnlyNewestLives' /\ NoStrandedGrant'
    BY <1>2, <1>3 DEF FleetInv, OneGrant, OnlyNewestLives, NoStrandedGrant
  <1>8. NoCallbackRuns'
    BY <1>5 DEF FleetInv, NoCallbackRuns
  <1>9. SaverHoldsNewest'
    <2> SUFFICES ASSUME NEW e \in Calls, pc'[e] = "save"
                 PROVE  /\ hand'[e] = Newest
                        /\ store # Newest
                        /\ \A d \in Calls : /\ cached'[d] # Newest
                                            /\ d # e => hand'[d] # Newest
      BY <1>2, <1>3 DEF SaverHoldsNewest
    <2>1. pc[e] = "save" /\ hand'[e] = hand[e] /\ hand[e] # None
      BY <1>5, <1>6 DEF TypeInv, CallTypes, HoldsToken, Tokens, None
    <2>2. QED
      BY <2>1, <1>6 DEF FleetInv, SaverHoldsNewest
  <1>10. OverMeansDead'
    <2>1. ASSUME "stale_revoke" \notin Faults, NEW d \in Calls PROVE pc'[d] # "save"
      <3>1. hand[c] \in live
        BY <2>1 DEF Revoke, RevocationLost, Honours
      <3>2. hand[c] = Newest
        BY <3>1 DEF FleetInv, OnlyNewestLives
      <3>3. pc[d] # "save"
        BY <3>2, <1>5 DEF FleetInv, SaverHoldsNewest
      <3>4. QED
        BY <3>3, <1>5
    <2>2. QED
      BY <2>1, <1>2 DEF OverMeansDead
  <1>11. QED
    BY <1>7, <1>8, <1>9, <1>10 DEF FleetInv

LEMMA ClearFleet ==
  ASSUME TypeInv, FleetInv, NEW c \in Calls, Clear(c)
  PROVE  FleetInv'
  <1>1. /\ pc[c] = "clear" /\ pc' = [pc EXCEPT ![c] = "done"] /\ store' = None
        /\ UNCHANGED <<grantOf, live, lost>>
    BY DEF Clear, Finish, intuit
  <1>2. /\ live = {}
        /\ "stale_revoke" \notin Faults => \A d \in Calls : pc[d] # "save"
    BY <1>1 DEF FleetInv, OverMeansDead, Over
  <1>3. Tokens' = Tokens /\ Newest' = Newest
    BY <1>1 DEF Tokens, Newest
  <1>4. pc'[c] = "done" /\ \A d \in Calls \ {c} : pc'[d] = pc[d]
    BY <1>1 DEF TypeInv, CallTypes
  <1>5. \A d \in Calls : cached'[d] \in {cached[d], None} /\ hand'[d] \in {hand[d], None}
                         /\ (d # c => hand'[d] = hand[d])
    BY DEF Clear, Finish, TypeInv, CallTypes
  <1>6. OneGrant' /\ OnlyNewestLives' /\ NoStrandedGrant' /\ OverMeansDead'
    BY <1>1, <1>2, <1>3, <1>4
    DEF FleetInv, OneGrant, OnlyNewestLives, NoStrandedGrant, OverMeansDead
  <1>7. NoCallbackRuns'
    BY <1>4 DEF FleetInv, NoCallbackRuns
  <1>8. SaverHoldsNewest'
    <2> SUFFICES ASSUME NEW e \in Calls, pc'[e] = "save"
                 PROVE  /\ hand'[e] = Newest
                        /\ None # Newest
                        /\ \A d \in Calls : /\ cached'[d] # Newest
                                            /\ d # e => hand'[d] # Newest
      BY <1>1, <1>3 DEF SaverHoldsNewest
    <2>1. pc[e] = "save" /\ hand'[e] = hand[e] /\ hand[e] # None
      BY <1>4, <1>5 DEF TypeInv, CallTypes, HoldsToken, Tokens, None
    <2>2. QED
      BY <2>1, <1>5 DEF FleetInv, SaverHoldsNewest
  <1>9. QED
    BY <1>6, <1>7, <1>8 DEF FleetInv

\* No step of a call breaks the invariant.
LEMMA StepFleet ==
  ASSUME TypeInv, FleetInv, NEW c \in Calls, Step(c)
  PROVE  FleetInv'
  <1>1. CASE Load(c)
    BY <1>1, QuietStep DEF Load, Goto, Finish, intuit, Locations,
       TypeInv, CallTypes
  <1>2. CASE LoadFails(c)
    BY <1>2, QuietStep DEF LoadFails, Finish, intuit, Locations,
       TypeInv, CallTypes
  <1>3. CASE CheckExpiry(c)
    BY <1>3, QuietStep DEF CheckExpiry, Goto, Resume, Finish, intuit, client, Locations,
       TypeInv, CallTypes
  <1>4. CASE Accepted(c)
    BY <1>4, QuietStep DEF Accepted, Finish, intuit, Locations,
       TypeInv, CallTypes
  <1>5. CASE Unauthorized(c)
    BY <1>5, QuietStep DEF Unauthorized, Goto, Finish, intuit, Locations,
       TypeInv, CallTypes
  <1>6. CASE AcquireLock(c)
    BY <1>6, QuietStep DEF AcquireLock, Goto, intuit, client, Locations,
       TypeInv, CallTypes
  <1>7. CASE Adopt(c)
    BY <1>7, QuietStep DEF Adopt, Resume, Goto, Finish, intuit, Locations,
       TypeInv, CallTypes
  <1>8. CASE ChooseSource(c)
    BY <1>8, QuietStep DEF ChooseSource, Goto, intuit, Locations,
       TypeInv, CallTypes
  <1>9. CASE RefreshFails(c)
    BY <1>9, QuietStep DEF RefreshFails, Finish, intuit, Locations,
       TypeInv, CallTypes
  <1>10. CASE NothingToDisconnect(c)
    BY <1>10, QuietStep DEF NothingToDisconnect, Finish, intuit, Locations,
       TypeInv, CallTypes
  <1>11. CASE DisconnectLoad(c)
    BY <1>11, QuietStep DEF DisconnectLoad, Goto, intuit, Locations,
       TypeInv, CallTypes
  <1>12. CASE RevokeFails(c)
    BY <1>12, QuietStep DEF RevokeFails, Finish, intuit, Locations,
       TypeInv, CallTypes
  <1>13. CASE ClearFails(c)
    BY <1>13, QuietStep DEF ClearFails, Finish, intuit, Locations,
       TypeInv, CallTypes
  <1>14. CASE NetworkFails(c)
    BY <1>14, QuietStep DEF NetworkFails, Finish, intuit, Locations,
       TypeInv, CallTypes
  <1>15. ASSUME CallbackStep(c) PROVE FALSE
    BY <1>15
    DEF CallbackStep, Authorize, AuthorizeFails, AuthorizationLost, CallbackSave,
        CallbackSaveFails, FleetInv, NoCallbackRuns
  <1>16. QED
    BY <1>1, <1>2, <1>3, <1>4, <1>5, <1>6, <1>7, <1>8, <1>9, <1>10, <1>11, <1>12, <1>13, <1>14, <1>15,
       RotateFleet, RotationLostFleet, SaveFleet, RevokeFleet, ClearFleet
    DEF Step, RequestStep, RefreshStep, DisconnectStep

\* No step breaks the invariant.
LEMMA NextFleet == TypeInv /\ FleetInv /\ [Next]_vars => FleetInv'
  <1> SUFFICES ASSUME TypeInv, FleetInv, [Next]_vars PROVE FleetInv'
    OBVIOUS
  <1>1. CASE UNCHANGED <<grantOf, live, store, pc, cached, hand, lost>>
    BY <1>1
    DEF FleetInv, OneGrant, NoCallbackRuns, OnlyNewestLives, SaverHoldsNewest,
        OverMeansDead, Over, NoStrandedGrant, Unsaved, Tokens, Newest
  <1>2. ASSUME NEW t, Expire(t) \/ Withdraw(t) PROVE FleetInv'
    BY <1>1, <1>2 DEF Expire, Withdraw, intuit, client
  <1>3. ASSUME NEW i \in Instances, Crash(i) PROVE FleetInv'
    <2>1. UNCHANGED <<grantOf, live, store>>
      BY <1>3 DEF Crash, intuit
    <2>2. \A d \in Calls :
            /\ d \in Aboard(i) => pc'[d] = "done" /\ hand'[d] = None /\ cached'[d] = None
            /\ d \notin Aboard(i) => /\ pc'[d] = pc[d] /\ hand'[d] = hand[d]
                                     /\ cached'[d] = cached[d]
      BY <1>3 DEF Crash
    <2>3. Tokens' = Tokens /\ Newest' = Newest
      BY <2>1 DEF Tokens, Newest
    <2>4. OneGrant' /\ OnlyNewestLives'
      BY <2>1, <2>3 DEF FleetInv, OneGrant, OnlyNewestLives
    <2>5. NoCallbackRuns' /\ OverMeansDead'
      BY <2>1, <2>2 DEF FleetInv, NoCallbackRuns, OverMeansDead, Over
    <2>6. SaverHoldsNewest'
      <3> SUFFICES ASSUME NEW e \in Calls, pc'[e] = "save"
                   PROVE  /\ hand'[e] = Newest
                          /\ store # Newest
                          /\ \A d \in Calls : /\ cached'[d] # Newest
                                              /\ d # e => hand'[d] # Newest
        BY <2>1, <2>3 DEF SaverHoldsNewest
      <3>1. pc[e] = "save" /\ hand'[e] = hand[e] /\ hand[e] # None
        BY <2>2 DEF TypeInv, CallTypes, HoldsToken, Tokens, None
      <3>2. QED
        BY <2>2, <3>1 DEF FleetInv, SaverHoldsNewest
    <2>7. Unsaved \subseteq Unsaved' \cup lost'
      <3> SUFFICES ASSUME NEW d \in Calls, pc[d] \in {"save", "callback_save"}
                   PROVE  hand[d] \in Unsaved' \cup lost'
        BY DEF Unsaved
      <3>1. CASE d \in Aboard(i)
        BY <3>1, <1>3 DEF Crash
      <3>2. CASE d \notin Aboard(i)
        BY <3>2, <2>2 DEF Unsaved
      <3>3. QED
        BY <3>1, <3>2
    <2>8. lost \subseteq lost'
      BY <1>3 DEF Crash
    <2>9. NoStrandedGrant'
      BY <2>1, <2>7, <2>8 DEF FleetInv, NoStrandedGrant
    <2>10. QED
      BY <2>4, <2>5, <2>6, <2>9 DEF FleetInv
  <1>4. QED
    BY StepFleet, <1>1, <1>2, <1>3 DEF Next, AllDone, vars

\* Between two authorizations no live refresh token is ever stranded, in a
\* fleet of any size: it is stored, about to be stored, or dropped by a fault.
THEOREM GrantNeverStranded ==
  ASSUME NoCallbacks
  PROVE  Spec => []NoStrandedGrant
  <1>1. Init => FleetInv
    BY InitFleet
  <1>2. FleetInv => NoStrandedGrant
    BY DEF FleetInv
  <1>3. QED
    BY <1>1, <1>2, InitType, NextType, NextFleet, PTL DEF Spec

\* ... and what disconnect wipes from the store is dead at Intuit.
THEOREM ClearIsSafe ==
  ASSUME NoCallbacks
  PROVE  Spec => []ClearWipesNothingLive
  <1>1. Init => FleetInv
    BY InitFleet
  <1>2. FleetInv => ClearWipesNothingLive
    BY DEF FleetInv, OverMeansDead, Over, ClearWipesNothingLive
  <1>3. QED
    BY <1>1, <1>2, InitType, NextType, NextFleet, PTL DEF Spec

\* A disconnected fleet stays disconnected: no refresh on any instance brings a
\* token back, when Intuit refuses to revoke what was already rotated away.
THEOREM StaysDisconnected ==
  ASSUME NoCallbacks, "stale_revoke" \notin Faults
  PROVE  Spec => OnlyCallbackConnects
  <1>1. Init => FleetInv
    BY InitFleet
  <1>2. TypeInv /\ FleetInv /\ [Next]_vars
          => [store = None /\ store' # None =>
                \/ \E c \in Calls : pc[c] = "callback_save"
                \/ \E t \in Tokens : grantOf[t] # grantOf[store']]_vars
    <2> SUFFICES ASSUME FleetInv, [Next]_vars, store = None PROVE store' = None
      OBVIOUS
    <2>1. \A c \in Calls : pc[c] \notin {"save", "callback_save"}
      BY DEF FleetInv, OverMeansDead, Over, NoCallbackRuns
    <2>2. ASSUME NEW c \in Calls, Step(c) PROVE store' = None
      BY <2>1, <2>2
      DEF Step, RequestStep, RefreshStep, CallbackStep, DisconnectStep,
          Load, LoadFails, CheckExpiry, Accepted, Unauthorized, AcquireLock,
          Adopt, ChooseSource, Rotate, RefreshFails, RotationLost, Save,
          SaveFails, Authorize, AuthorizeFails, AuthorizationLost,
          CallbackSave, CallbackSaveFails, NothingToDisconnect,
          DisconnectLoad, Revoke, RevokeFails, RevocationLost, Clear,
          ClearFails, NetworkFails
    <2>3. QED
      BY <2>2 DEF Next, AllDone, Expire, Withdraw, Crash, vars
  <1>3. QED
    BY <1>1, <1>2, InitType, NextType, NextFleet, PTL DEF Spec, OnlyCallbackConnects
---------------------------------------------------------------------------
(***************************************************************************)
(* One instance: its lock keeps the refreshes and the disconnects apart.   *)
(***************************************************************************)
OneInstance == \A c, d \in Calls : On[c] = On[d]

\* With one instance, the calls in a critical section are one call at most.
LEMMA SoloCritical ==
  ASSUME OneInstance, LockHeldInCritical, NEW c \in Calls, NEW d \in Calls,
         pc[c] \in Critical, pc[d] \in Critical
  PROVE  c = d
  BY DEF OneInstance, LockHeldInCritical
---------------------------------------------------------------------------
(***************************************************************************)
(* One instance, callbacks too: the fate of the grant that a disconnect    *)
(* finds in the store.  A grant is revoked under the lock, after it was    *)
(* read from the store; so whoever saves a token saves one of a grant that *)
(* is not revoked, and a revoked one is in the store only until the same   *)
(* disconnect clears it, or for ever when it was cut short.                *)
(***************************************************************************)
SomeCut == \E d \in Calls : CutShort(d)

GrantsBounded ==
    /\ \A t \in Tokens : grantOf[t] \in 1 .. Len(grantOf)
    /\ revoked \subseteq 1 .. Len(grantOf)

LiveUnrevoked == \A t \in live : ~Revoked(t)

SavesUnrevoked == \A c \in Calls : pc[c] = "save" => ~Revoked(hand[c])

\* The token of a new authorization is the only one of its grant, and in no
\* other hand, until it is saved.
CallbackIsFresh ==
    \A c \in Calls : pc[c] = "callback_save" =>
        /\ ~Revoked(hand[c]) /\ store # hand[c]
        /\ \A t \in Tokens : grantOf[t] = grantOf[hand[c]] => t = hand[c]
        /\ \A d \in Calls : cached[d] # hand[c] /\ (d # c => hand[d] # hand[c])

StoreExplained ==
    store # None /\ Revoked(store) => SomeCut \/ \E d \in Calls : pc[d] = "clear"

RevokeExplained == \A c \in Calls : pc[c] = "revoke" /\ Revoked(hand[c]) => SomeCut

DisconnectsEnd ==
    \A c \in Calls : /\ pc[c] \in {"revoke", "clear"} => Kind[c] = "disconnect"
                     /\ result[c] # "none" => pc[c] = "done"

FateInv ==
    /\ GrantsBounded /\ LiveUnrevoked /\ SavesUnrevoked /\ CallbackIsFresh
    /\ StoreExplained /\ RevokeExplained /\ DisconnectsEnd

LEMMA InitFate == Init => FateInv
  <1> SUFFICES ASSUME Init PROVE FateInv
    OBVIOUS
  <1>1. \/ grantOf = <<>> /\ Len(grantOf) = 0 /\ Tokens = {}
        \/ grantOf = <<1>> /\ Len(grantOf) = 1 /\ Tokens = {1}
    <2>1. CASE grantOf = <<>>
      BY <2>1 DEF Tokens
    <2>2. CASE grantOf = <<1>>
      BY <2>2 DEF Tokens
    <2> QED BY <2>1, <2>2 DEF Init
  <1>2. \A c \in Calls : pc[c] \in {"load", "lock", "exchange", "done"} /\ result[c] = "none"
    BY DEF Init, Entry
  <1>3. revoked = {}
    BY DEF Init
  <1>4. GrantsBounded
    BY <1>1, <1>3 DEF GrantsBounded
  <1>5. LiveUnrevoked /\ SavesUnrevoked /\ CallbackIsFresh
    BY <1>2, <1>3 DEF LiveUnrevoked, SavesUnrevoked, CallbackIsFresh, Revoked
  <1>6. StoreExplained /\ RevokeExplained /\ DisconnectsEnd
    BY <1>2, <1>3 DEF StoreExplained, RevokeExplained, DisconnectsEnd, Revoked
  <1> QED BY <1>4, <1>5, <1>6 DEF FateInv

\* Call c moves to l, and is answered when that is the end.
Moves(c, l) ==
    /\ pc[c] # "done"
    /\ pc' = [pc EXCEPT ![c] = l]
    /\ \/ l # "done" /\ UNCHANGED result
       \/ l = "done" /\ \E r \in Results : result' = [result EXCEPT ![c] = r]

LEMMA MovesFacts ==
  ASSUME TypeInv, FateInv, NEW c \in Calls, NEW l \in Locations, Moves(c, l)
  PROVE  /\ pc'[c] = l
         /\ \A d \in Calls \ {c} : pc'[d] = pc[d] /\ result'[d] = result[d]
         /\ SomeCut => SomeCut'
         /\ (l \in {"revoke", "clear"} => Kind[c] = "disconnect") => DisconnectsEnd'
  <1>1. /\ pc'[c] = l
        /\ \A d \in Calls \ {c} : pc'[d] = pc[d] /\ result'[d] = result[d]
        /\ l # "done" => result'[c] = result[c]
    BY DEF Moves, TypeInv, CallTypes
  <1>2. result[c] = "none"
    BY DEF Moves, FateInv, DisconnectsEnd
  <1>3. SomeCut => SomeCut'
    BY <1>1, <1>2 DEF SomeCut, CutShort
  <1>4. (l \in {"revoke", "clear"} => Kind[c] = "disconnect") => DisconnectsEnd'
    BY <1>1, <1>2 DEF FateInv, DisconnectsEnd
  <1> QED BY <1>1, <1>3, <1>4

\* A token that a callback is about to save is not None.
LEMMA FreshIsToken ==
  ASSUME TypeInv, NEW c \in Calls, pc[c] = "callback_save"
  PROVE  hand[c] \in Tokens /\ hand[c] # None
  BY DEF TypeInv, CallTypes, HoldsToken, Tokens, None

\* A step that changes nothing at Intuit or in the store, reaches no save and
\* no revocation, and only moves the tokens the call can read.
LEMMA QuietFate ==
  ASSUME TypeInv, FateInv, NEW c \in Calls,
         NEW l \in Locations \ {"save", "callback_save", "revoke", "clear"},
         Moves(c, l), pc[c] = "clear" => CutShort(c)',
         UNCHANGED <<grantOf, live, revoked, store>>,
         \A d \in Calls : cached'[d] \in {cached[d], store, None},
         \A d \in Calls \ {c} : hand'[d] = hand[d],
         hand'[c] \in {hand[c], cached[c], store, None}
  PROVE  FateInv'
  <1>1. /\ pc'[c] = l /\ \A d \in Calls \ {c} : pc'[d] = pc[d]
        /\ SomeCut => SomeCut'
        /\ DisconnectsEnd'
    BY MovesFacts
  <1>2. Tokens' = Tokens /\ \A t : Revoked(t)' = Revoked(t)
    BY DEF Tokens, Revoked
  <1>3. GrantsBounded' /\ LiveUnrevoked' /\ SavesUnrevoked'
    BY <1>1, <1>2 DEF FateInv, GrantsBounded, LiveUnrevoked, SavesUnrevoked, Revoked
  <1>4. CallbackIsFresh'
    <2> SUFFICES ASSUME NEW e \in Calls \ {c}, pc[e] = "callback_save", hand'[e] = hand[e]
                 PROVE  /\ ~Revoked(hand[e]) /\ store # hand[e]
                        /\ \A t \in Tokens : grantOf[t] = grantOf[hand[e]] => t = hand[e]
                        /\ \A d \in Calls : cached'[d] # hand[e] /\ (d # e => hand'[d] # hand[e])
      BY <1>1, <1>2 DEF CallbackIsFresh, Revoked
    <2> QED BY FreshIsToken DEF FateInv, CallbackIsFresh
  <1>5. StoreExplained'
    BY <1>1, <1>2 DEF FateInv, StoreExplained, SomeCut
  <1>6. RevokeExplained'
    BY <1>1, <1>2 DEF FateInv, RevokeExplained, Revoked
  <1> QED BY <1>1, <1>3, <1>4, <1>5, <1>6 DEF FateInv

\* A disconnect takes its token from the store under the lock, where no other
\* disconnect is between its revoke and its clear.
LEMMA DisconnectLoadFate ==
  ASSUME OneInstance, TypeInv, LockHeldInCritical, FateInv, NEW c \in Calls, DisconnectLoad(c)
  PROVE  FateInv'
  <1>1. /\ pc[c] = "locked" /\ Kind[c] = "disconnect" /\ store # None
        /\ Moves(c, "revoke") /\ hand' = [hand EXCEPT ![c] = store]
        /\ UNCHANGED <<grantOf, live, revoked, store, cached>>
    BY DEF DisconnectLoad, Goto, Moves, intuit
  <1>2. /\ pc'[c] = "revoke" /\ \A d \in Calls \ {c} : pc'[d] = pc[d]
        /\ SomeCut => SomeCut'
        /\ DisconnectsEnd'
    BY <1>1, MovesFacts DEF Locations
  <1>3. hand'[c] = store /\ \A d \in Calls \ {c} : hand'[d] = hand[d]
    BY <1>1 DEF TypeInv, CallTypes
  <1>4. Tokens' = Tokens /\ \A t : Revoked(t)' = Revoked(t)
    BY <1>1 DEF Tokens, Revoked
  <1>5. \A d \in Calls : pc[d] # "clear"
    BY <1>1, SoloCritical DEF Critical
  <1>6. GrantsBounded' /\ LiveUnrevoked' /\ SavesUnrevoked'
    BY <1>1, <1>2, <1>3, <1>4
    DEF FateInv, GrantsBounded, LiveUnrevoked, SavesUnrevoked, Revoked
  <1>7. CallbackIsFresh'
    BY <1>1, <1>2, <1>3, <1>4 DEF FateInv, CallbackIsFresh, Revoked
  <1>8. StoreExplained'
    BY <1>1, <1>2, <1>4, <1>5 DEF FateInv, StoreExplained
  <1>9. RevokeExplained'
    BY <1>1, <1>2, <1>3, <1>4, <1>5 DEF FateInv, RevokeExplained, StoreExplained, Revoked
  <1> QED BY <1>2, <1>6, <1>7, <1>8, <1>9 DEF FateInv

\* Intuit issues a token, of a new grant or of one that is not revoked.
LEMMA IssueFate ==
  ASSUME TypeInv, FateInv, NEW c \in Calls, NEW g \in 1 .. Len(grantOf) + 1, NEW S, Issue(g, S),
         g \notin revoked,
         \A e \in Calls \ {c} : pc[e] = "callback_save" => g # grantOf[hand[e]],
         NEW l \in {"save", "callback_save", "done"}, Moves(c, l), pc[c] # "clear",
         l = "callback_save" => g = Len(grantOf) + 1,
         UNCHANGED store,
         \A d \in Calls : cached'[d] \in {cached[d], None},
         \A d \in Calls \ {c} : hand'[d] = hand[d],
         hand'[c] \in {Len(grantOf) + 1, None},
         l # "done" => hand'[c] = Len(grantOf) + 1
  PROVE  FateInv'
  <1> DEFINE n == Len(grantOf) + 1
  <1>1. /\ pc'[c] = l /\ \A d \in Calls \ {c} : pc'[d] = pc[d]
        /\ SomeCut => SomeCut'
        /\ DisconnectsEnd'
    BY MovesFacts DEF Locations
  <1>2. Len(grantOf) \in Nat /\ grantOf \in Seq(Nat \ {0}) /\ g \in Nat \ {0}
    BY GrantOfToken DEF TypeInv, SystemTypes
  <1>3. /\ Len(grantOf') = n /\ grantOf'[n] = g
        /\ \A t \in Tokens : grantOf'[t] = grantOf[t]
    BY <1>2, AppendProperties DEF Issue, Tokens
  <1>4. Tokens' = Tokens \cup {n} /\ n \notin Tokens /\ n # None
    BY <1>2, <1>3 DEF Tokens, None
  <1>5. live' \subseteq live \cup {n} /\ revoked' = revoked
    BY DEF Issue
  <1>6. /\ live \subseteq Tokens /\ store \in Tokens \cup {None}
        /\ \A d \in Calls : cached[d] \in Tokens \cup {None} /\ hand[d] \in Tokens \cup {None}
        /\ \A d \in Calls : pc[d] \in {"save", "callback_save", "revoke"} => hand[d] \in Tokens
    BY DEF TypeInv, SystemTypes, CallTypes, HoldsToken
  <1>7. /\ \A t \in Tokens : (grantOf'[t] \in revoked') <=> (grantOf[t] \in revoked)
        /\ grantOf'[n] \notin revoked'
    BY <1>3, <1>5
  <1>8. 1 .. Len(grantOf) \subseteq 1 .. n /\ n \in 1 .. n
    BY <1>2
  <1> HIDE DEF n
  <1>9. GrantsBounded'
    <2>1. \A t \in Tokens : grantOf[t] \in 1 .. n
      BY <1>8 DEF FateInv, GrantsBounded
    <2>2. g \in 1 .. n /\ revoked \subseteq 1 .. n
      BY <1>8 DEF FateInv, GrantsBounded, n
    <2>3. \A t \in Tokens' : grantOf'[t] \in 1 .. n
      BY <2>1, <2>2, <1>3, <1>4
    <2> QED BY <2>2, <2>3, <1>3, <1>5 DEF GrantsBounded
  <1>10. LiveUnrevoked'
    BY <1>5, <1>6, <1>7 DEF FateInv, LiveUnrevoked, Revoked
  <1>11. SavesUnrevoked'
    <2> SUFFICES ASSUME NEW d \in Calls, pc'[d] = "save" PROVE ~(grantOf'[hand'[d]] \in revoked')
      BY DEF SavesUnrevoked, Revoked
    <2>1. CASE d = c
      <3>1. hand'[d] = n
        BY <2>1, <1>1 DEF n
      <3> QED BY <3>1, <1>7
    <2>2. CASE d # c
      BY <2>2, <1>1, <1>6, <1>7 DEF FateInv, SavesUnrevoked, Revoked
    <2> QED BY <2>1, <2>2
  <1>12. CallbackIsFresh'
    <2> SUFFICES ASSUME NEW e \in Calls, pc'[e] = "callback_save"
                 PROVE  /\ ~(grantOf'[hand'[e]] \in revoked') /\ store # hand'[e]
                        /\ \A t \in Tokens' : grantOf'[t] = grantOf'[hand'[e]] => t = hand'[e]
                        /\ \A d \in Calls : cached'[d] # hand'[e] /\ (d # e => hand'[d] # hand'[e])
      BY DEF CallbackIsFresh, Revoked
    <2>1. CASE e = c
      <3>1. hand'[e] = n /\ g = n
        BY <2>1, <1>1 DEF n
      <3>2. \A t \in Tokens : grantOf'[t] # n
        <4>1. n \notin 1 .. Len(grantOf)
          BY <1>2 DEF n
        <4> QED BY <4>1, <1>3 DEF FateInv, GrantsBounded
      <3>3. \A d \in Calls : cached'[d] # n /\ (d # c => hand'[d] # n)
        BY <1>4, <1>6
      <3>4. \A t \in Tokens' : grantOf'[t] = grantOf'[n] => t = n
        BY <3>1, <3>2, <1>3, <1>4
      <3>5. store # n
        BY <1>4, <1>6
      <3> QED BY <3>1, <3>3, <3>4, <3>5, <2>1, <1>7
    <2>2. CASE e # c
      <3>1. pc[e] = "callback_save" /\ hand'[e] = hand[e] /\ hand[e] \in Tokens
        BY <2>2, <1>1, <1>6
      <3>2. /\ ~Revoked(hand[e]) /\ store # hand[e] /\ g # grantOf[hand[e]]
            /\ \A t \in Tokens : grantOf[t] = grantOf[hand[e]] => t = hand[e]
            /\ \A d \in Calls : cached[d] # hand[e] /\ (d # e => hand[d] # hand[e])
        BY <3>1, <2>2 DEF FateInv, CallbackIsFresh
      <3>3. \A t \in Tokens' : grantOf'[t] = grantOf'[hand[e]] => t = hand[e]
        BY <3>1, <3>2, <1>3, <1>4
      <3>4. hand[e] # None /\ hand[e] # n
        BY <3>1, <1>4 DEF Tokens, None
      <3>5. \A d \in Calls : cached'[d] # hand[e] /\ (d # e => hand'[d] # hand[e])
        BY <3>2, <3>4 DEF n
      <3>6. ~(grantOf'[hand[e]] \in revoked')
        BY <3>1, <3>2, <1>7 DEF Revoked
      <3> QED BY <3>1, <3>2, <3>3, <3>5, <3>6
    <2> QED BY <2>1, <2>2
  <1>13. StoreExplained'
    <2>1. store # None => ((grantOf'[store] \in revoked') <=> (grantOf[store] \in revoked))
      BY <1>6, <1>7
    <2> QED BY <2>1, <1>1 DEF FateInv, StoreExplained, Revoked
  <1>14. RevokeExplained'
    BY <1>1, <1>6, <1>7 DEF FateInv, RevokeExplained, Revoked
  <1> QED BY <1>1, <1>9, <1>10, <1>11, <1>12, <1>13, <1>14 DEF FateInv

\* The token that is saved is of a grant that is not revoked.
LEMMA StoreFate ==
  ASSUME TypeInv, FateInv, NEW c \in Calls, pc[c] \in {"save", "callback_save"},
         NEW l \in {"send", "done"}, Moves(c, l), store' = hand[c],
         UNCHANGED <<grantOf, live, revoked>>,
         \A d \in Calls \ {c} : hand'[d] = hand[d] /\ cached'[d] = cached[d],
         cached'[c] \in {hand[c], None}, hand'[c] = None
  PROVE  FateInv'
  <1>1. /\ pc'[c] = l /\ \A d \in Calls \ {c} : pc'[d] = pc[d]
        /\ SomeCut => SomeCut'
        /\ DisconnectsEnd'
    BY MovesFacts DEF Locations
  <1>2. Tokens' = Tokens /\ ~Revoked(hand[c])
    BY DEF Tokens, FateInv, SavesUnrevoked, CallbackIsFresh
  <1>3. GrantsBounded' /\ LiveUnrevoked' /\ SavesUnrevoked'
    BY <1>1, <1>2 DEF FateInv, GrantsBounded, LiveUnrevoked, SavesUnrevoked, Revoked
  <1>4. CallbackIsFresh'
    <2> SUFFICES ASSUME NEW e \in Calls \ {c}, pc[e] = "callback_save", hand'[e] = hand[e]
                 PROVE  /\ ~Revoked(hand[e]) /\ hand[c] # hand[e]
                        /\ \A t \in Tokens : grantOf[t] = grantOf[hand[e]] => t = hand[e]
                        /\ \A d \in Calls : cached'[d] # hand[e] /\ (d # e => hand'[d] # hand[e])
      BY <1>1, <1>2 DEF CallbackIsFresh, Revoked
    <2> QED BY FreshIsToken DEF FateInv, CallbackIsFresh
  <1>5. StoreExplained'
    BY <1>2 DEF StoreExplained, Revoked
  <1>6. RevokeExplained'
    BY <1>1 DEF FateInv, RevokeExplained, Revoked
  <1> QED BY <1>1, <1>3, <1>4, <1>5, <1>6 DEF FateInv

\* A revocation ends a grant that nobody is about to save, and goes on to the
\* clear or is cut short.
LEMMA RevokeFate ==
  ASSUME OneInstance, TypeInv, LockHeldInCritical, FateInv, NEW c \in Calls,
         Revoke(c) \/ RevocationLost(c)
  PROVE  FateInv'
  <1>1. /\ pc[c] = "revoke" /\ EndGrant(grantOf[hand[c]]) /\ UNCHANGED store
        /\ hand[c] \in Tokens /\ Kind[c] = "disconnect"
    BY DEF Revoke, RevocationLost, TypeInv, CallTypes, HoldsToken, FateInv, DisconnectsEnd
  <1>2. PICK l \in {"clear", "done"} : Moves(c, l) /\ (l = "done" => result' = [result EXCEPT ![c] = "error"])
    BY DEF Revoke, RevocationLost, Goto, Finish, Moves, Results
  <1>3. /\ pc'[c] = l /\ \A d \in Calls \ {c} : pc'[d] = pc[d]
        /\ SomeCut => SomeCut'
        /\ DisconnectsEnd'
    BY <1>1, <1>2, MovesFacts DEF Locations
  <1>4. pc'[c] = "clear" \/ SomeCut'
    BY <1>1, <1>2, <1>3 DEF SomeCut, CutShort, TypeInv, CallTypes
  <1>5. /\ \A d \in Calls \ {c} : hand'[d] = hand[d]
        /\ \A d \in Calls : cached'[d] \in {cached[d], None} /\ hand'[d] \in {hand[d], None}
    BY DEF Revoke, RevocationLost, Finish, client, TypeInv, CallTypes
  <1>6. /\ grantOf' = grantOf /\ revoked' = revoked \cup {grantOf[hand[c]]}
        /\ live' = {t \in live : grantOf[t] # grantOf[hand[c]]} /\ Tokens' = Tokens
    BY <1>1 DEF EndGrant, Tokens
  <1>7. \A d \in Calls \ {c} : pc[d] \notin {"save", "revoke"}
    BY <1>1, SoloCritical DEF Critical
  <1>8. GrantsBounded' /\ LiveUnrevoked'
    BY <1>1, <1>6 DEF FateInv, GrantsBounded, LiveUnrevoked, Revoked
  <1>9. SavesUnrevoked' /\ RevokeExplained'
    BY <1>3, <1>7 DEF SavesUnrevoked, RevokeExplained
  <1>10. CallbackIsFresh'
    <2> SUFFICES ASSUME NEW e \in Calls \ {c}, pc[e] = "callback_save", hand'[e] = hand[e]
                 PROVE  /\ ~(grantOf[hand[e]] \in revoked') /\ store # hand[e]
                        /\ \A t \in Tokens : grantOf[t] = grantOf[hand[e]] => t = hand[e]
                        /\ \A d \in Calls : cached'[d] # hand[e] /\ (d # e => hand'[d] # hand[e])
      BY <1>1, <1>3, <1>5, <1>6 DEF CallbackIsFresh, Revoked
    <2>1. /\ ~Revoked(hand[e]) /\ store # hand[e]
          /\ \A t \in Tokens : grantOf[t] = grantOf[hand[e]] => t = hand[e]
          /\ \A d \in Calls : cached[d] # hand[e] /\ (d # e => hand[d] # hand[e])
      BY DEF FateInv, CallbackIsFresh
    <2>2. grantOf[hand[c]] # grantOf[hand[e]]
      BY <1>1, <2>1
    <2>3. \A d \in Calls : cached'[d] # hand[e] /\ (d # e => hand'[d] # hand[e])
      BY <2>1, <1>5, FreshIsToken
    <2> QED BY <2>1, <2>2, <2>3, <1>6 DEF Revoked
  <1>11. StoreExplained'
    BY <1>4 DEF StoreExplained
  <1> QED BY <1>3, <1>8, <1>9, <1>10, <1>11 DEF FateInv

LEMMA ClearFate ==
  ASSUME TypeInv, FateInv, NEW c \in Calls, Clear(c)
  PROVE  FateInv'
  <1>1. Moves(c, "done") /\ store' = None /\ UNCHANGED <<grantOf, live, revoked>>
    BY DEF Clear, Finish, Moves, Results, intuit
  <1>2. /\ pc'[c] = "done" /\ \A d \in Calls \ {c} : pc'[d] = pc[d]
        /\ SomeCut => SomeCut'
        /\ DisconnectsEnd'
    BY <1>1, MovesFacts DEF Locations
  <1>3. /\ \A d \in Calls \ {c} : hand'[d] = hand[d]
        /\ \A d \in Calls : cached'[d] \in {cached[d], None} /\ hand'[d] \in {hand[d], None}
    BY DEF Clear, Finish, TypeInv, CallTypes
  <1>4. Tokens' = Tokens
    BY <1>1 DEF Tokens
  <1>5. GrantsBounded' /\ LiveUnrevoked' /\ SavesUnrevoked'
    BY <1>1, <1>2, <1>3, <1>4 DEF FateInv, GrantsBounded, LiveUnrevoked, SavesUnrevoked, Revoked
  <1>6. CallbackIsFresh'
    <2> SUFFICES ASSUME NEW e \in Calls \ {c}, pc[e] = "callback_save", hand'[e] = hand[e]
                 PROVE  /\ ~Revoked(hand[e]) /\ None # hand[e]
                        /\ \A t \in Tokens : grantOf[t] = grantOf[hand[e]] => t = hand[e]
                        /\ \A d \in Calls : cached'[d] # hand[e] /\ (d # e => hand'[d] # hand[e])
      BY <1>1, <1>2, <1>3, <1>4 DEF CallbackIsFresh, Revoked
    <2> QED BY <1>3, FreshIsToken DEF FateInv, CallbackIsFresh
  <1>7. StoreExplained' /\ RevokeExplained'
    BY <1>1, <1>2, <1>3 DEF FateInv, StoreExplained, RevokeExplained, Revoked
  <1> QED BY <1>2, <1>5, <1>6, <1>7 DEF FateInv

LEMMA StepFate ==
  ASSUME OneInstance, TypeInv, LockHeldInCritical, FateInv, NEW c \in Calls, Step(c)
  PROVE  FateInv'
  <1> DEFINE Quiet == {"load", "check", "send", "lock", "locked", "refresh", "exchange", "done"}
  <1>q. ASSUME NEW l \in Quiet,
               pc[c] \notin {"done", "clear"}, pc' = [pc EXCEPT ![c] = l],
               \/ l # "done" /\ UNCHANGED result
               \/ l = "done" /\ \E r \in Results : result' = [result EXCEPT ![c] = r],
               UNCHANGED <<grantOf, live, revoked, store>>,
               \A d \in Calls : cached'[d] \in {cached[d], store, None},
               \A d \in Calls \ {c} : hand'[d] = hand[d],
               hand'[c] \in {hand[c], cached[c], store, None}
        PROVE  FateInv'
    <2>1. Moves(c, l) /\ l \in Locations \ {"save", "callback_save", "revoke", "clear"}
      BY <1>q DEF Moves, Locations
    <2> QED BY <2>1, <1>q, QuietFate
  <1>t. /\ cached \in [Calls -> Tokens \cup {None}] /\ hand \in [Calls -> Tokens \cup {None}]
        /\ \A r \in {"ok", "ready", "not_authenticated", "api_error", "refresh_failed",
                     "store_error", "error", "exchange_failed", "already_disconnected",
                     "revoke_failed", "clear_failed", "connected"} : r \in Results
    BY DEF TypeInv, CallTypes, Results
  \* It is answered.
  <1>f. ASSUME NEW r \in Results, Finish(c, r), pc[c] \notin {"done", "clear"},
               UNCHANGED <<grantOf, live, revoked, store>>
        PROVE  FateInv'
    <2>1. /\ pc' = [pc EXCEPT ![c] = "done"] /\ result' = [result EXCEPT ![c] = r]
          /\ \A d \in Calls : cached'[d] \in {cached[d], store, None}
          /\ \A d \in Calls \ {c} : hand'[d] = hand[d]
          /\ hand'[c] \in {hand[c], cached[c], store, None}
      BY <1>f, <1>t DEF Finish
    <2> QED BY <2>1, <1>f, <1>q
  \* It goes on with a token that it has read.
  <1>g. ASSUME NEW l \in Quiet \ {"done"}, Goto(c, l), pc[c] \notin {"done", "clear"},
               UNCHANGED <<grantOf, live, revoked, store>>,
               cached' = cached \/ \E t \in {cached[c], store} : cached' = [cached EXCEPT ![c] = t],
               hand' = hand \/ \E t \in {cached[c], store, None} : hand' = [hand EXCEPT ![c] = t]
        PROVE  FateInv'
    <2>1. /\ pc' = [pc EXCEPT ![c] = l] /\ result' = result
          /\ \A d \in Calls : cached'[d] \in {cached[d], store, None}
          /\ \A d \in Calls \ {c} : hand'[d] = hand[d]
          /\ hand'[c] \in {hand[c], cached[c], store, None}
      BY <1>g, <1>t DEF Goto
    <2> QED BY <2>1, <1>g, <1>q
  <1>r. ASSUME NEW t \in {cached[c], store}, Resume(c, t), pc[c] \notin {"done", "clear"},
               UNCHANGED <<grantOf, live, revoked, store>>
        PROVE  FateInv'
    <2>1. CASE Finish(c, "ready")
      BY <2>1, <1>r, <1>f, <1>t
    <2>2. CASE /\ Goto(c, "send") /\ cached' = [cached EXCEPT ![c] = t]
               /\ hand' = [hand EXCEPT ![c] = None]
      BY <2>2, <1>r, <1>g
    <2> QED BY <2>1, <2>2, <1>r DEF Resume
  <1> HIDE DEF Quiet
  <1>l. {"check", "send", "lock", "locked", "refresh"} \subseteq Quiet \ {"done"}
    BY DEF Quiet
  <1>1. CASE \/ LoadFails(c) \/ Accepted(c) \/ RefreshFails(c) \/ SaveFails(c)
             \/ AuthorizeFails(c) \/ CallbackSaveFails(c) \/ NothingToDisconnect(c)
             \/ RevokeFails(c) \/ NetworkFails(c)
    <2>1. PICK r \in Results : Finish(c, r)
      BY <1>1, <1>t
      DEF LoadFails, Accepted, RefreshFails, SaveFails, AuthorizeFails, CallbackSaveFails,
          NothingToDisconnect, RevokeFails, NetworkFails
    <2>2. pc[c] \notin {"done", "clear"} /\ UNCHANGED <<grantOf, live, revoked, store>>
      BY <1>1
      DEF LoadFails, Accepted, RefreshFails, SaveFails, AuthorizeFails, CallbackSaveFails,
          NothingToDisconnect, RevokeFails, NetworkFails, intuit
    <2> QED BY <2>1, <2>2, <1>f
  <1>2. CASE Load(c)
    <2>1. pc[c] = "load" /\ UNCHANGED <<grantOf, live, revoked, store>>
      BY <1>2 DEF Load, intuit
    <2>2. CASE Finish(c, "not_authenticated")
      BY <2>1, <2>2, <1>f, <1>t
    <2>3. CASE Goto(c, "check") /\ cached' = [cached EXCEPT ![c] = store] /\ hand' = hand
      BY <2>1, <2>3, <1>g, <1>l
    <2> QED BY <1>2, <2>2, <2>3 DEF Load
  <1>3. CASE CheckExpiry(c)
    <2>1. pc[c] = "check" /\ UNCHANGED <<grantOf, live, revoked, store>>
      BY <1>3 DEF CheckExpiry, intuit
    <2>2. CASE Goto(c, "lock") /\ UNCHANGED client
      BY <2>1, <2>2, <1>g, <1>l DEF client
    <2>3. CASE Resume(c, cached[c])
      BY <2>1, <2>3, <1>r
    <2> QED BY <1>3, <2>2, <2>3 DEF CheckExpiry
  <1>4. CASE Unauthorized(c)
    <2>1. pc[c] = "send" /\ UNCHANGED <<grantOf, live, revoked, store>>
      BY <1>4 DEF Unauthorized, intuit
    <2>2. CASE Finish(c, "api_error")
      BY <2>1, <2>2, <1>f, <1>t
    <2>3. CASE Goto(c, "lock") /\ UNCHANGED <<cached, hand>>
      BY <2>1, <2>3, <1>g, <1>l
    <2> QED BY <1>4, <2>2, <2>3 DEF Unauthorized
  <1>5. CASE AcquireLock(c)
    <2>1. /\ pc[c] = "lock" /\ Goto(c, "locked")
          /\ UNCHANGED <<grantOf, live, revoked, store, cached, hand>>
      BY <1>5 DEF AcquireLock, intuit, client
    <2> QED BY <2>1, <1>g, <1>l
  <1>6. CASE Adopt(c)
    <2>1. pc[c] = "locked" /\ Resume(c, store) /\ UNCHANGED <<grantOf, live, revoked, store>>
      BY <1>6 DEF Adopt, intuit
    <2> QED BY <2>1, <1>r
  <1>7. CASE ChooseSource(c)
    <2>1. /\ pc[c] = "locked" /\ Goto(c, "refresh")
          /\ UNCHANGED <<grantOf, live, revoked, store, cached>>
          /\ \E t \in {cached[c], store, None} : hand' = [hand EXCEPT ![c] = t]
      BY <1>7 DEF ChooseSource, intuit
    <2> QED BY <2>1, <1>g, <1>l
  <1>8. CASE ClearFails(c)
    <2>1. /\ pc[c] = "clear" /\ Finish(c, "clear_failed") /\ Kind[c] = "disconnect"
          /\ UNCHANGED <<grantOf, live, revoked, store>>
      BY <1>8 DEF ClearFails, intuit, FateInv, DisconnectsEnd
    <2>2. Moves(c, "done") /\ CutShort(c)'
      BY <2>1, <1>t DEF Finish, Moves, CutShort, TypeInv, CallTypes
    <2>3. /\ \A d \in Calls : cached'[d] \in {cached[d], store, None}
          /\ \A d \in Calls \ {c} : hand'[d] = hand[d]
          /\ hand'[c] \in {hand[c], cached[c], store, None}
      BY <2>1, <1>t DEF Finish
    <2> QED BY <2>1, <2>2, <2>3, QuietFate DEF Locations
  <1>9. CASE Rotate(c) \/ RotationLost(c)
    <2>1. /\ pc[c] = "refresh" /\ hand[c] \in live /\ Issue(grantOf[hand[c]], {hand[c]})
          /\ UNCHANGED store
      BY <1>9 DEF Rotate, RotationLost
    <2>2. hand[c] \in Tokens /\ grantOf[hand[c]] \in 1 .. Len(grantOf)
          /\ grantOf[hand[c]] \notin revoked
      BY <2>1 DEF TypeInv, SystemTypes, FateInv, GrantsBounded, LiveUnrevoked, Revoked
    <2>3. grantOf[hand[c]] \in 1 .. Len(grantOf) + 1
      BY <2>2, GrantOfToken
    <2>4. \A e \in Calls \ {c} : pc[e] = "callback_save" => grantOf[hand[c]] # grantOf[hand[e]]
      BY <2>2 DEF FateInv, CallbackIsFresh
    <2>5. PICK l \in {"save", "done"} :
             /\ Moves(c, l)
             /\ l # "done" => hand'[c] = Len(grantOf) + 1
      BY <1>9, <2>1, <1>t DEF Rotate, RotationLost, Goto, Finish, Moves
    <2>6. /\ \A d \in Calls : cached'[d] \in {cached[d], None}
          /\ \A d \in Calls \ {c} : hand'[d] = hand[d]
          /\ hand'[c] \in {Len(grantOf) + 1, None}
      BY <1>9, <1>t DEF Rotate, RotationLost, Finish
    <2> QED BY <2>1, <2>2, <2>3, <2>4, <2>5, <2>6, IssueFate
  <1>10. CASE Authorize(c) \/ AuthorizationLost(c)
    <2>1. pc[c] = "exchange" /\ UNCHANGED store
      BY <1>10 DEF Authorize, AuthorizationLost
    <2>2. PICK S : Issue(Len(grantOf) + 1, S)
      BY <1>10 DEF Authorize, AuthorizationLost
    <2>3. /\ Len(grantOf) + 1 \in 1 .. Len(grantOf) + 1
          /\ Len(grantOf) + 1 \notin 1 .. Len(grantOf)
      BY GrantOfToken
    <2>4. /\ Len(grantOf) + 1 \notin revoked
          /\ \A t \in Tokens : grantOf[t] # Len(grantOf) + 1
      BY <2>3 DEF FateInv, GrantsBounded
    <2>5. \A e \in Calls \ {c} : pc[e] = "callback_save" => Len(grantOf) + 1 # grantOf[hand[e]]
      BY <2>4, FreshIsToken
    <2>6. PICK l \in {"callback_save", "done"} :
             /\ Moves(c, l)
             /\ l # "done" => hand'[c] = Len(grantOf) + 1
      BY <1>10, <2>1, <1>t DEF Authorize, AuthorizationLost, Goto, Finish, Moves
    <2>7. /\ \A d \in Calls : cached'[d] \in {cached[d], None}
          /\ \A d \in Calls \ {c} : hand'[d] = hand[d]
          /\ hand'[c] \in {Len(grantOf) + 1, None}
      BY <1>10, <1>t DEF Authorize, AuthorizationLost, Finish
    <2> QED BY <2>1, <2>2, <2>3, <2>4, <2>5, <2>6, <2>7, IssueFate
  <1>11. CASE Save(c) \/ CallbackSave(c)
    <2>1. /\ pc[c] \in {"save", "callback_save"} /\ store' = hand[c]
          /\ UNCHANGED <<grantOf, live, revoked>>
      BY <1>11 DEF Save, CallbackSave, intuit
    <2>2. CASE \E r \in {"ready", "connected"} : Finish(c, r)
      <3>1. /\ Moves(c, "done") /\ cached'[c] = None /\ hand'[c] = None
            /\ \A d \in Calls \ {c} : hand'[d] = hand[d] /\ cached'[d] = cached[d]
        BY <2>1, <2>2, <1>t DEF Finish, Moves
      <3> QED BY <2>1, <3>1, StoreFate
    <2>3. CASE /\ Goto(c, "send") /\ cached' = [cached EXCEPT ![c] = hand[c]]
               /\ hand' = [hand EXCEPT ![c] = None]
      <3>1. /\ Moves(c, "send") /\ cached'[c] = hand[c] /\ hand'[c] = None
            /\ \A d \in Calls \ {c} : hand'[d] = hand[d] /\ cached'[d] = cached[d]
        BY <2>1, <2>3, <1>t DEF Goto, Moves
      <3> QED BY <2>1, <3>1, StoreFate
    <2> QED BY <1>11, <2>2, <2>3 DEF Save, CallbackSave, Resume
  <1> QED BY <1>1, <1>2, <1>3, <1>4, <1>5, <1>6, <1>7, <1>8, <1>9, <1>10, <1>11,
             DisconnectLoadFate, RevokeFate, ClearFate
          DEF Step, RequestStep, RefreshStep, CallbackStep, DisconnectStep

LEMMA NextFate ==
  ASSUME OneInstance, TypeInv, LockHeldInCritical, FateInv, [Next]_vars
  PROVE  FateInv'
  <1>1. CASE UNCHANGED <<grantOf, live, revoked, store, pc, cached, hand, result>>
    BY <1>1
    DEF FateInv, GrantsBounded, LiveUnrevoked, SavesUnrevoked, CallbackIsFresh, StoreExplained,
        RevokeExplained, DisconnectsEnd, SomeCut, CutShort, Revoked, Tokens
  <1>2. ASSUME NEW t, Expire(t) \/ Withdraw(t) PROVE FateInv'
    BY <1>1, <1>2 DEF Expire, Withdraw, intuit, client
  <1>3. ASSUME NEW i \in Instances, Crash(i) PROVE FateInv'
    <2>1. UNCHANGED <<grantOf, live, revoked, store>>
      BY <1>3 DEF Crash, intuit
    <2>2. \A d \in Calls :
            \/ /\ pc[d] # "done" /\ pc'[d] = "done" /\ result'[d] = "crashed"
               /\ hand'[d] = None /\ cached'[d] = None
            \/ /\ pc'[d] = pc[d] /\ result'[d] = result[d]
               /\ hand'[d] = hand[d] /\ cached'[d] = cached[d]
      BY <1>3 DEF Crash, Aboard
    <2>3. Tokens' = Tokens /\ \A t : Revoked(t)' = Revoked(t)
      BY <2>1 DEF Tokens, Revoked
    <2>4. SomeCut => SomeCut'
      BY <2>2 DEF SomeCut, CutShort, FateInv, DisconnectsEnd
    <2>5. ASSUME NEW d \in Calls, pc[d] = "clear" PROVE SomeCut' \/ pc'[d] = "clear"
      BY <2>2, <2>5 DEF SomeCut, CutShort, FateInv, DisconnectsEnd
    <2>6. GrantsBounded' /\ LiveUnrevoked' /\ SavesUnrevoked'
      BY <2>1, <2>2, <2>3 DEF FateInv, GrantsBounded, LiveUnrevoked, SavesUnrevoked, Revoked
    <2>7. CallbackIsFresh'
      <3> SUFFICES ASSUME NEW e \in Calls, pc[e] = "callback_save", hand'[e] = hand[e]
                   PROVE  /\ ~Revoked(hand[e]) /\ store # hand[e]
                          /\ \A t \in Tokens : grantOf[t] = grantOf[hand[e]] => t = hand[e]
                          /\ \A d \in Calls : cached'[d] # hand[e] /\ (d # e => hand'[d] # hand[e])
        BY <2>1, <2>2, <2>3 DEF CallbackIsFresh, Revoked
      <3> QED BY <2>2, FreshIsToken DEF FateInv, CallbackIsFresh
    <2>8. StoreExplained'
      BY <2>1, <2>4, <2>5 DEF FateInv, StoreExplained, Revoked
    <2>9. RevokeExplained' /\ DisconnectsEnd'
      BY <2>1, <2>2, <2>4 DEF FateInv, RevokeExplained, DisconnectsEnd, Revoked
    <2> QED BY <2>6, <2>7, <2>8, <2>9 DEF FateInv
  <1> QED BY StepFate, <1>1, <1>2, <1>3 DEF Next, AllDone, vars

\* A disconnect on one instance that says it failed has left a connection that
\* works, unless an earlier one was cut short, callbacks or not: see
\* FailedDisconnectLeftIntact.
THEOREM FailedDisconnectIsHarmless ==
  ASSUME OneInstance
  PROVE  Spec => FailedDisconnectLeftIntact
  <1>1. TypeInv /\ LockHeldInCritical /\ FateInv /\ [Next]_vars => FateInv'
    BY NextFate
  <1>2. FateInv => \A c \in Calls : pc[c] = "revoke" /\ result'[c] = "revoke_failed"
                      => ~Revoked(hand[c]) \/ \E d \in Calls : CutShort(d)
    BY DEF FateInv, RevokeExplained, SomeCut
  <1>3. Spec => []LockHeldInCritical
    BY LockDiscipline
  <1> QED BY <1>1, <1>2, <1>3, InitFate, InitType, NextType, PTL DEF Spec, FailedDisconnectLeftIntact
---------------------------------------------------------------------------
(***************************************************************************)
(* One instance and at most one callback: a refresh presents a live token. *)
(* A token that is neither live nor excused has been rotated away; then    *)
(* the token that replaced it is in the store, or with the call that is    *)
(* about to save it, and whoever has the lock works on that same grant.    *)
(* With two callbacks it need not be: they may save in the other order,    *)
(* and the older grant hides the newer one from the calls that read it.    *)
(***************************************************************************)
OneCallback == \A c, d \in Calls : Kind[c] = "callback" /\ Kind[d] = "callback" => c = d

Newer(t) == \E g \in Tokens : grantOf[g] > grantOf[t]

\* What RefreshPresentsLive excuses.
Excused(t) == Revoked(t) \/ (\E x \in lost : grantOf[x] = grantOf[t]) \/ Newer(t)
Astray(t) == t \notin live /\ ~Excused(t)

Holding == {"refresh", "save", "revoke", "clear"}

LivesOn(g) ==
    \/ store \in live /\ grantOf[store] = g
    \/ \E c \in Calls : pc[c] = "save" /\ hand[c] \in live /\ grantOf[hand[c]] = g

KeptSafe == \A t \in Tokens : Astray(t) => LivesOn(grantOf[t])

PresentsUsable ==
    \A c \in Calls : pc[c] \in {"refresh", "save"} => hand[c] \in Tokens /\ ~Astray(hand[c])

HoldersAgree ==
    \A c \in Calls, t \in Tokens :
        pc[c] \in Holding /\ Astray(t) => grantOf[hand[c]] = grantOf[t]

CallbackLives ==
    \A c \in Calls : pc[c] = "callback_save" =>
        hand[c] \in live /\ \A t \in Tokens : grantOf[t] <= grantOf[hand[c]]

ClearsRevoked == \A c \in Calls : pc[c] = "clear" => hand[c] \in Tokens /\ Revoked(hand[c])

CallbacksOnly ==
    \A c \in Calls : pc[c] \in {"exchange", "callback_save"} => Kind[c] = "callback"

\* A request that reaches the lock has a token cached.
NeedsCached(c) == \/ pc[c] \in {"check", "send"}
                  \/ pc[c] \in {"lock", "locked"} /\ Kind[c] # "disconnect"
HoldsCached == \A c \in Calls : NeedsCached(c) => cached[c] \in Tokens

SoloInv ==
    /\ KeptSafe /\ PresentsUsable /\ HoldersAgree /\ CallbackLives
    /\ ClearsRevoked /\ CallbacksOnly /\ HoldsCached

LEMMA InitSolo == Init => SoloInv
  <1> SUFFICES ASSUME Init PROVE SoloInv
    OBVIOUS
  <1>1. \A c \in Calls : \/ pc[c] = "exchange" /\ Kind[c] = "callback"
                         \/ pc[c] = "lock" /\ Kind[c] = "disconnect"
                         \/ pc[c] \in {"load", "done"}
    BY CallsAssumption DEF Init, Entry
  <1>2. KeptSafe
    BY DEF Init, KeptSafe, Astray
  <1> QED BY <1>1, <1>2
          DEF SoloInv, PresentsUsable, HoldersAgree, CallbackLives, ClearsRevoked, CallbacksOnly,
              HoldsCached, NeedsCached, Holding

\* Intuit forgets no token, and an excuse stays one.
Grows ==
    /\ Tokens \subseteq Tokens' /\ \A t \in Tokens : grantOf'[t] = grantOf[t]
    /\ revoked \subseteq revoked' /\ lost \subseteq lost'

LEMMA ExcuseStays ==
  ASSUME TypeInv, Grows, NEW t \in Tokens, Excused(t)
  PROVE  Excused(t)'
  BY DEF Grows, Excused, Newer, Revoked, TypeInv, SystemTypes

\* No token goes astray in the step.
NoneStrays == \A t \in Tokens' : Astray(t)' => t \in Tokens /\ Astray(t)

LEMMA NoneStraysWhen ==
  ASSUME TypeInv, Grows, \A t \in Tokens' : t \in live' \/ Excused(t)' \/ t \in Tokens \ live
  PROVE  NoneStrays
  BY ExcuseStays DEF NoneStrays, Astray

\* The new token of a callback is the newest, so nothing is astray.
LEMMA NothingAstray ==
  ASSUME TypeInv, FateInv, SoloInv, NEW c \in Calls, pc[c] = "callback_save", NEW t \in Tokens
  PROVE  ~Astray(t)
  <1> SUFFICES ASSUME Astray(t) PROVE FALSE
    OBVIOUS
  <1>1. hand[c] \in Tokens /\ hand[c] \in live /\ grantOf[t] <= grantOf[hand[c]]
    BY FreshIsToken DEF SoloInv, CallbackLives
  <1>2. grantOf[t] \in Nat /\ grantOf[hand[c]] \in Nat /\ ~(grantOf[hand[c]] > grantOf[t])
    BY <1>1, GrantOfToken DEF Astray, Excused, Newer
  <1>3. grantOf[t] = grantOf[hand[c]]
    BY <1>1, <1>2
  <1>4. t = hand[c]
    BY <1>3 DEF FateInv, CallbackIsFresh
  <1> QED BY <1>1, <1>4 DEF Astray

\* A step of c, told by what it does to c and to the tokens.
LEMMA SoloStep ==
  ASSUME TypeInv, SoloInv, NEW c \in Calls, NEW l \in Locations, Grows,
         pc' = [pc EXCEPT ![c] = l],
         \A d \in Calls \ {c} : hand'[d] = hand[d] /\ cached'[d] = cached[d],
         NoneStrays \/ \A d \in Calls \ {c} : pc[d] \notin Holding,
         KeptSafe',
         l \in {"refresh", "save"} => hand'[c] \in Tokens' /\ ~Astray(hand[c])',
         l \in Holding => \A t \in Tokens' : Astray(t)' => grantOf'[hand'[c]] = grantOf'[t],
         l = "callback_save" =>
            hand'[c] \in live' /\ \A t \in Tokens' : grantOf'[t] <= grantOf'[hand'[c]],
         \A e \in Calls \ {c} : pc[e] = "callback_save" =>
            hand[e] \in live' /\ \A t \in Tokens' \ Tokens : grantOf'[t] <= grantOf[hand[e]],
         l = "clear" => hand'[c] \in Tokens' /\ grantOf'[hand'[c]] \in revoked',
         l \in {"exchange", "callback_save"} => Kind[c] = "callback",
         NeedsCached(c)' => cached'[c] \in Tokens'
  PROVE  SoloInv'
  <1>1. pc'[c] = l /\ \A d \in Calls \ {c} : pc'[d] = pc[d]
    BY DEF TypeInv, CallTypes
  <1>2. PresentsUsable'
    <2> SUFFICES ASSUME NEW d \in Calls \ {c}, pc[d] \in {"refresh", "save"}
                 PROVE  hand'[d] \in Tokens' /\ ~Astray(hand[d])'
      BY <1>1 DEF PresentsUsable
    <2>1. hand[d] \in Tokens /\ ~Astray(hand[d]) /\ NoneStrays /\ hand'[d] = hand[d]
      BY DEF SoloInv, PresentsUsable, Holding
    <2>2. hand[d] \in Tokens' /\ Tokens \subseteq Tokens'
      BY <2>1 DEF Grows
    <2>3. ASSUME NEW t, t = hand[d] PROVE ~Astray(t)'
      BY <2>1, <2>2, <2>3 DEF NoneStrays
    <2> QED BY <2>1, <2>2, <2>3 DEF Astray, Excused, Newer, Revoked
  <1>3. HoldersAgree'
    <2> SUFFICES ASSUME NEW d \in Calls \ {c}, NEW t \in Tokens', pc[d] \in Holding, Astray(t)'
                 PROVE  grantOf'[hand'[d]] = grantOf'[t]
      BY <1>1 DEF HoldersAgree
    <2>1. t \in Tokens /\ Astray(t) /\ hand'[d] = hand[d]
      BY DEF NoneStrays
    <2>2. grantOf[hand[d]] = grantOf[t]
      BY <2>1 DEF SoloInv, HoldersAgree
    <2>3. hand[d] \in Tokens
      BY DEF SoloInv, PresentsUsable, ClearsRevoked, TypeInv, CallTypes, HoldsToken, Holding
    <2> QED BY <2>1, <2>2, <2>3 DEF Grows
  <1>4. CallbackLives'
    <2> SUFFICES ASSUME NEW e \in Calls \ {c}, pc[e] = "callback_save", hand'[e] = hand[e]
                 PROVE  hand[e] \in live' /\ \A t \in Tokens' : grantOf'[t] <= grantOf'[hand[e]]
      BY <1>1 DEF CallbackLives
    <2>1. hand[e] \in Tokens /\ grantOf'[hand[e]] = grantOf[hand[e]]
      BY FreshIsToken DEF Grows
    <2>2. \A t \in Tokens : grantOf'[t] <= grantOf[hand[e]]
      BY DEF Grows, SoloInv, CallbackLives
    <2> QED BY <2>1, <2>2
  <1>5. ClearsRevoked'
    BY <1>1 DEF Grows, SoloInv, ClearsRevoked, Revoked
  <1>6. CallbacksOnly'
    BY <1>1 DEF SoloInv, CallbacksOnly
  <1>7. HoldsCached'
    BY <1>1 DEF Grows, SoloInv, HoldsCached, NeedsCached
  <1> QED BY <1>2, <1>3, <1>4, <1>5, <1>6, <1>7 DEF SoloInv

\* A step that exchanges nothing at Intuit, saves nothing, and reaches no
\* refresh or disconnect; a token it was about to save is lost.
LEMMA QuietSolo ==
  ASSUME TypeInv, SoloInv, NEW c \in Calls,
         NEW l \in Locations \ (Holding \cup {"exchange", "callback_save"}),
         pc' = [pc EXCEPT ![c] = l],
         UNCHANGED <<grantOf, live, revoked, store>>, lost \subseteq lost',
         pc[c] = "save" => hand[c] \in lost',
         \A d \in Calls \ {c} : hand'[d] = hand[d] /\ cached'[d] = cached[d],
         NeedsCached(c)' => cached'[c] \in Tokens
  PROVE  SoloInv'
  <1>1. Tokens' = Tokens /\ Grows
    BY DEF Tokens, Grows
  <1>2. \A d \in Calls \ {c} : pc'[d] = pc[d]
    BY DEF TypeInv, CallTypes
  <1>3. NoneStrays
    BY <1>1, NoneStraysWhen
  <1>4. KeptSafe'
    <2> SUFFICES ASSUME NEW t \in Tokens, Astray(t)' PROVE LivesOn(grantOf[t])'
      BY <1>1 DEF KeptSafe
    <2>1. Astray(t) /\ grantOf'[t] = grantOf[t] /\ LivesOn(grantOf[t])
      BY <1>1, <1>3 DEF NoneStrays, SoloInv, KeptSafe
    <2>2. pc[c] = "save" => grantOf[hand[c]] # grantOf[t]
      BY DEF Astray, Excused
    <2> QED BY <2>1, <2>2, <1>2 DEF LivesOn
  <1>5. \A e \in Calls : pc[e] = "callback_save" => hand[e] \in live
    BY DEF SoloInv, CallbackLives
  <1>6. Tokens' \ Tokens = {} /\ l \in Locations /\ live' = live
    BY <1>1
  <1>7. l \notin Holding /\ l \notin {"refresh", "save", "clear", "exchange", "callback_save"}
    BY DEF Holding
  <1> QED BY <1>1, <1>3, <1>4, <1>5, <1>6, <1>7, SoloStep

\* A refresh or a disconnect chooses its token under the lock, when nobody is
\* about to save: what the store has is not astray, and if it has nothing
\* then nothing is.
LEMMA ChooseSolo ==
  ASSUME OneInstance, TypeInv, LockHeldInCritical, SoloInv, NEW c \in Calls,
         ChooseSource(c) \/ DisconnectLoad(c)
  PROVE  SoloInv'
  <1>1. /\ pc[c] = "locked" /\ UNCHANGED <<grantOf, live, revoked, store, cached, lost>>
        /\ \A d \in Calls \ {c} : hand'[d] = hand[d]
    BY DEF ChooseSource, DisconnectLoad, intuit, TypeInv, CallTypes
  <1>2. PICK l \in {"refresh", "revoke"} : pc' = [pc EXCEPT ![c] = l]
    BY DEF ChooseSource, DisconnectLoad, Goto
  <1>3. hand'[c] \in Tokens /\ (hand'[c] = store \/ store = None)
    <2>1. CASE ChooseSource(c)
      <3>1. cached[c] \in Tokens
        BY <2>1 DEF ChooseSource, SoloInv, HoldsCached, NeedsCached
      <3> QED BY <2>1, <3>1 DEF ChooseSource, TypeInv, SystemTypes, CallTypes
    <2>2. CASE DisconnectLoad(c)
      BY <2>2 DEF DisconnectLoad, TypeInv, SystemTypes, CallTypes
    <2> QED BY <2>1, <2>2
  <1>4. Tokens' = Tokens /\ Grows /\ NoneStrays
    <2>1. Tokens' = Tokens /\ Grows
      BY <1>1 DEF Tokens, Grows
    <2> QED BY <2>1, <1>1, NoneStraysWhen
  <1>5. \A d \in Calls : pc[d] # "save"
    BY <1>1, SoloCritical DEF Critical
  <1>6. ASSUME NEW t \in Tokens, Astray(t)
        PROVE  store \in live /\ grantOf[store] = grantOf[t]
    BY <1>5, <1>6 DEF SoloInv, KeptSafe, LivesOn
  <1>7. None \notin live
    BY DEF TypeInv, SystemTypes, Tokens, None
  <1>8. \A t \in Tokens : Astray(t) => hand'[c] = store /\ store \in live /\ grantOf[store] = grantOf[t]
    BY <1>3, <1>6, <1>7
  <1>9. ~Astray(hand[c])'
    <2>1. ASSUME NEW t \in Tokens, t = hand'[c] PROVE ~Astray(t)'
      BY <2>1, <1>4, <1>8 DEF NoneStrays, Astray
    <2> QED BY <2>1, <1>3 DEF Astray, Excused, Newer, Revoked
  <1>10. \A t \in Tokens' : Astray(t)' => grantOf'[hand'[c]] = grantOf'[t]
    BY <1>1, <1>4, <1>8 DEF NoneStrays
  <1>11. KeptSafe'
    <2> SUFFICES ASSUME NEW t \in Tokens, Astray(t)' PROVE LivesOn(grantOf[t])'
      BY <1>4 DEF KeptSafe
    <2>1. store \in live /\ grantOf[store] = grantOf[t]
      BY <1>4, <1>6 DEF NoneStrays
    <2> QED BY <2>1, <1>1 DEF LivesOn
  <1>12. \A e \in Calls : pc[e] = "callback_save" => hand[e] \in live
    BY DEF SoloInv, CallbackLives
  <1>13. ~NeedsCached(c)'
    BY <1>2 DEF NeedsCached, TypeInv, CallTypes
  <1>14. l \in Locations /\ l \notin {"clear", "exchange", "callback_save"} /\ Tokens' \ Tokens = {}
    BY <1>4 DEF Locations
  <1> QED BY <1>1, <1>2, <1>3, <1>4, <1>9, <1>10, <1>11, <1>12, <1>13, <1>14, SoloStep

\* The token that a rotation takes away goes astray, and the one that replaces
\* it is in hand, or lost.
LEMMA RotationSolo ==
  ASSUME OneInstance, TypeInv, LockHeldInCritical, FateInv, SoloInv, NEW c \in Calls,
         Rotate(c) \/ RotationLost(c)
  PROVE  SoloInv'
  <1> DEFINE h == hand[c]
             n == Len(grantOf) + 1
  <1>1. /\ pc[c] = "refresh" /\ h \in live /\ Issue(grantOf[h], {h}) /\ UNCHANGED store
        /\ h \in Tokens
    BY DEF Rotate, RotationLost, TypeInv, SystemTypes
  <1>2. /\ grantOf' = Append(grantOf, grantOf[h]) /\ live' = (live \ {h}) \cup {n}
        /\ revoked' = revoked
    BY <1>1 DEF Issue
  <1>3. /\ Len(grantOf) \in Nat /\ grantOf \in Seq(Nat \ {0})
        /\ grantOf[h] \in Nat \ {0}
    BY <1>1, GrantOfToken DEF TypeInv, SystemTypes
  <1>4. /\ Len(grantOf') = n /\ grantOf'[n] = grantOf[h]
        /\ \A t \in Tokens : grantOf'[t] = grantOf[t]
    BY <1>2, <1>3, AppendProperties DEF Tokens
  <1>5. Tokens' = Tokens \cup {n} /\ n \notin Tokens /\ n # None
    BY <1>3, <1>4 DEF Tokens, None
  <1>6. \A d \in Calls \ {c} : hand'[d] = hand[d] /\ cached'[d] = cached[d] /\ pc[d] \notin Holding
    <2>1. \A d \in Calls \ {c} : pc[d] \notin Critical
      BY <1>1, SoloCritical DEF Critical
    <2>2. \A d \in Calls \ {c} : hand'[d] = hand[d] /\ cached'[d] = cached[d]
      BY DEF Rotate, RotationLost, Finish, TypeInv, CallTypes
    <2> QED BY <2>1, <2>2 DEF Critical, Holding
  <1>7. PICK l \in {"save", "done"} :
           /\ pc' = [pc EXCEPT ![c] = l]
           /\ l = "save" => hand'[c] = n
           /\ l = "done" => n \in lost'
    BY DEF Rotate, RotationLost, Goto, Finish, TypeInv, CallTypes
  <1>8. Grows
    BY <1>2, <1>4, <1>5 DEF Grows, Rotate, RotationLost
  <1> HIDE DEF n
  <1>9. ASSUME NEW t \in Tokens', Astray(t)'
        PROVE  t \in Tokens /\ grantOf[t] = grantOf[h]
    <2>1. t \in Tokens
      BY <1>2, <1>5, <1>9 DEF Astray
    <2>2. CASE t \in live
      BY <2>1, <2>2, <1>2, <1>9 DEF Astray
    <2>3. CASE t \notin live
      <3>1. Astray(t)
        BY <2>1, <2>3, <1>8, <1>9, ExcuseStays DEF Astray
      <3> QED BY <2>1, <3>1, <1>1 DEF SoloInv, HoldersAgree, Holding
    <2> QED BY <2>1, <2>2, <2>3
  <1>10. KeptSafe'
    <2> SUFFICES ASSUME NEW t \in Tokens', Astray(t)' PROVE LivesOn(grantOf[t])'
      BY DEF KeptSafe
    <2>1. grantOf'[t] = grantOf[h] /\ grantOf'[n] = grantOf'[t]
      BY <1>4, <1>9
    <2>2. n \notin lost'
      BY <2>1 DEF Astray, Excused
    <2>3. pc'[c] = "save" /\ hand'[c] = n /\ n \in live'
      BY <2>2, <1>2, <1>7 DEF TypeInv, CallTypes
    <2> QED BY <2>1, <2>3 DEF LivesOn
  <1>11. \A e \in Calls \ {c} : pc[e] = "callback_save" =>
            hand[e] \in live' /\ \A t \in Tokens' \ Tokens : grantOf'[t] <= grantOf[hand[e]]
    <2> SUFFICES ASSUME NEW e \in Calls \ {c}, pc[e] = "callback_save"
                 PROVE  hand[e] \in live' /\ grantOf'[n] <= grantOf[hand[e]]
      BY <1>5
    <2>1. h # hand[e]
      BY DEF FateInv, CallbackIsFresh
    <2>2. hand[e] \in live /\ grantOf[h] <= grantOf[hand[e]]
      BY <1>1 DEF SoloInv, CallbackLives
    <2> QED BY <2>1, <2>2, <1>2, <1>4
  <1>12. l = "save" => hand'[c] \in Tokens' /\ ~Astray(hand[c])'
    BY <1>2, <1>5, <1>7 DEF Astray
  <1>13. l = "save" => \A t \in Tokens' : Astray(t)' => grantOf'[hand'[c]] = grantOf'[t]
    BY <1>4, <1>7, <1>9
  <1>14. /\ l \in Locations /\ l \notin {"refresh", "clear", "exchange", "callback_save"}
         /\ l \in Holding => l = "save"
    BY DEF Locations, Holding
  <1>15. ~NeedsCached(c)'
    BY <1>7 DEF NeedsCached, TypeInv, CallTypes
  <1> QED BY <1>6, <1>7, <1>8, <1>10, <1>11, <1>12, <1>13, <1>14, <1>15, SoloStep

\* A new grant excuses every token of the others.
LEMMA AuthorizeSolo ==
  ASSUME OneCallback, TypeInv, FateInv, SoloInv, NEW c \in Calls,
         Authorize(c) \/ AuthorizationLost(c)
  PROVE  SoloInv'
  <1> DEFINE n == Len(grantOf) + 1
  <1>1. /\ pc[c] = "exchange" /\ UNCHANGED store
        /\ \A d \in Calls \ {c} : hand'[d] = hand[d] /\ cached'[d] = cached[d]
    BY DEF Authorize, AuthorizationLost, Finish, TypeInv, CallTypes
  <1>2. /\ grantOf' = Append(grantOf, n) /\ n \in live' /\ revoked' = revoked
    BY DEF Authorize, AuthorizationLost, Issue
  <1>3. Len(grantOf) \in Nat /\ grantOf \in Seq(Nat \ {0}) /\ n \in Nat \ {0}
    BY GrantOfToken DEF TypeInv, SystemTypes
  <1>4. /\ Len(grantOf') = n /\ grantOf'[n] = n
        /\ \A t \in Tokens : grantOf'[t] = grantOf[t]
    BY <1>2, <1>3, AppendProperties DEF Tokens
  <1>5. Tokens' = Tokens \cup {n}
    BY <1>3, <1>4 DEF Tokens
  <1>6. PICK l \in {"callback_save", "done"} :
           pc' = [pc EXCEPT ![c] = l] /\ (l = "callback_save" => hand'[c] = n)
    BY DEF Authorize, AuthorizationLost, Goto, Finish, TypeInv, CallTypes
  <1>7. Grows
    BY <1>2, <1>4, <1>5 DEF Grows, Authorize, AuthorizationLost
  <1>8. \A t \in Tokens : grantOf'[t] < grantOf'[n] /\ grantOf'[t] <= n
    <2>1. \A t \in Tokens : grantOf[t] \in 1 .. Len(grantOf)
      BY DEF FateInv, GrantsBounded
    <2>2. \A k \in 1 .. Len(grantOf) : k < n /\ k <= n
      BY <1>3
    <2> QED BY <2>1, <2>2, <1>4
  <1>9. n <= n
    BY <1>3
  <1> HIDE DEF n
  <1>10. \A t \in Tokens' : ~Astray(t)'
    <2>1. ASSUME NEW t \in Tokens PROVE Newer(t)'
      <3>1. n \in Tokens' /\ grantOf'[n] > grantOf'[t]
        BY <1>3, <1>4, <1>5, <1>8 DEF FateInv, GrantsBounded
      <3> QED BY <3>1 DEF Newer
    <2> QED BY <2>1, <1>2, <1>5 DEF Astray, Excused
  <1>11. \A e \in Calls \ {c} : pc[e] # "callback_save"
    BY <1>1 DEF SoloInv, CallbacksOnly, OneCallback
  <1>12. l = "callback_save" => hand'[c] \in live' /\ \A t \in Tokens' : grantOf'[t] <= grantOf'[hand'[c]]
    BY <1>2, <1>4, <1>5, <1>6, <1>8, <1>9
  <1>13. Kind[c] = "callback"
    BY <1>1 DEF SoloInv, CallbacksOnly
  <1>14. /\ l \in Locations /\ l \notin Holding /\ l \notin {"refresh", "save", "clear", "exchange"}
         /\ ~NeedsCached(c)'
    BY <1>6 DEF Locations, Holding, NeedsCached, TypeInv, CallTypes
  <1>15. KeptSafe' /\ NoneStrays
    BY <1>10 DEF KeptSafe, NoneStrays
  <1> QED BY <1>1, <1>6, <1>7, <1>11, <1>12, <1>13, <1>14, <1>15, SoloStep

\* What a refresh saves is of the grant that it holds the lock for.
LEMMA SaveSolo ==
  ASSUME TypeInv, SoloInv, NEW c \in Calls, Save(c)
  PROVE  SoloInv'
  <1>1. /\ pc[c] = "save" /\ store' = hand[c] /\ hand[c] \in Tokens /\ ~Astray(hand[c])
        /\ UNCHANGED <<grantOf, live, revoked, lost>>
        /\ \A d \in Calls \ {c} : hand'[d] = hand[d] /\ cached'[d] = cached[d]
    BY DEF Save, Resume, Goto, Finish, intuit, TypeInv, CallTypes, SoloInv, PresentsUsable
  <1>2. PICK l \in {"send", "done"} :
           pc' = [pc EXCEPT ![c] = l] /\ (l = "send" => cached'[c] = hand[c])
    BY DEF Save, Resume, Goto, Finish, TypeInv, CallTypes
  <1>3. Tokens' = Tokens /\ Grows /\ NoneStrays
    <2>1. Tokens' = Tokens /\ Grows
      BY <1>1 DEF Tokens, Grows
    <2> QED BY <2>1, <1>1, NoneStraysWhen
  <1>4. KeptSafe'
    <2> SUFFICES ASSUME NEW t \in Tokens, Astray(t)' PROVE LivesOn(grantOf[t])'
      BY <1>3 DEF KeptSafe
    <2>1. Astray(t)
      BY <1>3 DEF NoneStrays
    <2>2. grantOf[hand[c]] = grantOf[t]
      BY <2>1, <1>1 DEF SoloInv, HoldersAgree, Holding
    <2>3. hand[c] \in live
      BY <2>1, <2>2, <1>1 DEF Astray, Excused, Newer, Revoked
    <2> QED BY <2>2, <2>3, <1>1 DEF LivesOn
  <1>5. \A e \in Calls : pc[e] = "callback_save" => hand[e] \in live
    BY DEF SoloInv, CallbackLives
  <1>6. /\ l \in Locations /\ l \notin Holding /\ Tokens' \ Tokens = {} /\ live' = live
        /\ l \notin {"refresh", "save", "clear", "exchange", "callback_save"}
    BY <1>1, <1>3 DEF Locations, Holding
  <1>7. NeedsCached(c)' => cached'[c] \in Tokens
    BY <1>1, <1>2 DEF NeedsCached, TypeInv, CallTypes
  <1> QED BY <1>1, <1>2, <1>3, <1>4, <1>5, <1>6, <1>7, SoloStep

\* A callback saves, a disconnect revokes or clears: nothing is astray.
LEMMA NothingSolo ==
  ASSUME TypeInv, SoloInv, NEW c \in Calls, NEW l \in {"clear", "done"},
         pc' = [pc EXCEPT ![c] = l], UNCHANGED <<grantOf, lost>>, revoked \subseteq revoked',
         \A d \in Calls \ {c} : hand'[d] = hand[d] /\ cached'[d] = cached[d],
         \A t \in Tokens : ~Astray(t)',
         \A e \in Calls \ {c} : pc[e] = "callback_save" => hand[e] \in live',
         l = "clear" => hand'[c] \in Tokens /\ grantOf[hand'[c]] \in revoked'
  PROVE  SoloInv'
  <1>1. Tokens' = Tokens /\ Grows /\ Tokens' \ Tokens = {}
    BY DEF Tokens, Grows
  <1>2. KeptSafe' /\ NoneStrays
    BY <1>1 DEF KeptSafe, NoneStrays
  <1>3. l \in Locations /\ l \notin {"refresh", "save", "exchange", "callback_save"}
    BY DEF Locations
  <1>4. ~NeedsCached(c)'
    BY DEF NeedsCached, TypeInv, CallTypes
  <1>5. \A t \in Tokens' : ~Astray(t)'
    BY <1>1
  <1> QED BY <1>1, <1>2, <1>3, <1>4, <1>5, SoloStep

LEMMA CallbackSaveSolo ==
  ASSUME TypeInv, FateInv, SoloInv, NEW c \in Calls, CallbackSave(c)
  PROVE  SoloInv'
  <1>1. /\ pc[c] = "callback_save" /\ pc' = [pc EXCEPT ![c] = "done"]
        /\ UNCHANGED <<grantOf, live, revoked, lost>>
        /\ \A d \in Calls \ {c} : hand'[d] = hand[d] /\ cached'[d] = cached[d]
    BY DEF CallbackSave, Finish, intuit, TypeInv, CallTypes
  <1>2. \A t \in Tokens : ~Astray(t)'
    <2> SUFFICES ASSUME NEW t \in Tokens PROVE ~Astray(t)'
      OBVIOUS
    <2>1. ~Astray(t)
      BY <1>1, NothingAstray
    <2> QED BY <2>1, <1>1 DEF Astray, Excused, Newer, Revoked, Tokens
  <1>3. \A e \in Calls \ {c} : pc[e] = "callback_save" => hand[e] \in live'
    BY <1>1 DEF SoloInv, CallbackLives
  <1> QED BY <1>1, <1>2, <1>3, NothingSolo

LEMMA RevokeSolo ==
  ASSUME OneInstance, TypeInv, LockHeldInCritical, FateInv, SoloInv, NEW c \in Calls,
         Revoke(c) \/ RevocationLost(c)
  PROVE  SoloInv'
  <1> DEFINE g == grantOf[hand[c]]
  <1>1. /\ pc[c] = "revoke" /\ hand[c] \in Tokens /\ UNCHANGED <<grantOf, lost>>
        /\ revoked' = revoked \cup {g} /\ live' = {t \in live : grantOf[t] # g}
        /\ \A d \in Calls \ {c} : hand'[d] = hand[d] /\ cached'[d] = cached[d]
    BY DEF Revoke, RevocationLost, EndGrant, Finish, client, TypeInv, CallTypes, HoldsToken
  <1>2. PICK l \in {"clear", "done"} :
           pc' = [pc EXCEPT ![c] = l] /\ (l = "clear" => hand'[c] = hand[c])
    BY DEF Revoke, RevocationLost, Goto, Finish, client
  <1>3. Tokens' = Tokens /\ Grows
    BY <1>1 DEF Tokens, Grows
  <1>4. \A t \in Tokens : ~Astray(t)'
    <2> SUFFICES ASSUME NEW t \in Tokens, Astray(t)' PROVE FALSE
      OBVIOUS
    <2>1. grantOf[t] # g /\ t \notin live
      BY <1>1 DEF Astray, Excused, Revoked
    <2>2. Astray(t)
      BY <2>1, <1>3, ExcuseStays DEF Astray
    <2> QED BY <2>1, <2>2, <1>1 DEF SoloInv, HoldersAgree, Holding
  <1>5. ASSUME NEW e \in Calls \ {c}, pc[e] = "callback_save" PROVE hand[e] \in live'
    <2>1. hand[e] \in live
      BY <1>5 DEF SoloInv, CallbackLives
    <2>2. grantOf[hand[e]] # g
      BY <1>1, <1>5 DEF FateInv, CallbackIsFresh
    <2> QED BY <2>1, <2>2, <1>1
  <1> QED BY <1>1, <1>2, <1>4, <1>5, NothingSolo

LEMMA ClearSolo ==
  ASSUME TypeInv, SoloInv, NEW c \in Calls, Clear(c)
  PROVE  SoloInv'
  <1>1. /\ pc[c] = "clear" /\ pc' = [pc EXCEPT ![c] = "done"]
        /\ UNCHANGED <<grantOf, live, revoked, lost>>
        /\ \A d \in Calls \ {c} : hand'[d] = hand[d] /\ cached'[d] = cached[d]
    BY DEF Clear, Finish, intuit, TypeInv, CallTypes
  <1>2. \A t \in Tokens : ~Astray(t)'
    <2> SUFFICES ASSUME NEW t \in Tokens, Astray(t) PROVE FALSE
      BY <1>1 DEF Astray, Excused, Newer, Revoked, Tokens
    <2>1. grantOf[hand[c]] = grantOf[t] /\ Revoked(hand[c])
      BY <1>1 DEF SoloInv, HoldersAgree, Holding, ClearsRevoked
    <2> QED BY <2>1 DEF Astray, Excused, Revoked
  <1>3. \A e \in Calls \ {c} : pc[e] = "callback_save" => hand[e] \in live'
    BY <1>1 DEF SoloInv, CallbackLives
  <1> QED BY <1>1, <1>2, <1>3, NothingSolo

LEMMA StepSolo ==
  ASSUME OneInstance, OneCallback, TypeInv, LockHeldInCritical, FateInv, SoloInv,
         NEW c \in Calls, Step(c)
  PROVE  SoloInv'
  <1>1. CASE Load(c)
    <2>1. /\ pc[c] = "load" /\ UNCHANGED <<grantOf, live, revoked, store, lost>>
          /\ \A d \in Calls \ {c} : hand'[d] = hand[d] /\ cached'[d] = cached[d]
      BY <1>1 DEF Load, Finish, intuit, TypeInv, CallTypes
    <2>2. PICK l \in {"check", "done"} :
             pc' = [pc EXCEPT ![c] = l] /\ (l = "check" => cached'[c] \in Tokens)
      BY <1>1 DEF Load, Goto, Finish, TypeInv, CallTypes, SystemTypes
    <2>3. NeedsCached(c)' => cached'[c] \in Tokens
      BY <2>2 DEF NeedsCached, TypeInv, CallTypes
    <2> QED BY <2>1, <2>2, <2>3, QuietSolo DEF Locations, Holding
  <1>2. CASE LoadFails(c)
    BY <1>2, QuietSolo
    DEF LoadFails, Finish, intuit, Locations, Holding, TypeInv, CallTypes,
        SoloInv, HoldsCached, NeedsCached
  <1>3. CASE CheckExpiry(c)
    BY <1>3, QuietSolo
    DEF CheckExpiry, Goto, Resume, Finish, intuit, client, Locations, Holding, TypeInv, CallTypes,
        SoloInv, HoldsCached, NeedsCached
  <1>4. CASE Accepted(c)
    BY <1>4, QuietSolo
    DEF Accepted, Finish, intuit, Locations, Holding, TypeInv, CallTypes,
        SoloInv, HoldsCached, NeedsCached
  <1>5. CASE Unauthorized(c)
    BY <1>5, QuietSolo
    DEF Unauthorized, Goto, Finish, intuit, Locations, Holding, TypeInv, CallTypes,
        SoloInv, HoldsCached, NeedsCached
  <1>6. CASE AcquireLock(c)
    BY <1>6, QuietSolo
    DEF AcquireLock, Goto, intuit, client, Locations, Holding, TypeInv, CallTypes,
        SoloInv, HoldsCached, NeedsCached
  <1>7. CASE Adopt(c)
    BY <1>7, QuietSolo
    DEF Adopt, Resume, Goto, Finish, intuit, SystemTypes, Locations, Holding, TypeInv, CallTypes,
        SoloInv, HoldsCached, NeedsCached
  <1>8. CASE RefreshFails(c)
    BY <1>8, QuietSolo
    DEF RefreshFails, Finish, intuit, Locations, Holding, TypeInv, CallTypes,
        SoloInv, HoldsCached, NeedsCached
  <1>9. CASE SaveFails(c)
    BY <1>9, QuietSolo
    DEF SaveFails, Finish, intuit, Locations, Holding, TypeInv, CallTypes,
        SoloInv, HoldsCached, NeedsCached
  <1>10. CASE AuthorizeFails(c)
    BY <1>10, QuietSolo
    DEF AuthorizeFails, Finish, intuit, Locations, Holding, TypeInv, CallTypes,
        SoloInv, HoldsCached, NeedsCached
  <1>11. CASE CallbackSaveFails(c)
    BY <1>11, QuietSolo
    DEF CallbackSaveFails, Finish, intuit, Locations, Holding, TypeInv, CallTypes,
        SoloInv, HoldsCached, NeedsCached
  <1>12. CASE NothingToDisconnect(c)
    BY <1>12, QuietSolo
    DEF NothingToDisconnect, Finish, intuit, Locations, Holding, TypeInv, CallTypes,
        SoloInv, HoldsCached, NeedsCached
  <1>13. CASE RevokeFails(c)
    BY <1>13, QuietSolo
    DEF RevokeFails, Finish, intuit, Locations, Holding, TypeInv, CallTypes,
        SoloInv, HoldsCached, NeedsCached
  <1>14. CASE ClearFails(c)
    BY <1>14, QuietSolo
    DEF ClearFails, Finish, intuit, Locations, Holding, TypeInv, CallTypes,
        SoloInv, HoldsCached, NeedsCached
  <1>15. CASE NetworkFails(c)
    BY <1>15, QuietSolo
    DEF NetworkFails, Finish, intuit, Locations, Holding, TypeInv, CallTypes,
        SoloInv, HoldsCached, NeedsCached
  <1> QED BY <1>1, <1>2, <1>3, <1>4, <1>5, <1>6, <1>7, <1>8,
             <1>9, <1>10, <1>11, <1>12, <1>13, <1>14, <1>15,
             ChooseSolo, RotationSolo, AuthorizeSolo, SaveSolo, CallbackSaveSolo, RevokeSolo, ClearSolo
          DEF Step, RequestStep, RefreshStep, CallbackStep, DisconnectStep

LEMMA NextSolo ==
  ASSUME OneInstance, OneCallback, TypeInv, LockHeldInCritical, FateInv, SoloInv, [Next]_vars
  PROVE  SoloInv'
  <1>1. CASE UNCHANGED <<grantOf, live, revoked, store, pc, cached, hand, lost>>
    BY <1>1
    DEF SoloInv, KeptSafe, PresentsUsable, HoldersAgree, CallbackLives, ClearsRevoked,
        CallbacksOnly, HoldsCached, NeedsCached, LivesOn, Astray, Excused, Newer, Revoked, Tokens
  <1>2. ASSUME NEW t, Expire(t) \/ Withdraw(t) PROVE SoloInv'
    BY <1>1, <1>2 DEF Expire, Withdraw, intuit, client
  <1>3. ASSUME NEW i \in Instances, Crash(i) PROVE SoloInv'
    <2>1. UNCHANGED <<grantOf, live, revoked, store>> /\ lost \subseteq lost'
      BY <1>3 DEF Crash, intuit
    <2>2. \A d \in Calls :
            \/ pc'[d] = "done" /\ (pc[d] = "save" => hand[d] \in lost')
            \/ /\ pc'[d] = pc[d] /\ hand'[d] = hand[d] /\ cached'[d] = cached[d]
      BY <1>3 DEF Crash
    <2>3. Tokens' = Tokens /\ Grows
      BY <2>1 DEF Tokens, Grows
    <2>4. NoneStrays
      BY <2>1, <2>3, NoneStraysWhen
    <2>5. KeptSafe'
      <3> SUFFICES ASSUME NEW t \in Tokens, Astray(t)' PROVE LivesOn(grantOf[t])'
        BY <2>3 DEF KeptSafe
      <3>1. LivesOn(grantOf[t])
        BY <2>3, <2>4 DEF NoneStrays, SoloInv, KeptSafe
      <3>2. \A x \in lost' : grantOf[x] # grantOf[t]
        BY <2>1 DEF Astray, Excused
      <3> QED BY <2>1, <2>2, <3>1, <3>2 DEF LivesOn
    <2>6. PresentsUsable'
      <3> SUFFICES ASSUME NEW d \in Calls, pc[d] \in {"refresh", "save"}, hand'[d] = hand[d]
                   PROVE  hand'[d] \in Tokens' /\ ~Astray(hand[d])'
        BY <2>2 DEF PresentsUsable
      <3>1. hand[d] \in Tokens /\ ~Astray(hand[d])
        BY DEF SoloInv, PresentsUsable
      <3>2. ASSUME NEW t, t = hand[d] PROVE ~Astray(t)'
        BY <2>3, <2>4, <3>1, <3>2 DEF NoneStrays
      <3> QED BY <2>3, <3>1, <3>2 DEF Astray, Excused, Newer, Revoked
    <2>7. HoldersAgree'
      BY <2>1, <2>2, <2>4 DEF NoneStrays, SoloInv, HoldersAgree, Holding
    <2>8. CallbackLives' /\ ClearsRevoked' /\ CallbacksOnly' /\ HoldsCached'
      BY <2>1, <2>2, <2>3
      DEF SoloInv, CallbackLives, ClearsRevoked, CallbacksOnly, HoldsCached, NeedsCached, Revoked
    <2> QED BY <2>5, <2>6, <2>7, <2>8 DEF SoloInv
  <1> QED BY StepSolo, <1>1, <1>2, <1>3 DEF Next, AllDone, vars

\* Under one instance's lock the loser of a race never presents an invalidated
\* refresh token, beside at most one callback: see RefreshPresentsLive.
THEOREM LockPreventsStaleRefresh ==
  ASSUME OneInstance, OneCallback
  PROVE  Spec => []RefreshPresentsLive
  <1>1. TypeInv /\ LockHeldInCritical /\ FateInv /\ SoloInv /\ [Next]_vars => SoloInv'
    BY NextSolo
  <1>2. TypeInv /\ LockHeldInCritical /\ FateInv /\ [Next]_vars => FateInv'
    BY NextFate
  <1>3. SoloInv => RefreshPresentsLive
    BY DEF SoloInv, PresentsUsable, Astray, Excused, Newer, RefreshPresentsLive
  <1>4. Spec => []LockHeldInCritical
    BY LockDiscipline
  <1> QED BY <1>1, <1>2, <1>3, <1>4, InitType, NextType, InitFate, InitSolo, PTL DEF Spec
=============================================================================
