-------------------------- MODULE TeamAndSkillsProofs --------------------------
(***************************************************************************)
(* What SkillInstalls promises, for any number of users, names, handlers,   *)
(* files, skills and faults; and then what Membership promises, as `Team`   *)
(* of MCTeamAndSkills, for any people, organizations, calls and faults.     *)
(***************************************************************************)
EXTENDS MCTeamAndSkills, FiniteSetTheorems, TLAPS

-----------------------------------------------------------------------------
(* The inductive invariants                                                 *)

(* A handler that looks for a name has one, one that installs has an id. *)
HasArguments(k) ==
    /\ k.at \in {"check", "insert", "look", "browse"} => k.name \in Names
    /\ k.at \in {"look", "browse", "install"} => k.id \in Ids

(* Types; ids and files are counted. *)
TypeInv ==
    /\ TypeOK
    /\ call \in [Calls -> Call \cup {Null}]
    /\ \A c \in Calls : call[c] # Null => HasArguments(call[c])
    /\ made \in 0..MaxSkills /\ files \in 0..MaxFiles
    /\ \A n \in Names : skill[n] # Null => skill[n].id <= made

(* What a handler counts as installed is, or was uninstalled meanwhile. *)
DoneInv ==
    \A c \in Calls : call[c] # Null =>
        \A id \in call[c].done : <<call[c].user, id>> \in installs \/ id \in call[c].undone

Holds(c, f) == call[c] # Null /\ call[c].file = f

(* A handler that will make a skill of a file, and one that has. *)
Naming(c, f) == Holds(c, f) /\ call[c].at \in {"check", "insert"}
Making(c, f) == Holds(c, f) /\ call[c].at \in {"install", "drop"}

MadeOf(n, f) == skill[n] # Null /\ skill[n].file = f

(* The names a skill made of a file has, or may yet be given. *)
IsName(n, f) ==
    \/ \E c \in Calls : Naming(c, f) /\ call[c].name = n
    \/ MadeOf(n, f)
    \/ preview[f] # Null /\ preview[f].name = n

OneName(f) == \A m, n \in Names : IsName(m, f) /\ IsName(n, f) => m = n

(* The preview of a file goes when the skill made of it is installed. *)
PreviewGoes(f) ==
    preview[f] # Null /\ (\E n \in Names : MadeOf(n, f)) => \E c \in Calls : Making(c, f)

(* Nothing knows a file that is being read, but its handler; nor a file     *)
(* still to come.                                                           *)
Unknown(f) == preview[f] = Null /\ \A n \in Names : ~MadeOf(n, f)

FilesInv ==
    /\ \A f \in Files : f > files => Unknown(f) /\ \A c \in Calls : ~Holds(c, f)
    /\ \A c \in Calls, f \in Files : At(c, "file") /\ Holds(c, f) =>
          Unknown(f) /\ \A d \in Calls : Holds(d, f) => d = c

NameInv == \A f \in Files \ crossed : OneName(f) /\ PreviewGoes(f)
IInv == TypeInv /\ DoneInv /\ FilesInv /\ NameInv
-----------------------------------------------------------------------------
(* Frames                                                                   *)

(* What most steps leave as it is, or lets fade. *)
SkillsStay == UNCHANGED <<skill, made>> /\ installs' \subseteq Users \X Current

CardsTyped ==
    /\ preview' \in [Files -> Preview \cup {Null}]
    /\ card' \in [Files -> {PreviewCard, CollisionCard, StatusCard}]

PreviewsFade ==
    \A f \in Files :
        preview'[f] # Null => preview[f] # Null /\ preview'[f].name = preview[f].name

(* Only handler c moves. *)
Others(c) ==
    /\ call' \in [Calls -> Call \cup {Null}]
    /\ call'[c] # Null => HasArguments(call'[c])
    /\ \A d \in Calls \ {c} : call'[d] = call[d]

LEMMA TypeKeeps ==
    ASSUME TypeInv, NEW c \in Calls, SkillsStay, CardsTyped, files' \in 0..MaxFiles, Others(c)
    PROVE  TypeInv'
<1>1. Current' = Current
  BY DEF SkillsStay, Current
<1>2. TypeOK'
  BY <1>1 DEF TypeInv, TypeOK, SkillsStay, CardsTyped, Others
<1>3. \A d \in Calls : call'[d] # Null => HasArguments(call'[d])
  BY DEF TypeInv, Others
<1> QED  BY <1>2, <1>3 DEF TypeInv, SkillsStay, Others, HasArguments

LEMMA FilesKeep ==
    ASSUME FilesInv, files' = files,
           \A c \in Calls : \A f : Holds(c, f)' => Holds(c, f),
           \A c \in Calls : At(c, "file")' => At(c, "file"),
           \A f \in Files : Unknown(f) => Unknown(f)'
    PROVE  FilesInv'
  BY DEF FilesInv

LEMMA NameKeeps ==
    ASSUME NameInv, crossed \subseteq crossed',
           \A f \in Files \ crossed' :
               /\ \A n \in Names : IsName(n, f)' => IsName(n, f)
               /\ PreviewGoes(f)'
    PROVE  NameInv'
  BY DEF NameInv, OneName

(* Presses and the passing of time only let previews fade. *)
LEMMA PreviewsKeep ==
    ASSUME IInv, UNCHANGED <<rows, call, files, crossed>>, CardsTyped, PreviewsFade
    PROVE  IInv'
<1>1. UNCHANGED <<skill, installs, made>>
  BY DEF rows
<1>2. Current' = Current
  BY <1>1 DEF Current
<1>3. TypeInv'
  <2>1. TypeOK'
    BY <1>1, <1>2 DEF IInv, TypeInv, TypeOK, CardsTyped
  <2> QED  BY <1>1, <2>1 DEF IInv, TypeInv, HasArguments
<1>4. DoneInv'
  BY <1>1 DEF IInv, DoneInv
<1>5. \A c \in Calls : \A f : (Holds(c, f)' <=> Holds(c, f)) /\ (Making(c, f)' <=> Making(c, f))
                            /\ (Naming(c, f)' <=> Naming(c, f))
  BY DEF Holds, Making, Naming
<1>6. \A n \in Names : \A f : MadeOf(n, f)' <=> MadeOf(n, f)
  BY <1>1 DEF MadeOf
<1>7. \A f \in Files : Unknown(f) => Unknown(f)'
  BY <1>6 DEF Unknown, PreviewsFade
<1>8. \A c \in Calls : At(c, "file")' => At(c, "file")
  BY DEF At
<1>9. FilesInv'
  BY <1>5, <1>7, <1>8, FilesKeep DEF IInv
<1>10. ASSUME NEW f \in Files \ crossed'
       PROVE  /\ \A n \in Names : IsName(n, f)' => IsName(n, f)
              /\ PreviewGoes(f)'
  <2>1. \A n \in Names : IsName(n, f)' => IsName(n, f)
    BY <1>5, <1>6 DEF IsName, PreviewsFade
  <2>2. PreviewGoes(f)
    BY DEF IInv, NameInv
  <2>3. PreviewGoes(f)'
    BY <1>5, <1>6, <2>2 DEF PreviewGoes, PreviewsFade
  <2> QED  BY <2>1, <2>3
<1>11. NameInv'
  BY <1>10, NameKeeps DEF IInv
<1> QED  BY <1>3, <1>4, <1>9, <1>11 DEF IInv

(* A handler begins: what it holds of a file, it read from its preview. *)
Begins(c) ==
    /\ call[c] = Null /\ Others(c) /\ call'[c] # Null
    /\ call'[c].done = {} /\ call'[c].at # "file"
    /\ call'[c].file \in Files => preview[call'[c].file] # Null
    /\ call'[c].file \in Files /\ call'[c].at \in {"check", "insert"} =>
          call'[c].name = preview[call'[c].file].name
    /\ UNCHANGED <<rows, preview, files, crossed>>
    /\ card' \in [Files -> {PreviewCard, CollisionCard, StatusCard}]

LEMMA BeginKeeps ==
    ASSUME IInv, NEW c \in Calls, Begins(c)
    PROVE  IInv'
<1>1. UNCHANGED <<skill, installs, made, preview, files, crossed>> /\ call[c] = Null
  BY DEF Begins, rows
<1>2. TypeInv'
  <2>1. SkillsStay /\ CardsTyped /\ files' \in 0..MaxFiles
    BY <1>1 DEF IInv, TypeInv, TypeOK, SkillsStay, CardsTyped, Begins
  <2> QED  BY <2>1, TypeKeeps DEF IInv, Begins
<1>3. \A d \in Calls \ {c} : call'[d] = call[d]
  BY DEF Begins, Others
<1>4. DoneInv'
  BY <1>1, <1>3 DEF IInv, DoneInv, Begins
<1>5. \A n \in Names : \A f : MadeOf(n, f)' <=> MadeOf(n, f)
  BY <1>1 DEF MadeOf
<1>6. \A f : Unknown(f)' <=> Unknown(f)
  BY <1>1, <1>5 DEF Unknown
<1>7. \A d \in Calls \ {c} : \A f : /\ (Holds(d, f)' <=> Holds(d, f))
                                    /\ (Making(d, f)' <=> Making(d, f))
                                    /\ (Naming(d, f)' <=> Naming(d, f))
  BY <1>3 DEF Holds, Making, Naming
<1>8. \A f \in Files : Holds(c, f)' => ~Unknown(f)
  BY DEF Begins, Holds, Unknown
<1>9. FilesInv'
  <2>1. ASSUME NEW f \in Files, f > files'
        PROVE  Unknown(f)' /\ \A d \in Calls : ~Holds(d, f)'
    BY <1>1, <1>6, <1>7, <1>8, <2>1 DEF IInv, FilesInv
  <2>2. ASSUME NEW d \in Calls, NEW f \in Files, At(d, "file")', Holds(d, f)'
        PROVE  Unknown(f)' /\ \A e \in Calls : Holds(e, f)' => e = d
    <3>1. d # c
      BY <2>2 DEF Begins, At
    <3>2. At(d, "file") /\ Holds(d, f)
      BY <1>3, <1>7, <2>2, <3>1 DEF At
    <3>3. Unknown(f) /\ \A e \in Calls : Holds(e, f) => e = d
      BY <3>2 DEF IInv, FilesInv
    <3> QED  BY <1>6, <1>7, <1>8, <3>3
  <2> QED  BY <2>1, <2>2 DEF FilesInv
<1>10. ASSUME NEW f \in Files \ crossed'
       PROVE  /\ \A n \in Names : IsName(n, f)' => IsName(n, f)
              /\ PreviewGoes(f)'
  <2>1. ASSUME NEW n \in Names, IsName(n, f)'
        PROVE  IsName(n, f)
    <3>1. CASE Naming(c, f)' /\ call'[c].name = n
      <4>1. preview[f] # Null /\ preview[f].name = n
        BY <3>1 DEF Naming, Holds, Begins
      <4> QED  BY <4>1 DEF IsName
    <3>2. CASE \E d \in Calls \ {c} : Naming(d, f)' /\ call'[d].name = n
      BY <1>3, <1>7, <3>2 DEF IsName
    <3>3. CASE MadeOf(n, f)'
      BY <1>5, <3>3 DEF IsName
    <3>4. CASE preview'[f] # Null /\ preview'[f].name = n
      BY <1>1, <3>4 DEF IsName
    <3> QED  BY <2>1, <3>1, <3>2, <3>3, <3>4 DEF IsName
  <2>2. PreviewGoes(f)
    BY <1>1 DEF IInv, NameInv
  <2>3. ASSUME NEW d \in Calls, Making(d, f)
        PROVE  Making(d, f)'
    <3>1. d # c
      BY <1>1, <2>3 DEF Making, Holds
    <3> QED  BY <1>7, <2>3, <3>1
  <2>4. PreviewGoes(f)'
    BY <1>1, <1>5, <2>2, <2>3 DEF PreviewGoes
  <2> QED  BY <2>1, <2>4
<1>11. NameInv'
  BY <1>1, <1>10, NameKeeps DEF IInv
<1> QED  BY <1>2, <1>4, <1>9, <1>11 DEF IInv
(* A handler goes on with its file, or ends. *)
GoesOn(c) ==
    call'[c] # Null =>
        /\ call'[c].user = call[c].user /\ call'[c].file = call[c].file
        /\ call'[c].undone = call[c].undone /\ call'[c].at # "file"
        /\ call'[c].at \in {"check", "insert"} =>
              call[c].at \in {"check", "insert"} /\ call'[c].name = call[c].name
        /\ \A id \in call'[c].done :
              id \in call[c].done \/ <<call[c].user, id>> \in installs'

(* The preview does not outlast the handler that made a skill of it. *)
Finishes(c) ==
    call[c].at \in {"install", "drop"} /\ call[c].file \in Files =>
        \/ call'[c] # Null /\ call'[c].at \in {"install", "drop"}
        \/ call[c].file \in crossed' \/ preview'[call[c].file] = Null

Advances(c) ==
    /\ call[c] # Null /\ Others(c) /\ GoesOn(c) /\ Finishes(c)
    /\ SkillsStay /\ installs \subseteq installs'
    /\ CardsTyped /\ PreviewsFade
    /\ files' = files /\ crossed \subseteq crossed'

LEMMA DoneKeeps ==
    ASSUME DoneInv, NEW c \in Calls, call[c] # Null, Others(c), GoesOn(c),
           installs \subseteq installs'
    PROVE  DoneInv'
<1> SUFFICES ASSUME NEW d \in Calls, call'[d] # Null, NEW id \in call'[d].done
             PROVE  <<call'[d].user, id>> \in installs' \/ id \in call'[d].undone
  BY DEF DoneInv
<1>1. CASE d = c
  BY <1>1 DEF DoneInv, GoesOn
<1>2. CASE d # c
  BY <1>2 DEF DoneInv, Others
<1> QED  BY <1>1, <1>2

(* What a handler that goes on holds, it held before. *)
LEMMA HoldsLess ==
    ASSUME NEW c \in Calls, call[c] # Null, Others(c), GoesOn(c)
    PROVE  /\ \A d \in Calls : \A f : (Holds(d, f)' => Holds(d, f))
           /\ \A d \in Calls : At(d, "file")' => At(d, "file")
           /\ \A d \in Calls : \A f : Naming(d, f)' =>
                 Naming(d, f) /\ call'[d].name = call[d].name
           /\ \A d \in Calls \ {c} : \A f : (Making(d, f)' <=> Making(d, f))
<1>1. \A d \in Calls \ {c} : call'[d] = call[d]
  BY DEF Others
<1>2. \A f : (Holds(c, f)' => Holds(c, f))
  BY DEF GoesOn, Holds
<1>3. \A f : (Naming(c, f)' => Naming(c, f) /\ call'[c].name = call[c].name)
  BY DEF GoesOn, Holds, Naming
<1>4. ~At(c, "file")'
  BY DEF GoesOn, At
<1>5. \A d \in Calls \ {c} : \A f : (Holds(d, f)' => Holds(d, f))
  BY <1>1 DEF Holds
<1>6. \A d \in Calls \ {c} : \A f : (Making(d, f)' <=> Making(d, f))
  BY <1>1 DEF Making, Holds
<1>7. \A d \in Calls \ {c} : \A f : (Naming(d, f)' => Naming(d, f) /\ call'[d].name = call[d].name)
  BY <1>1 DEF Naming, Holds
<1>8. \A d \in Calls \ {c} : At(d, "file")' => At(d, "file")
  BY <1>1 DEF At
<1>9. \A d \in Calls : \A f : (Holds(d, f)' => Holds(d, f))
  BY <1>2, <1>5
<1>10. \A d \in Calls : \A f : (Naming(d, f)' => Naming(d, f) /\ call'[d].name = call[d].name)
  BY <1>3, <1>7
<1>11. \A d \in Calls : At(d, "file")' => At(d, "file")
  BY <1>4, <1>8
<1> QED  BY <1>6, <1>9, <1>10, <1>11

LEMMA AdvanceKeeps ==
    ASSUME IInv, NEW c \in Calls, Advances(c)
    PROVE  IInv'
<1>1. /\ call[c] # Null /\ Others(c) /\ GoesOn(c) /\ Finishes(c)
      /\ SkillsStay /\ installs \subseteq installs' /\ skill' = skill
      /\ CardsTyped /\ PreviewsFade
      /\ files' = files /\ crossed \subseteq crossed'
  BY DEF Advances, SkillsStay
<1>2. TypeInv'
  <2>1. files' \in 0..MaxFiles
    BY <1>1 DEF IInv, TypeInv
  <2> QED  BY <1>1, <2>1, TypeKeeps DEF IInv
<1>3. DoneInv'
  BY <1>1, DoneKeeps DEF IInv
<1>4. \A n \in Names : \A f : (MadeOf(n, f)' <=> MadeOf(n, f))
  BY <1>1 DEF MadeOf
<1>5. \A f \in Files : Unknown(f) => Unknown(f)'
  BY <1>1, <1>4 DEF Unknown, PreviewsFade
<1>6. /\ \A d \in Calls : \A f : (Holds(d, f)' => Holds(d, f))
      /\ \A d \in Calls : At(d, "file")' => At(d, "file")
      /\ \A d \in Calls : \A f : Naming(d, f)' =>
            Naming(d, f) /\ call'[d].name = call[d].name
      /\ \A d \in Calls \ {c} : \A f : (Making(d, f)' <=> Making(d, f))
  BY <1>1, HoldsLess
<1>7. FilesInv'
  BY <1>1, <1>5, <1>6, FilesKeep DEF IInv
<1>8. ASSUME NEW f \in Files \ crossed'
      PROVE  /\ \A n \in Names : IsName(n, f)' => IsName(n, f)
             /\ PreviewGoes(f)'
  <2>1. \A n \in Names : IsName(n, f)' => IsName(n, f)
    BY <1>1, <1>4, <1>6 DEF IsName, PreviewsFade
  <2>2. PreviewGoes(f)
    BY <1>1 DEF IInv, NameInv
  <2>3. ASSUME preview'[f] # Null, NEW d \in Calls, Making(d, f)
        PROVE  Making(d, f)'
    <3>1. CASE d = c
      <4>1. call'[c] # Null /\ call'[c].at \in {"install", "drop"}
        BY <1>1, <2>3, <3>1 DEF Finishes, Making, Holds
      <4>2. call'[c].file = f
        BY <1>1, <2>3, <3>1, <4>1 DEF GoesOn, Making, Holds
      <4> QED  BY <3>1, <4>1, <4>2 DEF Making, Holds
    <3>2. CASE d # c
      BY <1>6, <2>3, <3>2
    <3> QED  BY <3>1, <3>2
  <2>4. PreviewGoes(f)'
    BY <1>1, <1>4, <2>2, <2>3 DEF PreviewGoes, PreviewsFade
  <2> QED  BY <2>1, <2>4
<1>9. NameInv'
  BY <1>1, <1>8, NameKeeps DEF IInv
<1> QED  BY <1>2, <1>3, <1>7, <1>9 DEF IInv
-----------------------------------------------------------------------------
(* Handlers that begin                                                      *)

Places == {"file", "check", "insert", "look", "install", "drop", "tell", "all", "browse",
           "uninstall"}

LEMMA FreshShape ==
    ASSUME NEW u \in Users, NEW place \in Places
    PROVE  /\ Fresh(u, place) \in Call
           /\ Fresh(u, place).at = place /\ Fresh(u, place).user = u
           /\ Fresh(u, place).file = Null /\ Fresh(u, place).done = {}
  BY DEF Fresh, Call, Places

(* Ids of skills that exist are ids. *)
LEMMA SkillShape ==
    ASSUME TypeInv, NEW n \in Names, skill[n] # Null
    PROVE  skill[n] \in Skill /\ skill[n].id \in Ids /\ skill[n].id \in Current
  BY DEF TypeInv, TypeOK, Skill, Current

LEMMA CurrentAreIds == TypeInv => Current \subseteq Ids
  BY SkillShape DEF Current

LEMMA BeginIs ==
    ASSUME IInv, NEW c \in Calls, NEW new \in Call, call[c] = Null, Become(c, new),
           HasArguments(new), new.done = {}, new.at # "file",
           new.file \in Files => preview[new.file] # Null,
           new.file \in Files /\ new.at \in {"check", "insert"} =>
               new.name = preview[new.file].name,
           UNCHANGED <<rows, cards, crossed>>
    PROVE  IInv'
<1>1. new # Null /\ call \in [Calls -> Call \cup {Null}]
  BY NullAssumption DEF IInv, TypeInv
<1>2. call' \in [Calls -> Call \cup {Null}] /\ call'[c] = new
      /\ \A d \in Calls \ {c} : call'[d] = call[d]
  BY <1>1 DEF Become
<1>3. Others(c)
  BY <1>2 DEF Others
<1>4. card \in [Files -> {PreviewCard, CollisionCard, StatusCard}]
  BY DEF IInv, TypeInv, TypeOK
<1>5. Begins(c)
  BY <1>1, <1>2, <1>3, <1>4 DEF Begins, cards
<1> QED  BY <1>5, BeginKeeps

LEMMA ConfirmKeeps ==
    ASSUME IInv, NEW c \in Calls, NEW f \in Files, Confirm(c, f)
    PROVE  IInv'
<1> DEFINE u == preview[f].user
           n == preview[f].name
           k == Fresh(u, "check")
           new == [k EXCEPT !.name = n, !.file = f]
<1>1. preview[f] # Null /\ u \in Users /\ n \in Names
  BY DEF Confirm, Found, IInv, TypeInv, TypeOK, Preview
<1>2. call[c] = Null /\ Become(c, new) /\ UNCHANGED <<rows, cards, crossed>>
  BY DEF Confirm, Begin
<1>3. n = preview[f].name
  OBVIOUS
<1> HIDE DEF u, n
<1>4. new \in Call /\ new.at = "check" /\ new.name = n /\ new.file = f /\ new.done = {}
  <2>1. k \in Call /\ k.at = "check" /\ k.file = Null /\ k.done = {}
    <3>1. "check" \in Places
      BY DEF Places
    <3> QED  BY <1>1, <3>1, FreshShape
  <2> HIDE DEF k
  <2> QED  BY <1>1, <2>1 DEF Call, Places
<1> HIDE DEF new
<1>5. HasArguments(new)
  BY <1>1, <1>4 DEF HasArguments
<1> QED  BY <1>1, <1>2, <1>3, <1>4, <1>5, BeginIs

(* A handler looks by the name of a skill that exists, for a user, and for  *)
(* a file that has a preview or for none.                                   *)
LEMMA LookBegins ==
    ASSUME IInv, NEW c \in Calls, NEW u \in Users, NEW n \in Names, skill[n] # Null,
           NEW k \in Call, k.at \in {"look", "browse"}, k.name = n, k.id = skill[n].id, k.done = {},
           k.file \in Files => preview[k.file] # Null,
           call[c] = Null, Become(c, k), UNCHANGED <<rows, cards, crossed>>
    PROVE  IInv'
<1>1. HasArguments(k)
  BY SkillShape DEF HasArguments, IInv
<1> QED  BY <1>1, BeginIs

LEMMA InstallExistingKeeps ==
    ASSUME IInv, NEW c \in Calls, NEW f \in Files, InstallExisting(c, f)
    PROVE  IInv'
<1> DEFINE u == preview[f].user
           n == preview[f].name
           id == skill[n].id
           k == Fresh(u, "look")
           new == [k EXCEPT !.name = n, !.file = f, !.id = id]
<1>1. preview[f] # Null /\ u \in Users /\ n \in Names
  BY DEF InstallExisting, Found, IInv, TypeInv, TypeOK, Preview
<1>2. CASE Cards(f, StatusCard) /\ UNCHANGED <<call, begun>>
  <2>1. UNCHANGED <<rows, preview, call, files, crossed>>
    BY <1>2 DEF InstallExisting
  <2>2. CardsTyped
    BY <1>2, <2>1 DEF CardsTyped, Cards, IInv, TypeInv, TypeOK
  <2> QED  BY <2>1, <2>2, PreviewsKeep DEF PreviewsFade
<1>3. CASE /\ skill[n] # Null /\ Begin(c, new) /\ UNCHANGED card
  <2>1. call[c] = Null /\ Become(c, new) /\ UNCHANGED <<rows, cards, crossed>>
    BY <1>3 DEF InstallExisting, Begin, cards
  <2>2. id \in Ids
    BY <1>1, <1>3, SkillShape DEF IInv
  <2>3. id = skill[n].id
    OBVIOUS
  <2> HIDE DEF u, n, id
  <2>4. /\ new \in Call /\ new.at = "look" /\ new.name = n /\ new.file = f /\ new.id = id
        /\ new.done = {}
    <3>1. k \in Call /\ k.at = "look" /\ k.file = Null /\ k.done = {}
      <4>1. u \in Users /\ "look" \in Places
        BY <1>1 DEF Places
      <4> QED  BY <4>1, FreshShape
    <3> HIDE DEF k
    <3> QED  BY <1>1, <2>2, <3>1 DEF Call, Places
  <2> HIDE DEF new
  <2> QED  BY <1>1, <1>3, <2>1, <2>3, <2>4, LookBegins
<1> QED  BY <1>2, <1>3 DEF InstallExisting

LEMMA CmdInstallKeeps ==
    ASSUME IInv, NEW c \in Calls, NEW u \in Users, NEW n \in Names,
           NEW place \in {"look", "browse"},
           IF place = "look" THEN CmdInstall(c, u, n) ELSE InstallFromBrowse(c, u, n)
    PROVE  IInv'
<1> DEFINE id == skill[n].id
           k == Fresh(u, place)
           new == [k EXCEPT !.name = n, !.id = id]
<1>1. skill[n] # Null /\ call[c] = Null /\ Become(c, new) /\ UNCHANGED <<rows, cards, crossed>>
  BY DEF CmdInstall, InstallFromBrowse, Begin
<1>2. id \in Ids
  BY <1>1, SkillShape DEF IInv
<1>3. id = skill[n].id
  OBVIOUS
<1> HIDE DEF id
<1>4. /\ new \in Call /\ new.at = place /\ new.name = n /\ new.file = Null /\ new.id = id
      /\ new.done = {}
  <2>1. k \in Call /\ k.at = place /\ k.file = Null /\ k.done = {}
    <3>1. place \in Places
      BY DEF Places
    <3> QED  BY <1>2, <3>1, FreshShape
  <2> HIDE DEF k
  <2> QED  BY <1>2, <2>1 DEF Call, Places
<1> HIDE DEF new
<1> QED  BY <1>1, <1>3, <1>4, NullAssumption, LookBegins

(* A handler that is given the id of a skill. *)
LEMMA IdBegins ==
    ASSUME IInv, NEW c \in Calls, NEW u \in Users, NEW n \in Names, skill[n] # Null,
           NEW place \in {"install", "uninstall"},
           call[c] = Null, Become(c, [Fresh(u, place) EXCEPT !.id = skill[n].id]),
           UNCHANGED <<rows, cards, crossed>>
    PROVE  IInv'
<1> DEFINE id == skill[n].id
           k == Fresh(u, place)
           new == [k EXCEPT !.id = id]
<1>1. id \in Ids /\ Become(c, new)
  BY SkillShape DEF IInv
<1> HIDE DEF id
<1>2. /\ new \in Call /\ new.at = place /\ new.file = Null /\ new.id = id /\ new.done = {}
  <2>1. k \in Call /\ k.at = place /\ k.file = Null /\ k.done = {}
    <3>1. place \in Places
      BY DEF Places
    <3> QED  BY <3>1, FreshShape
  <2> HIDE DEF k
  <2> QED  BY <1>1, <2>1 DEF Call, Places
<1> HIDE DEF new
<1>3. HasArguments(new)
  BY <1>1, <1>2 DEF HasArguments
<1> QED  BY <1>1, <1>2, <1>3, NullAssumption, BeginIs

LEMMA IdsKeep ==
    ASSUME IInv, NEW c \in Calls, NEW u \in Users, NEW n \in Names,
           \/ AgentInstall(c, u, n) \/ AgentUninstall(c, u, n) \/ CmdRemove(c, u, n)
           \/ WebInstall(c, u, n) \/ WebUninstall(c, u, n)
    PROVE  IInv'
<1>1. PICK place \in {"install", "uninstall"} :
          /\ skill[n] # Null /\ call[c] = Null
          /\ Become(c, [Fresh(u, place) EXCEPT !.id = skill[n].id])
          /\ UNCHANGED <<rows, cards, crossed>>
  BY DEF AgentInstall, AgentUninstall, CmdRemove, WebInstall, WebUninstall, Visible, Begin
<1> QED  BY <1>1, IdBegins

LEMMA InstallAllKeeps ==
    ASSUME IInv, NEW c \in Calls, NEW u \in Users, InstallAll(c, u)
    PROVE  IInv'
<1> DEFINE todo == Installable(u)
           k == Fresh(u, "all")
           new == [k EXCEPT !.todo = todo]
<1>1. call[c] = Null /\ Become(c, new) /\ UNCHANGED <<rows, cards, crossed>>
  BY DEF InstallAll, Begin
<1>2. todo \subseteq Ids
  BY CurrentAreIds DEF Installable, IInv
<1> HIDE DEF todo
<1>3. /\ new \in Call /\ new.at = "all" /\ new.file = Null /\ new.done = {}
  <2>1. k \in Call /\ k.at = "all" /\ k.file = Null /\ k.done = {}
    <3>1. "all" \in Places
      BY DEF Places
    <3> QED  BY <1>2, <3>1, FreshShape
  <2> HIDE DEF k
  <2> QED  BY <1>2, <2>1 DEF Call, Places
<1> HIDE DEF new
<1>4. HasArguments(new)
  BY <1>3 DEF HasArguments
<1> QED  BY <1>1, <1>3, <1>4, NullAssumption, BeginIs

LEMMA WebCreateKeeps ==
    ASSUME IInv, NEW c \in Calls, NEW u \in Users, NEW n \in Names, WebCreate(c, u, n)
    PROVE  IInv'
<1>1. PICK owner \in {u, Null} :
          Begin(c, [Fresh(u, "check") EXCEPT !.name = n, !.owner = owner])
  BY DEF WebCreate
<1> DEFINE k == Fresh(u, "check")
           new == [k EXCEPT !.name = n, !.owner = owner]
<1>2. call[c] = Null /\ Become(c, new) /\ UNCHANGED <<rows, cards, crossed>>
  BY <1>1 DEF WebCreate, Begin
<1>3. /\ new \in Call /\ new.at = "check" /\ new.name = n /\ new.file = Null /\ new.done = {}
  <2>1. k \in Call /\ k.at = "check" /\ k.file = Null /\ k.done = {}
    <3>1. "check" \in Places
      BY DEF Places
    <3> QED  BY <3>1, FreshShape
  <2> HIDE DEF k
  <2> QED  BY <2>1 DEF Call, Places
<1> HIDE DEF new
<1>4. HasArguments(new)
  BY <1>3 DEF HasArguments
<1> QED  BY <1>2, <1>3, <1>4, NullAssumption, BeginIs
-----------------------------------------------------------------------------
(* Files                                                                    *)

LEMMA BecomeIs ==
    ASSUME TypeInv, NEW c \in Calls, NEW new \in Call \cup {Null},
           new # Null => HasArguments(new), Become(c, new)
    PROVE  Others(c) /\ call'[c] = new
  BY DEF TypeInv, Become, Others

(* A handler of a file that nothing knows yet. *)
LEMMA FileSharedKeeps ==
    ASSUME IInv, NEW c \in Calls, NEW u \in Users, NEW dm \in BOOLEAN, FileShared(c, u, dm)
    PROVE  IInv'
<1> DEFINE k == Fresh(u, "file")
           file == files + 1
           new == [k EXCEPT !.file = file]
<1>1. /\ call[c] = Null /\ Become(c, new) /\ files' = file /\ files < MaxFiles
      /\ UNCHANGED <<skill, installs, made, preview, card, crossed>>
  BY DEF FileShared, rows
<1>2. files \in Nat /\ file \in Files /\ file > files /\ files' \in 0..MaxFiles /\ MaxFiles \in Nat
  BY <1>1, BoundsAssumption DEF IInv, TypeInv, Files
<1>3. /\ new \in Call /\ new.at = "file" /\ new.file = file /\ new.done = {}
  <2>1. k \in Call /\ k.at = "file" /\ k.done = {}
    <3>1. "file" \in Places
      BY DEF Places
    <3> QED  BY <3>1, FreshShape
  <2> HIDE DEF k, file
  <2> QED  BY <1>2, <2>1 DEF Call
<1> HIDE DEF new, file
<1>4. HasArguments(new) /\ new # Null
  BY <1>3, NullAssumption DEF HasArguments
<1>5. Others(c) /\ call'[c] = new
  BY <1>1, <1>3, <1>4, BecomeIs DEF IInv
<1>6. \A d \in Calls \ {c} : call'[d] = call[d]
  BY <1>5 DEF Others
<1>7. TypeInv'
  <2>1. SkillsStay /\ CardsTyped
    BY <1>1 DEF IInv, TypeInv, TypeOK, SkillsStay, CardsTyped
  <2> QED  BY <1>2, <1>5, <2>1, TypeKeeps DEF IInv
<1>8. DoneInv'
  BY <1>1, <1>3, <1>5, <1>6 DEF IInv, DoneInv
<1>9. \A n \in Names : \A f : (MadeOf(n, f)' <=> MadeOf(n, f))
  BY <1>1 DEF MadeOf
<1>10. \A f : (Unknown(f)' <=> Unknown(f))
  BY <1>1, <1>9 DEF Unknown
<1>11. \A d \in Calls \ {c} : \A f : /\ (Holds(d, f)' <=> Holds(d, f))
                                     /\ (Making(d, f)' <=> Making(d, f))
                                     /\ (Naming(d, f)' <=> Naming(d, f))
  BY <1>6 DEF Holds, Making, Naming
<1>12. \A f : Holds(c, f)' => f = file
  BY <1>3, <1>5 DEF Holds
<1>13. Unknown(file) /\ \A d \in Calls : ~Holds(d, file)
  BY <1>2 DEF IInv, FilesInv
<1>14. FilesInv'
  <2>1. ASSUME NEW f \in Files, f > files'
        PROVE  Unknown(f)' /\ \A d \in Calls : ~Holds(d, f)'
    <3>1. f > files /\ f # file
      BY <1>1, <1>2, <2>1 DEF Files, file
    <3>2. Unknown(f) /\ \A d \in Calls : ~Holds(d, f)
      BY <3>1 DEF IInv, FilesInv
    <3> QED  BY <3>1, <3>2, <1>10, <1>11, <1>12
  <2>2. ASSUME NEW d \in Calls, NEW f \in Files, At(d, "file")', Holds(d, f)'
        PROVE  Unknown(f)' /\ \A e \in Calls : Holds(e, f)' => e = d
    <3>1. CASE d = c
      BY <2>2, <3>1, <1>10, <1>11, <1>12, <1>13
    <3>2. CASE d # c
      <4>1. At(d, "file") /\ Holds(d, f)
        BY <1>6, <1>11, <2>2, <3>2 DEF At
      <4>2. Unknown(f) /\ \A e \in Calls : Holds(e, f) => e = d
        BY <4>1 DEF IInv, FilesInv
      <4>3. f # file
        BY <4>1, <1>13
      <4> QED  BY <4>2, <4>3, <1>10, <1>11, <1>12
    <3> QED  BY <3>1, <3>2
  <2> QED  BY <2>1, <2>2 DEF FilesInv
<1>15. ASSUME NEW f \in Files \ crossed'
       PROVE  /\ \A n \in Names : IsName(n, f)' => IsName(n, f)
              /\ PreviewGoes(f)'
  <2>1. ~Naming(c, f)' /\ ~Making(c, f)
    BY <1>1, <1>3, <1>5 DEF Naming, Making, Holds
  <2>2. \A n \in Names : IsName(n, f)' => IsName(n, f)
    BY <1>1, <1>6, <1>9, <1>11, <2>1 DEF IsName
  <2>3. PreviewGoes(f)
    BY <1>1 DEF IInv, NameInv
  <2>4. PreviewGoes(f)'
    BY <1>1, <1>9, <1>11, <2>1, <2>3 DEF PreviewGoes
  <2> QED  BY <2>2, <2>4
<1>16. NameInv'
  BY <1>1, <1>15, NameKeeps DEF IInv
<1> QED  BY <1>7, <1>8, <1>14, <1>16 DEF IInv

(* A call that ends. *)
LEMMA EndIs ==
    ASSUME IInv, NEW c \in Calls, End(c)
    PROVE  Others(c) /\ call'[c] = Null /\ GoesOn(c)
<1>1. Others(c) /\ call'[c] = Null
  BY BecomeIs DEF End, IInv
<1> QED  BY <1>1 DEF GoesOn

(* The preview it makes is the first that is known of its file. *)
LEMMA CreatePreviewKeeps ==
    ASSUME IInv, NEW c \in Calls, CreatePreview(c)
    PROVE  IInv'
<1> DEFINE file == call[c].file
<1>1. /\ At(c, "file") /\ End(c) /\ call[c] # Null /\ call[c].at = "file" /\ call[c] \in Call
      /\ UNCHANGED <<skill, installs, made, files, crossed>>
  BY DEF CreatePreview, At, rows, IInv, TypeInv, TypeOK
<1>2. Others(c) /\ call'[c] = Null /\ GoesOn(c)
  BY <1>1, EndIs
<1>3. \A d \in Calls \ {c} : call'[d] = call[d]
  BY <1>2 DEF Others
<1>4. CASE UNCHANGED <<preview, card>>
  <2>1. CardsTyped /\ PreviewsFade /\ SkillsStay
    BY <1>1, <1>4 DEF IInv, TypeInv, TypeOK, CardsTyped, PreviewsFade, SkillsStay
  <2>2. Advances(c)
    BY <1>1, <1>2, <2>1 DEF Advances, Finishes
  <2> QED  BY <2>2, AdvanceKeeps
<1>5. ASSUME NEW n \in Names, Cards(file, PreviewCard),
             preview' = [preview EXCEPT ![file] =
                           [user |-> call[c].user, name |-> n, live |-> TRUE]]
      PROVE  IInv'
  <2> DEFINE new == [user |-> call[c].user, name |-> n, live |-> TRUE]
  <2>1. new \in Preview /\ new.name = n
    BY <1>1 DEF Call, Preview
  <2>2. preview' = [preview EXCEPT ![file] = new]
    BY <1>5
  <2> HIDE DEF new
  <2>3. CardsTyped /\ SkillsStay
    BY <1>1, <1>5, <2>1, <2>2 DEF IInv, TypeInv, TypeOK, CardsTyped, SkillsStay, Cards
  <2>4. \A f \in Files \ {file} : preview'[f] = preview[f]
    BY <2>2 DEF IInv, TypeInv, TypeOK
  <2>5. file \in Files => preview'[file] = new
    BY <2>2 DEF IInv, TypeInv, TypeOK
  <2>6. TypeInv'
    BY <1>1, <1>2, <2>3, TypeKeeps DEF IInv, TypeInv
  <2>7. DoneInv'
    BY <1>1, <1>2, DoneKeeps DEF IInv
  <2>8. \A m \in Names : \A f : (MadeOf(m, f)' <=> MadeOf(m, f))
    BY <1>1 DEF MadeOf
  <2>9. Holds(c, file)
    BY <1>1 DEF Holds
  <2>10. file \in Files =>
           /\ Unknown(file) /\ file <= files
           /\ \A d \in Calls : Holds(d, file) => d = c
    <3>1. \A f \in Files : Holds(c, f) => ~(f > files)
      BY DEF IInv, FilesInv
    <3>2. \A f \in Files : f \in Nat
      BY BoundsAssumption DEF Files
    <3> QED  BY <1>1, <2>9, <3>1, <3>2 DEF IInv, FilesInv, TypeInv
  <2>11. /\ \A d \in Calls : \A f : (Holds(d, f)' => Holds(d, f) /\ d # c)
         /\ \A d \in Calls : At(d, "file")' => At(d, "file")
         /\ \A d \in Calls : \A f : Naming(d, f)' =>
               Naming(d, f) /\ call'[d].name = call[d].name
         /\ \A d \in Calls \ {c} : \A f : (Making(d, f)' <=> Making(d, f))
    <3>1. \A f : ~Holds(c, f)'
      BY <1>2 DEF Holds
    <3> QED  BY <1>1, <1>2, <3>1, HoldsLess
  <2>12. FilesInv'
    <3>1. ASSUME NEW f \in Files, f > files'
          PROVE  Unknown(f)' /\ \A d \in Calls : ~Holds(d, f)'
      <4>1. f # file
        BY <1>1, <2>10, <3>1, BoundsAssumption DEF Files, IInv, TypeInv
      <4>2. Unknown(f) /\ \A d \in Calls : ~Holds(d, f)
        BY <1>1, <3>1 DEF IInv, FilesInv
      <4> QED  BY <2>4, <2>8, <2>11, <4>1, <4>2 DEF Unknown
    <3>2. ASSUME NEW d \in Calls, NEW f \in Files, At(d, "file")', Holds(d, f)'
          PROVE  Unknown(f)' /\ \A e \in Calls : Holds(e, f)' => e = d
      <4>1. At(d, "file") /\ Holds(d, f) /\ d # c
        BY <2>11, <3>2
      <4>2. Unknown(f) /\ \A e \in Calls : Holds(e, f) => e = d
        BY <4>1 DEF IInv, FilesInv
      <4>3. f # file
        BY <2>10, <4>1
      <4> QED  BY <2>4, <2>8, <2>11, <4>2, <4>3 DEF Unknown
    <3> QED  BY <3>1, <3>2 DEF FilesInv
  <2>13. ASSUME NEW f \in Files \ crossed'
         PROVE  OneName(f)' /\ PreviewGoes(f)'
    <3>1. CASE f = file
      <4>1. \A m \in Names : ~MadeOf(m, f)'
        BY <2>8, <2>10, <3>1 DEF Unknown
      <4>2. \A d \in Calls : ~Naming(d, f)'
        BY <2>10, <2>11, <3>1 DEF Naming
      <4>3. \A m \in Names : IsName(m, f)' => m = n
        BY <2>1, <2>5, <3>1, <4>1, <4>2 DEF IsName
      <4> QED  BY <4>1, <4>3 DEF OneName, PreviewGoes
    <3>2. CASE f # file
      <4>1. OneName(f) /\ PreviewGoes(f) /\ preview'[f] = preview[f]
        BY <1>1, <2>4, <3>2 DEF IInv, NameInv
      <4>2. \A m \in Names : IsName(m, f)' => IsName(m, f)
        BY <2>8, <2>11, <4>1 DEF IsName
      <4>3. ~Making(c, f)
        BY <1>1 DEF Making
      <4>4. PreviewGoes(f)'
        BY <2>8, <2>11, <4>1, <4>3 DEF PreviewGoes
      <4> QED  BY <4>1, <4>2, <4>4 DEF OneName
    <3> QED  BY <3>1, <3>2
  <2>14. NameInv'
    BY <2>13 DEF NameInv
  <2> QED  BY <2>6, <2>7, <2>12, <2>14 DEF IInv
<1> QED  BY <1>4, <1>5 DEF CreatePreview
-----------------------------------------------------------------------------
(* The steps of a handler                                                   *)

LEMMA StepIs ==
    ASSUME IInv, NEW c \in Calls, call[c] # Null, NEW new \in Call, Become(c, new),
           HasArguments(new), new.user = call[c].user, new.file = call[c].file,
           new.undone = call[c].undone, new.at # "file",
           new.at \in {"check", "insert"} =>
               call[c].at \in {"check", "insert"} /\ new.name = call[c].name,
           \A id \in new.done : id \in call[c].done \/ <<call[c].user, id>> \in installs'
    PROVE  Others(c) /\ call'[c] = new /\ call'[c] # Null /\ GoesOn(c)
<1>1. Others(c) /\ call'[c] = new
  BY BecomeIs DEF IInv
<1>2. new # Null
  BY NullAssumption
<1> QED  BY <1>1, <1>2 DEF GoesOn

(* A handler at a place is one, and what it says of itself is true. *)
LEMMA AtIs ==
    ASSUME IInv, NEW c \in Calls, NEW place, At(c, place)
    PROVE  /\ call[c] # Null /\ call[c] \in Call /\ call[c].at = place
           /\ HasArguments(call[c])
  BY DEF IInv, TypeInv, TypeOK, At

(* What a step leaves when it touches no skill, no install and no preview. *)
LEMMA QuietAdvance ==
    ASSUME IInv, NEW c \in Calls, call[c] # Null, Others(c), GoesOn(c), Finishes(c),
           UNCHANGED <<rows, preview, files>>, crossed \subseteq crossed',
           card' \in [Files -> {PreviewCard, CollisionCard, StatusCard}]
    PROVE  IInv'
<1>1. SkillsStay /\ CardsTyped /\ PreviewsFade /\ installs \subseteq installs'
  BY DEF SkillsStay, CardsTyped, PreviewsFade, rows, IInv, TypeInv, TypeOK
<1> QED  BY <1>1, AdvanceKeeps DEF Advances

LEMMA CheckNameKeeps ==
    ASSUME IInv, NEW c \in Calls, CheckName(c)
    PROVE  IInv'
<1> DEFINE k == call[c]
           new == [k EXCEPT !.at = "insert"]
<1>1. /\ k # Null /\ k \in Call /\ k.at = "check" /\ HasArguments(k)
      /\ UNCHANGED <<rows, preview, files, crossed>>
  BY AtIs DEF CheckName
<1>2. Finishes(c)
  BY <1>1 DEF Finishes
<1>3. card \in [Files -> {PreviewCard, CollisionCard, StatusCard}]
  BY DEF IInv, TypeInv, TypeOK
<1>4. CASE Go(c, "insert") /\ UNCHANGED card
  <2>1. Become(c, new)
    BY <1>4 DEF Go
  <2> HIDE DEF k
  <2>2. /\ new \in Call /\ new.at = "insert" /\ new.user = k.user /\ new.file = k.file
        /\ new.undone = k.undone /\ new.name = k.name /\ new.done = k.done
    BY <1>1 DEF Call
  <2> HIDE DEF new
  <2>3. HasArguments(new)
    BY <1>1, <2>2 DEF HasArguments
  <2>4. Others(c) /\ GoesOn(c)
    <3>1. k = call[c]
      BY DEF k
    <3> QED  BY <1>1, <2>1, <2>2, <2>3, <3>1, StepIs
  <2> QED  BY <1>1, <1>2, <1>3, <1>4, <2>4, QuietAdvance DEF k
<1>5. CASE /\ End(c)
           /\ card' = [f \in Files |-> IF f = call[c].file THEN CollisionCard ELSE card[f]]
  <2>1. card' \in [Files -> {PreviewCard, CollisionCard, StatusCard}]
    BY <1>3, <1>5
  <2>2. Others(c) /\ GoesOn(c)
    BY <1>5, EndIs
  <2> QED  BY <1>1, <1>2, <2>1, <2>2, QuietAdvance
<1> QED  BY <1>4, <1>5 DEF CheckName

LEMMA TellKeeps ==
    ASSUME IInv, NEW c \in Calls, Tell(c)
    PROVE  IInv'
<1>1. /\ call[c] # Null /\ call[c].at = "tell" /\ End(c)
      /\ UNCHANGED <<rows, preview, files, crossed>>
      /\ card' \in [Files -> {PreviewCard, CollisionCard, StatusCard}]
  BY AtIs DEF Tell, IInv, TypeInv, TypeOK
<1>2. Finishes(c)
  BY <1>1 DEF Finishes
<1> QED  BY <1>1, <1>2, EndIs, QuietAdvance

LEMMA DropPreviewKeeps ==
    ASSUME IInv, NEW c \in Calls, DropPreview(c)
    PROVE  IInv'
<1> DEFINE k == call[c]
           new == [k EXCEPT !.at = "tell"]
<1>1. /\ k # Null /\ k \in Call /\ k.at = "drop"
      /\ UNCHANGED <<skill, installs, made, card, files>>
  BY AtIs DEF DropPreview, rows
<1>2. k = call[c]
  OBVIOUS
<1>3. CASE preview' = [preview EXCEPT ![k.file] = Null] /\ Become(c, new) /\ UNCHANGED crossed
  <2>1. CardsTyped /\ PreviewsFade /\ SkillsStay /\ installs \subseteq installs'
        /\ (k.file \in Files => preview'[k.file] = Null)
    BY <1>1, <1>3 DEF CardsTyped, PreviewsFade, SkillsStay, IInv, TypeInv, TypeOK
  <2>2. Finishes(c)
    BY <2>1 DEF Finishes
  <2> HIDE DEF k
  <2>3. /\ new \in Call /\ new.at = "tell" /\ new.user = k.user /\ new.file = k.file
        /\ new.undone = k.undone /\ new.done = k.done
    BY <1>1 DEF Call
  <2>4. Become(c, new)
    BY <1>3
  <2> HIDE DEF new
  <2>5. HasArguments(new)
    BY <2>3 DEF HasArguments
  <2>6. Others(c) /\ GoesOn(c)
    BY <1>1, <1>2, <2>3, <2>4, <2>5, StepIs
  <2> QED  BY <1>1, <1>2, <1>3, <2>1, <2>2, <2>6, AdvanceKeeps DEF Advances
<1>4. CASE End(c) /\ LeftHalfWay({c}) /\ UNCHANGED preview
  <2>1. crossed \subseteq crossed' /\ (k.file \in Files => k.file \in crossed')
    BY <1>1, <1>4 DEF LeftHalfWay
  <2>2. Finishes(c)
    BY <2>1 DEF Finishes
  <2>3. card' \in [Files -> {PreviewCard, CollisionCard, StatusCard}]
    BY <1>1 DEF IInv, TypeInv, TypeOK
  <2> QED  BY <1>1, <1>4, <2>1, <2>2, <2>3, EndIs, QuietAdvance DEF rows
<1> QED  BY <1>3, <1>4 DEF DropPreview, Go

LEMMA LookKeeps ==
    ASSUME IInv, NEW c \in Calls, Look(c)
    PROVE  IInv'
<1> DEFINE k == call[c]
           id == skill[k.name].id
           at == IF k.at = "look" THEN "drop" ELSE "tell"
           found == [k EXCEPT !.at = at, !.name = Null, !.done = {id}]
           install == [k EXCEPT !.at = "install", !.name = Null]
<1>1. /\ k # Null /\ k \in Call /\ k.at \in {"look", "browse"} /\ HasArguments(k)
      /\ UNCHANGED <<rows, preview, card, files, crossed>>
  BY AtIs DEF Look, cards, At
<1>2. Finishes(c) /\ card' \in [Files -> {PreviewCard, CollisionCard, StatusCard}]
  BY <1>1 DEF Finishes, IInv, TypeInv, TypeOK
<1>3. k = call[c]
  OBVIOUS
<1>4. CASE End(c)
  BY <1>1, <1>2, <1>4, EndIs, QuietAdvance
<1>5. CASE skill[k.name] # Null /\ <<k.user, id>> \in installs /\ Become(c, found)
  <2>1. id \in Ids
    BY <1>1, <1>5, SkillShape DEF HasArguments, IInv
  <2>2. <<k.user, id>> \in installs'
    BY <1>1, <1>5 DEF rows
  <2>7. at \in {"drop", "tell"}
    OBVIOUS
  <2> HIDE DEF k, id, at
  <2>3. /\ found \in Call /\ found.at = at /\ found.user = k.user /\ found.file = k.file
        /\ found.undone = k.undone /\ found.done = {id}
    BY <1>1, <2>1, <2>7 DEF Call
  <2>4. Become(c, found)
    BY <1>5
  <2> HIDE DEF found
  <2>5. HasArguments(found)
    BY <2>3, <2>7 DEF HasArguments
  <2>6. Others(c) /\ GoesOn(c)
    BY <1>1, <1>3, <2>2, <2>3, <2>4, <2>5, <2>7, StepIs
  <2> QED  BY <1>1, <1>2, <1>3, <2>6, QuietAdvance
<1>6. CASE Become(c, install)
  <2> HIDE DEF k
  <2>1. /\ install \in Call /\ install.at = "install" /\ install.user = k.user
        /\ install.file = k.file /\ install.undone = k.undone /\ install.done = k.done
        /\ install.id = k.id
    BY <1>1 DEF Call
  <2>2. Become(c, install)
    BY <1>6
  <2> HIDE DEF install
  <2>3. HasArguments(install)
    BY <1>1, <2>1 DEF HasArguments
  <2>4. Others(c) /\ GoesOn(c)
    BY <1>1, <1>3, <2>1, <2>2, <2>3, StepIs
  <2> QED  BY <1>1, <1>2, <1>3, <2>4, QuietAdvance
<1> QED  BY <1>4, <1>5, <1>6 DEF Look

(* An installation is of a skill that exists, for a user. *)
LEMMA InstallsShape ==
    ASSUME IInv, NEW c \in Calls, call[c] # Null, NEW id \in Current, Installs(c, id),
           UNCHANGED <<skill, made>>
    PROVE  /\ SkillsStay /\ installs \subseteq installs' /\ <<call[c].user, id>> \in installs'
           /\ id \in Ids
<1>1. call[c].user \in Users /\ installs \subseteq Users \X Current
  BY DEF IInv, TypeInv, TypeOK, Call
<1>2. Current \subseteq Ids
  BY CurrentAreIds DEF IInv
<1> QED  BY <1>1, <1>2 DEF Installs, SkillsStay

LEMMA InstallKeeps ==
    ASSUME IInv, NEW c \in Calls, Install(c)
    PROVE  IInv'
<1> DEFINE k == call[c]
           at == IF k.file = Null THEN "tell" ELSE "drop"
           id == k.id
           new == [k EXCEPT !.at = at, !.done = {id}]
<1>1. /\ k # Null /\ k \in Call /\ k.at = "install"
      /\ UNCHANGED <<skill, made, preview, card, files>>
  BY AtIs DEF Install, cards
<1>2. CardsTyped /\ PreviewsFade
  BY <1>1 DEF CardsTyped, PreviewsFade, IInv, TypeInv, TypeOK
<1>3. k = call[c]
  OBVIOUS
<1>4. CASE id \in Current /\ Installs(c, id) /\ Become(c, Given(c)) /\ UNCHANGED crossed
  <2>1. /\ SkillsStay /\ installs \subseteq installs' /\ <<k.user, id>> \in installs'
        /\ id \in Ids
    BY <1>1, <1>4, InstallsShape
  <2>2. Become(c, new)
    BY <1>4 DEF Given
  <2>3. at \in {"tell", "drop"} /\ (k.file \in Files => at = "drop")
    BY NullAssumption
  <2> HIDE DEF k, at, id
  <2>4. /\ new \in Call /\ new.at = at /\ new.user = k.user /\ new.file = k.file
        /\ new.undone = k.undone /\ new.done = {id}
    BY <1>1, <2>1, <2>3 DEF Call
  <2> HIDE DEF new
  <2>5. HasArguments(new)
    BY <2>3, <2>4 DEF HasArguments
  <2>6. Others(c) /\ GoesOn(c) /\ call'[c] = new /\ call'[c] # Null
    BY <1>1, <1>3, <2>1, <2>2, <2>3, <2>4, <2>5, StepIs
  <2>7. Finishes(c)
    BY <1>3, <2>3, <2>4, <2>6 DEF Finishes
  <2> QED  BY <1>1, <1>2, <1>3, <1>4, <2>1, <2>6, <2>7, AdvanceKeeps DEF Advances
<1>5. CASE End(c) /\ LeftHalfWay({c}) /\ UNCHANGED installs
  <2>1. Others(c) /\ call'[c] = Null /\ GoesOn(c)
    BY <1>5, EndIs
  <2>2. crossed \subseteq crossed' /\ (k.file \in Files => k.file \in crossed')
    BY <1>1, <1>5 DEF LeftHalfWay
  <2>3. Finishes(c)
    BY <2>2 DEF Finishes
  <2>4. SkillsStay /\ installs \subseteq installs'
    BY <1>1, <1>5 DEF SkillsStay, IInv, TypeInv, TypeOK
  <2> QED  BY <1>1, <1>2, <2>1, <2>2, <2>3, <2>4, AdvanceKeeps DEF Advances
<1> QED  BY <1>4, <1>5 DEF Install

LEMMA InstallNextKeeps ==
    ASSUME IInv, NEW c \in Calls, InstallNext(c)
    PROVE  IInv'
<1> DEFINE k == call[c]
<1>1. /\ k # Null /\ k \in Call /\ k.at = "all"
      /\ UNCHANGED <<skill, made, preview, card, files, crossed>>
  BY AtIs DEF InstallNext, cards
<1>2. CardsTyped /\ PreviewsFade /\ Finishes(c)
  BY <1>1 DEF CardsTyped, PreviewsFade, Finishes, IInv, TypeInv, TypeOK
<1>3. k = call[c]
  OBVIOUS
<1>4. ASSUME UNCHANGED installs
      PROVE  SkillsStay /\ installs \subseteq installs'
  BY <1>1, <1>4 DEF SkillsStay, IInv, TypeInv, TypeOK
<1>5. CASE Go(c, "tell") /\ UNCHANGED installs
  <2> DEFINE new == [k EXCEPT !.at = "tell"]
  <2>1. Become(c, new)
    BY <1>5 DEF Go
  <2> HIDE DEF k
  <2>2. /\ new \in Call /\ new.at = "tell" /\ new.user = k.user /\ new.file = k.file
        /\ new.undone = k.undone /\ new.done = k.done
    BY <1>1 DEF Call
  <2> HIDE DEF new
  <2>3. HasArguments(new)
    BY <2>2 DEF HasArguments
  <2>4. Others(c) /\ GoesOn(c)
    BY <1>1, <1>3, <2>1, <2>2, <2>3, StepIs
  <2> QED  BY <1>1, <1>2, <1>3, <1>4, <1>5, <2>4, AdvanceKeeps DEF Advances
<1>6. ASSUME NEW id \in k.todo, id \in Current, Installs(c, id),
             Become(c, [k EXCEPT !.todo = @ \ {id}, !.done = @ \cup {id}])
      PROVE  IInv'
  <2> DEFINE todo == k.todo \ {id}
             done == k.done \cup {id}
             new == [k EXCEPT !.todo = todo, !.done = done]
  <2>1. Become(c, new)
    BY <1>6
  <2>2. /\ SkillsStay /\ installs \subseteq installs' /\ <<k.user, id>> \in installs'
        /\ id \in Ids
    BY <1>1, <1>6, InstallsShape
  <2> HIDE DEF k
  <2>3. todo \subseteq Ids /\ done \subseteq Ids
    BY <1>1, <2>2 DEF Call
  <2> HIDE DEF todo, done
  <2>4. /\ new \in Call /\ new.at = "all" /\ new.user = k.user /\ new.file = k.file
        /\ new.undone = k.undone /\ new.done = done
    BY <1>1, <2>3 DEF Call
  <2> HIDE DEF new
  <2>5. HasArguments(new)
    BY <2>4 DEF HasArguments
  <2>6. Others(c) /\ GoesOn(c)
    <3>1. \A i \in new.done : i \in k.done \/ <<k.user, i>> \in installs'
      BY <2>2, <2>4 DEF done
    <3> QED  BY <1>1, <1>3, <2>1, <2>4, <2>5, <3>1, StepIs
  <2> QED  BY <1>1, <1>2, <1>3, <2>2, <2>6, AdvanceKeeps DEF Advances
<1>7. ASSUME NEW id \in k.todo, Become(c, [k EXCEPT !.todo = @ \ {id}]), UNCHANGED installs
      PROVE  IInv'
  <2> DEFINE todo == k.todo \ {id}
             new == [k EXCEPT !.todo = todo]
  <2>1. Become(c, new)
    BY <1>7
  <2> HIDE DEF k
  <2>2. todo \subseteq Ids
    BY <1>1 DEF Call
  <2> HIDE DEF todo
  <2>3. /\ new \in Call /\ new.at = "all" /\ new.user = k.user /\ new.file = k.file
        /\ new.undone = k.undone /\ new.done = k.done
    BY <1>1, <2>2 DEF Call
  <2> HIDE DEF new
  <2>4. HasArguments(new)
    BY <2>3 DEF HasArguments
  <2>5. Others(c) /\ GoesOn(c)
    BY <1>1, <1>3, <2>1, <2>3, <2>4, StepIs
  <2> QED  BY <1>1, <1>2, <1>3, <1>4, <1>7, <2>5, AdvanceKeeps DEF Advances
<1> QED  BY <1>5, <1>6, <1>7 DEF InstallNext
-----------------------------------------------------------------------------
(* A skill is made                                                          *)

(* What the insertion of a row does to the rows. *)
LEMMA RowIsMade ==
    ASSUME TypeInv, NEW n \in Names, skill[n] = Null, made < MaxSkills,
           NEW new \in Skill, new.id = made + 1,
           skill' = [skill EXCEPT ![n] = new], made' = made + 1, UNCHANGED installs
    PROVE  /\ skill' \in [Names -> Skill \cup {Null}] /\ made' \in 0..MaxSkills
           /\ skill'[n] = new /\ \A m \in Names \ {n} : skill'[m] = skill[m]
           /\ \A m \in Names : skill'[m] # Null => skill'[m].id <= made'
           /\ \A l, m \in Names : l # m /\ skill'[l] # Null /\ skill'[m] # Null
                 => skill'[l].id # skill'[m].id
           /\ installs' \subseteq Users \X Current'
<1>1. /\ skill \in [Names -> Skill \cup {Null}] /\ made \in Nat /\ MaxSkills \in Nat
      /\ installs \subseteq Users \X Current
  BY BoundsAssumption DEF TypeInv, TypeOK
<1>2. /\ skill' \in [Names -> Skill \cup {Null}] /\ made' \in 0..MaxSkills
      /\ skill'[n] = new /\ \A m \in Names \ {n} : skill'[m] = skill[m]
  BY <1>1
<1>3. \A m \in Names : skill[m] # Null => skill[m].id \in Nat /\ skill[m].id <= made
  BY <1>1, SkillShape DEF TypeInv, Ids
<1>4. \A m \in Names \ {n} : skill'[m] # Null =>
          skill'[m].id = skill[m].id /\ skill'[m].id <= made /\ skill'[m].id \in Nat
  BY <1>2, <1>3
<1>5. skill'[n].id = made + 1 /\ made' = made + 1
  BY <1>2
<1>6. \A m \in Names : skill'[m] # Null => skill'[m].id <= made'
  BY <1>1, <1>4, <1>5
<1>7. \A l, m \in Names : l # m /\ skill'[l] # Null /\ skill'[m] # Null
          => skill'[l].id # skill'[m].id
  <2> SUFFICES ASSUME NEW l \in Names, NEW m \in Names, l # m,
                      skill'[l] # Null, skill'[m] # Null
               PROVE  skill'[l].id # skill'[m].id
    OBVIOUS
  <2>1. CASE l = n
    BY <2>1, <1>1, <1>4, <1>5
  <2>2. CASE m = n
    BY <2>2, <1>1, <1>4, <1>5
  <2>3. CASE l # n /\ m # n
    <3>1. skill'[l] = skill[l] /\ skill'[m] = skill[m]
      BY <2>3, <1>2
    <3> QED  BY <3>1 DEF TypeInv, TypeOK
  <2> QED  BY <2>1, <2>2, <2>3
<1>8. Current \subseteq Current'
  BY <1>2 DEF Current
<1> QED  BY <1>1, <1>2, <1>6, <1>7, <1>8

LEMMA InsertSkillKeeps ==
    ASSUME IInv, NEW c \in Calls, InsertSkill(c)
    PROVE  IInv'
<1> DEFINE k == call[c]
           n == k.name
<1>1. /\ k # Null /\ k \in Call /\ k.at = "insert" /\ n \in Names
      /\ UNCHANGED <<installs, preview, card, files>> /\ crossed \subseteq crossed'
  BY AtIs DEF InsertSkill, cards, HasArguments
<1>2. k = call[c] /\ n = k.name
  OBVIOUS
<1>3. CASE End(c) /\ UNCHANGED <<skill, made>>
  <2>1. Finishes(c)
    BY <1>1 DEF Finishes
  <2>2. card' \in [Files -> {PreviewCard, CollisionCard, StatusCard}]
    BY <1>1 DEF IInv, TypeInv, TypeOK
  <2> QED  BY <1>1, <1>3, <2>1, <2>2, EndIs, QuietAdvance DEF rows
<1>4. CASE /\ skill[n] = Null /\ made < MaxSkills /\ made' = made + 1
           /\ skill' = [skill EXCEPT ![n] = [id |-> made + 1, owner |-> k.owner, file |-> k.file]]
           /\ \/ IF k.file = Null THEN End(c)
                 ELSE Become(c, [k EXCEPT !.at = "install", !.id = made + 1, !.name = Null])
              \/ End(c) /\ crossed' = crossed \cup ({k.file} \ {Null})
  <2> DEFINE id == made + 1
             owner == k.owner
             file == k.file
             row == [id |-> id, owner |-> owner, file |-> file]
             new == [k EXCEPT !.at = "install", !.id = id, !.name = Null]
  <2>1. id \in Ids /\ id = made + 1
    BY <1>4, BoundsAssumption DEF IInv, TypeInv, Ids
  <2>2. owner \in Users \cup {Null} /\ file \in Files \cup {Null} /\ file = k.file
    BY <1>1 DEF Call
  <2>3. /\ skill' = [skill EXCEPT ![n] = row]
        /\ Become(c, new) \/ End(c)
        /\ file # Null => Become(c, new) \/ (End(c) /\ file \in crossed')
    BY <1>4
  <2> HIDE DEF k, n, id, owner, file
  <2>4. row \in Skill /\ row.id = id /\ row.file = file
    BY <2>1, <2>2 DEF Skill
  <2> HIDE DEF row
  <2>5. /\ skill' \in [Names -> Skill \cup {Null}] /\ made' \in 0..MaxSkills
        /\ skill'[n] = row /\ \A m \in Names \ {n} : skill'[m] = skill[m]
        /\ \A m \in Names : skill'[m] # Null => skill'[m].id <= made'
        /\ \A l, m \in Names : l # m /\ skill'[l] # Null /\ skill'[m] # Null
              => skill'[l].id # skill'[m].id
        /\ installs' \subseteq Users \X Current'
    BY <1>1, <1>4, <2>1, <2>3, <2>4, RowIsMade DEF IInv
  <2>6. /\ new \in Call /\ new.at = "install" /\ new.user = k.user /\ new.file = k.file
        /\ new.undone = k.undone /\ new.done = k.done /\ new.id = id
    BY <1>1, <2>1 DEF Call
  <2> HIDE DEF new
  <2>7. HasArguments(new)
    BY <2>1, <2>6 DEF HasArguments
  <2>8. /\ Others(c) /\ GoesOn(c)
        /\ file # Null /\ file \notin crossed' => call'[c] # Null /\ call'[c].at = "install"
    <3>1. CASE End(c)
      <4>1. Others(c) /\ GoesOn(c) /\ call'[c] = Null
        BY <3>1, EndIs
      <4>2. ASSUME Become(c, new)  PROVE call'[c] = new
        BY <2>6, <2>7, <4>2, BecomeIs DEF IInv
      <4>3. new # Null
        BY <2>6, NullAssumption
      <4> QED  BY <2>3, <2>6, <4>1, <4>2, <4>3
    <3>2. CASE Become(c, new)
      BY <1>1, <1>2, <2>3, <2>6, <2>7, <3>2, StepIs
    <3> QED  BY <2>3, <3>1, <3>2
  <2>9. \A d \in Calls \ {c} : call'[d] = call[d]
    BY <2>8 DEF Others
  <2>10. TypeInv'
    <3>1. TypeOK'
      BY <1>1, <2>5, <2>8 DEF IInv, TypeInv, TypeOK, Others
    <3>2. \A d \in Calls : call'[d] # Null => HasArguments(call'[d])
      BY <2>8 DEF Others, IInv, TypeInv
    <3> QED  BY <1>1, <2>5, <2>8, <3>1, <3>2 DEF IInv, TypeInv, Others, HasArguments
  <2>11. DoneInv'
    BY <1>1, <1>2, <2>8, DoneKeeps DEF IInv
  <2>12. \A m \in Names : \A f \in Files :
             (MadeOf(m, f)' => MadeOf(m, f) \/ (m = n /\ f = file))
    BY <2>4, <2>5 DEF MadeOf
  <2>13. \A f \in Files : f = file => Naming(c, f) /\ Holds(c, f)
    BY <1>1, <1>2, <2>2 DEF Naming, Holds
  <2>14. /\ \A d \in Calls : \A f : (Holds(d, f)' => Holds(d, f))
         /\ \A d \in Calls : At(d, "file")' => At(d, "file")
         /\ \A d \in Calls : \A f : Naming(d, f)' =>
               Naming(d, f) /\ call'[d].name = call[d].name
         /\ \A d \in Calls \ {c} : \A f : (Making(d, f)' <=> Making(d, f))
    BY <1>1, <1>2, <2>8, HoldsLess
  <2>15. FilesInv'
    <3>1. ASSUME NEW f \in Files, f > files'
          PROVE  Unknown(f)' /\ \A d \in Calls : ~Holds(d, f)'
      <4>1. Unknown(f) /\ \A d \in Calls : ~Holds(d, f)
        BY <1>1, <3>1 DEF IInv, FilesInv
      <4> QED  BY <1>1, <2>12, <2>13, <2>14, <4>1 DEF Unknown
    <3>2. ASSUME NEW d \in Calls, NEW f \in Files, At(d, "file")', Holds(d, f)'
          PROVE  Unknown(f)' /\ \A e \in Calls : Holds(e, f)' => e = d
      <4>1. At(d, "file") /\ Holds(d, f)
        BY <2>14, <3>2
      <4>2. Unknown(f) /\ \A e \in Calls : Holds(e, f) => e = d
        BY <4>1 DEF IInv, FilesInv
      <4>3. d # c
        BY <1>1, <1>2, <4>1 DEF At
      <4>4. f # file
        BY <2>13, <4>2, <4>3
      <4> QED  BY <1>1, <2>12, <2>14, <4>2, <4>4 DEF Unknown
    <3> QED  BY <3>1, <3>2 DEF FilesInv
  <2>16. ASSUME NEW f \in Files \ crossed'
         PROVE  /\ \A m \in Names : IsName(m, f)' => IsName(m, f)
                /\ PreviewGoes(f)'
    <3>1. \A m \in Names : IsName(m, f)' => IsName(m, f)
      <4>1. ASSUME NEW m \in Names, MadeOf(m, f)'
            PROVE  IsName(m, f)
        <5>1. CASE MadeOf(m, f)
          BY <5>1 DEF IsName
        <5>2. CASE m = n /\ f = file
          BY <1>2, <2>13, <5>2 DEF IsName
        <5> QED  BY <2>12, <4>1, <5>1, <5>2
      <4> QED  BY <1>1, <2>14, <4>1 DEF IsName
    <3>2. CASE f = file
      <4>1. Making(c, f)'
        <5>1. call'[c] # Null /\ call'[c].at = "install"
          BY <2>8, <2>16, <3>2, NullAssumption
        <5>2. call'[c].file = f
          BY <1>2, <2>2, <2>8, <3>2, <5>1 DEF GoesOn
        <5> QED  BY <5>1, <5>2 DEF Making, Holds
      <4> QED  BY <3>1, <4>1 DEF PreviewGoes
    <3>3. CASE f # file
      <4>1. PreviewGoes(f) /\ ~Making(c, f)
        BY <1>1, <1>2 DEF IInv, NameInv, Making
      <4>2. PreviewGoes(f)'
        BY <1>1, <2>12, <2>14, <3>3, <4>1 DEF PreviewGoes
      <4> QED  BY <3>1, <4>2
    <3> QED  BY <3>2, <3>3
  <2>17. NameInv'
    BY <1>1, <2>16, NameKeeps DEF IInv
  <2> QED  BY <2>10, <2>11, <2>15, <2>17 DEF IInv
<1> QED  BY <1>3, <1>4 DEF InsertSkill

-----------------------------------------------------------------------------
(* Presses that only change cards                                           *)

LEMMA UploadKeeps ==
    ASSUME IInv, NEW u \in Users, CmdUpload(u) \/ PendingExpires(u)
    PROVE  IInv'
<1>1. CardsTyped /\ PreviewsFade
  BY DEF CmdUpload, PendingExpires, CardsTyped, PreviewsFade, IInv, TypeInv, TypeOK
<1> QED  BY <1>1, PreviewsKeep DEF CmdUpload, PendingExpires

LEMMA ButtonsKeep ==
    ASSUME IInv, NEW f \in Files, Outdated(f) \/ Edit(f)
    PROVE  IInv'
<1>1. UNCHANGED <<rows, call, files, crossed, preview>> /\ card' = [card EXCEPT ![f] = StatusCard]
  BY DEF Outdated, Edit, Cards
<1>2. CardsTyped /\ PreviewsFade
  BY <1>1 DEF CardsTyped, PreviewsFade, IInv, TypeInv, TypeOK
<1> QED  BY <1>1, <1>2, PreviewsKeep

LEMMA ExpireKeeps ==
    ASSUME IInv, NEW f \in Files, Expire(f)
    PROVE  IInv'
<1> DEFINE p == preview[f]
           old == [p EXCEPT !.live = FALSE]
<1>1. p \in Preview /\ p # Null /\ preview \in [Files -> Preview \cup {Null}]
  BY DEF IInv, TypeInv, TypeOK, Expire, Found
<1>2. preview' = [preview EXCEPT ![f] = old] /\ card' = card
      /\ UNCHANGED <<rows, call, files, crossed>>
  BY DEF Expire
<1>3. p = preview[f]
  OBVIOUS
<1> HIDE DEF p
<1>4. old \in Preview /\ old.name = p.name
  BY <1>1 DEF Preview
<1> HIDE DEF old
<1>5. CardsTyped /\ PreviewsFade
  BY <1>1, <1>2, <1>3, <1>4 DEF CardsTyped, PreviewsFade, IInv, TypeInv, TypeOK
<1> QED  BY <1>2, <1>5, PreviewsKeep

LEMMA CleanupKeeps ==
    ASSUME IInv, CleanupExpired
    PROVE  IInv'
<1>1. CardsTyped /\ PreviewsFade
  BY DEF CleanupExpired, CardsTyped, PreviewsFade, Found, IInv, TypeInv, TypeOK
<1> QED  BY <1>1, PreviewsKeep DEF CleanupExpired

LEMMA CancelKeeps ==
    ASSUME IInv, NEW f \in Files, Cancel(f)
    PROVE  IInv'
<1>1. CardsTyped /\ PreviewsFade
  BY DEF Cancel, Cards, CardsTyped, PreviewsFade, IInv, TypeInv, TypeOK
<1> QED  BY <1>1, PreviewsKeep DEF Cancel

(* An edit gives the file another name: it is no skill yet, since its       *)
(* preview is there and nobody is installing it, or it has been crossed.    *)
LEMMA SubmitKeeps ==
    ASSUME IInv, NEW f \in Files, NEW n \in Names, SubmitModal(f, n)
    PROVE  IInv'
<1>1. CASE ~Found(f)
  <2>1. CardsTyped /\ PreviewsFade
    BY <1>1 DEF SubmitModal, CardsTyped, PreviewsFade, IInv, TypeInv, TypeOK
  <2> QED  BY <1>1, <2>1, PreviewsKeep DEF SubmitModal
<1>2. CASE Found(f)
  <2> DEFINE p == preview[f]
             new == [p EXCEPT !.name = n]
  <2>1. p \in Preview /\ p # Null /\ preview \in [Files -> Preview \cup {Null}]
    BY <1>2 DEF IInv, TypeInv, TypeOK, Found
  <2>2. /\ preview' = [preview EXCEPT ![f] = new] /\ card' = [card EXCEPT ![f] = PreviewCard]
        /\ crossed' = IF Confirming(f) THEN crossed \cup {f} ELSE crossed
        /\ UNCHANGED <<rows, call, files>>
    BY <1>2 DEF SubmitModal, Cards
  <2>3. p = preview[f]
    OBVIOUS
  <2> HIDE DEF p
  <2>4. new \in Preview /\ new.name = n /\ new # Null
    BY <2>1, NullAssumption DEF Preview
  <2> HIDE DEF new
  <2>5. CardsTyped /\ UNCHANGED <<skill, installs, made, call, files>>
    BY <2>1, <2>2, <2>4 DEF CardsTyped, IInv, TypeInv, TypeOK, rows
  <2>6. /\ preview'[f] = new /\ \A g \in Files \ {f} : preview'[g] = preview[g]
        /\ preview[f] # Null
    BY <2>1, <2>2, <2>3
  <2>7. TypeInv'
    <3>1. Current' = Current
      BY <2>5 DEF Current
    <3>2. TypeOK'
      BY <2>5, <3>1 DEF IInv, TypeInv, TypeOK, CardsTyped
    <3> QED  BY <2>5, <3>2 DEF IInv, TypeInv, HasArguments
  <2>8. DoneInv'
    BY <2>5 DEF IInv, DoneInv
  <2>9. /\ \A c \in Calls : \A g : /\ (Holds(c, g)' <=> Holds(c, g))
                                   /\ (Making(c, g)' <=> Making(c, g))
                                   /\ (Naming(c, g)' <=> Naming(c, g))
        /\ \A c \in Calls : At(c, "file")' <=> At(c, "file")
        /\ \A m \in Names : \A g : MadeOf(m, g)' <=> MadeOf(m, g)
    BY <2>5 DEF Holds, Making, Naming, MadeOf, At
  <2>10. \A g \in Files : Unknown(g) => Unknown(g)'
    BY <2>6, <2>9 DEF Unknown
  <2>11. FilesInv'
    BY <2>5, <2>9, <2>10, FilesKeep DEF IInv
  <2>12. ASSUME NEW g \in Files \ crossed'
         PROVE  OneName(g)' /\ PreviewGoes(g)'
    <3>1. g \in Files \ crossed
      BY <2>2
    <3>2. OneName(g) /\ PreviewGoes(g)
      BY <3>1 DEF IInv, NameInv
    <3>3. CASE g # f
      <4>1. \A m \in Names : IsName(m, g)' <=> IsName(m, g)
        BY <2>5, <2>6, <2>9, <3>3 DEF IsName
      <4>2. PreviewGoes(g)'
        BY <2>6, <2>9, <3>2, <3>3 DEF PreviewGoes
      <4> QED  BY <3>2, <4>1, <4>2 DEF OneName
    <3>4. CASE g = f
      <4>1. \A c \in Calls : ~Holds(c, f)
        BY <2>2, <3>4 DEF Confirming, Holds
      <4>2. \A m \in Names : ~MadeOf(m, f)
        BY <2>6, <3>2, <3>4, <4>1 DEF PreviewGoes, Making
      <4>3. \A m \in Names : IsName(m, f)' => m = n
        BY <2>4, <2>6, <2>9, <4>1, <4>2 DEF IsName, Naming
      <4>4. PreviewGoes(f)'
        BY <2>9, <4>2 DEF PreviewGoes
      <4> QED  BY <3>4, <4>3, <4>4 DEF OneName
    <3> QED  BY <3>3, <3>4
  <2> QED  BY <2>7, <2>8, <2>11, <2>12 DEF IInv, NameInv
<1> QED  BY <1>1, <1>2

-----------------------------------------------------------------------------
(* Uninstalling and deleting                                                *)

(* A handler whose user loses skills only notes which. *)
LEMMA LosesIs ==
    ASSUME NEW k \in Call, NEW ids \in SUBSET Ids, HasArguments(k)
    PROVE  /\ [k EXCEPT !.undone = @ \cup ids] \in Call
           /\ HasArguments([k EXCEPT !.undone = @ \cup ids])
           /\ \A field \in {"at", "user", "name", "file", "id", "done"} :
                 [k EXCEPT !.undone = @ \cup ids][field] = k[field]
           /\ [k EXCEPT !.undone = @ \cup ids].undone = k.undone \cup ids
<1> DEFINE new == [k EXCEPT !.undone = @ \cup ids]
<1>1. /\ new \in Call /\ new.undone = k.undone \cup ids
      /\ new.at = k.at /\ new.user = k.user /\ new.name = k.name /\ new.file = k.file
      /\ new.id = k.id /\ new.done = k.done
  BY DEF Call
<1> HIDE DEF new
<1>2. HasArguments(new)
  BY <1>1 DEF HasArguments
<1>3. \A field \in {"at", "user", "name", "file", "id", "done"} : new[field] = k[field]
  BY <1>1
<1> QED  BY <1>1, <1>2, <1>3 DEF new

LEMMA RemovedIs ==
    ASSUME IInv, NEW pairs, NEW ended \in SUBSET Calls, Removed(pairs, ended),
           NEW c \in Calls, call'[c] # Null
    PROVE  /\ call[c] # Null /\ c \notin ended /\ call'[c] \in Call
           /\ HasArguments(call'[c])
           /\ call'[c].at = call[c].at /\ call'[c].user = call[c].user
           /\ call'[c].name = call[c].name /\ call'[c].file = call[c].file
           /\ call'[c].done = call[c].done /\ call[c].undone \subseteq call'[c].undone
           /\ \A id : <<call[c].user, id>> \in pairs \cap installs => id \in call'[c].undone
<1> DEFINE k == call[c]
           ids == {pair[2] : pair \in {lost \in pairs \cap installs : lost[1] = k.user}}
           new == [k EXCEPT !.undone = @ \cup ids]
<1>1. k # Null /\ c \notin ended /\ call'[c] = new
  BY DEF Removed
<1>2. k \in Call /\ HasArguments(k)
  BY <1>1 DEF IInv, TypeInv
<1>3. ids \in SUBSET Ids
  <2>1. installs \subseteq Users \X Ids
    BY CurrentAreIds DEF IInv, TypeInv, TypeOK
  <2> QED  BY <2>1
<1>4. \A id : <<k.user, id>> \in pairs \cap installs => id \in ids
  <2> SUFFICES ASSUME NEW id, <<k.user, id>> \in pairs \cap installs
               PROVE  id \in ids
    OBVIOUS
  <2>1. <<k.user, id>>[1] = k.user /\ <<k.user, id>>[2] = id
    OBVIOUS
  <2> HIDE DEF k
  <2> QED  BY <2>1
<1>5. k = call[c]
  OBVIOUS
<1> HIDE DEF k, ids
<1>6. /\ new \in Call /\ HasArguments(new) /\ new.undone = k.undone \cup ids
      /\ \A field \in {"at", "user", "name", "file", "id", "done"} : new[field] = k[field]
  BY <1>2, <1>3, LosesIs
<1> HIDE DEF new
<1>7. /\ new.at = k.at /\ new.user = k.user /\ new.name = k.name /\ new.file = k.file
      /\ new.done = k.done
  BY <1>6
<1> QED  BY <1>1, <1>4, <1>5, <1>6, <1>7

(* Handlers that end were making no skill of a file; of the skills some may *)
(* go, and no install is left of those.                                     *)
LEMMA RemovedKeeps ==
    ASSUME IInv, NEW pairs, NEW ended \in SUBSET Calls, Removed(pairs, ended),
           \A c \in ended : At(c, "uninstall"),
           skill' \in [Names -> Skill \cup {Null}],
           \A n \in Names : skill'[n] # Null => skill'[n] = skill[n],
           installs' \subseteq Users \X Current',
           UNCHANGED <<cards, made, crossed>>
    PROVE  IInv'
<1>1. UNCHANGED <<preview, card, files, made, crossed>> /\ installs' = installs \ pairs
  BY DEF cards, Removed
<1>2. /\ call' \in [Calls -> Call \cup {Null}]
      /\ \A c \in Calls : call'[c] # Null => HasArguments(call'[c])
  <2>1. \A c \in Calls : call'[c] \in Call \cup {Null}
    BY RemovedIs
  <2>2. call' = [c \in Calls |-> call'[c]]
    BY DEF Removed
  <2>3. call' \in [Calls -> Call \cup {Null}]
    BY <2>1, <2>2
  <2> QED  BY <2>3, RemovedIs
<1>3. TypeInv'
  <2>1. TypeOK'
    BY <1>1, <1>2 DEF IInv, TypeInv, TypeOK
  <2> QED  BY <1>1, <1>2, <2>1 DEF IInv, TypeInv, HasArguments
<1>4. DoneInv'
  <2> SUFFICES ASSUME NEW c \in Calls, call'[c] # Null, NEW id \in call'[c].done
               PROVE  <<call'[c].user, id>> \in installs' \/ id \in call'[c].undone
    BY DEF DoneInv
  <2>1. /\ call[c] # Null /\ id \in call[c].done /\ call'[c].user = call[c].user
        /\ call[c].undone \subseteq call'[c].undone
        /\ <<call[c].user, id>> \in pairs \cap installs => id \in call'[c].undone
    BY RemovedIs
  <2>2. <<call[c].user, id>> \in installs \/ id \in call[c].undone
    BY <2>1 DEF IInv, DoneInv
  <2> QED  BY <1>1, <2>1, <2>2
<1>5. \A c \in Calls : \A f : /\ (Holds(c, f)' => Holds(c, f))
                              /\ (Naming(c, f)' => Naming(c, f) /\ call'[c].name = call[c].name)
                              /\ (At(c, "file")' => At(c, "file"))
  BY RemovedIs DEF Holds, Naming, At
<1>6. \A c \in Calls : \A f : Making(c, f) => Making(c, f)'
  <2> SUFFICES ASSUME NEW c \in Calls, NEW f, Making(c, f)
               PROVE  Making(c, f)'
    OBVIOUS
  <2>1. call[c] # Null /\ call[c] \in Call /\ c \notin ended
    BY DEF Making, Holds, At, IInv, TypeInv
  <2>2. call'[c] # Null
    <3> DEFINE ids == {pair[2] : pair \in {lost \in pairs \cap installs : lost[1] = call[c].user}}
               k == call[c]
               new == [k EXCEPT !.undone = @ \cup ids]
    <3>1. call'[c] = new
      BY <2>1 DEF Removed
    <3>2. ids \in SUBSET Ids
      <4>1. installs \subseteq Users \X Ids
        BY CurrentAreIds DEF IInv, TypeInv, TypeOK
      <4> QED  BY <4>1
    <3>3. k \in Call /\ HasArguments(k)
      BY <2>1 DEF IInv, TypeInv
    <3> HIDE DEF k, ids
    <3>4. new \in Call
      BY <3>2, <3>3, LosesIs
    <3> HIDE DEF new
    <3> QED  BY <3>1, <3>4, NullAssumption
  <2>3. call'[c].at = call[c].at /\ call'[c].file = call[c].file
    BY <2>2, RemovedIs
  <2> QED  BY <2>2, <2>3 DEF Making, Holds
<1>7. \A n \in Names : \A f : MadeOf(n, f)' => MadeOf(n, f)
  BY DEF MadeOf
<1>8. \A f \in Files : Unknown(f) => Unknown(f)'
  BY <1>1, <1>7 DEF Unknown
<1>9. FilesInv'
  BY <1>1, <1>5, <1>8, FilesKeep DEF IInv
<1>10. ASSUME NEW f \in Files \ crossed'
       PROVE  /\ \A n \in Names : IsName(n, f)' => IsName(n, f)
              /\ PreviewGoes(f)'
  <2>1. \A n \in Names : IsName(n, f)' => IsName(n, f)
    BY <1>1, <1>5, <1>7 DEF IsName
  <2>2. PreviewGoes(f)
    BY <1>1 DEF IInv, NameInv
  <2> QED  BY <1>1, <1>6, <1>7, <2>1, <2>2 DEF PreviewGoes
<1>11. NameInv'
  BY <1>1, <1>10, NameKeeps DEF IInv
<1> QED  BY <1>3, <1>4, <1>9, <1>11 DEF IInv

(* When the skills stay. *)
LEMMA PairsGo ==
    ASSUME IInv, NEW pairs, NEW ended \in SUBSET Calls, Removed(pairs, ended),
           \A c \in ended : At(c, "uninstall"), UNCHANGED <<cards, skill, made, crossed>>
    PROVE  IInv'
<1>1. Current' = Current
  BY DEF Current
<1>2. installs' \subseteq Users \X Current'
  BY <1>1 DEF Removed, IInv, TypeInv, TypeOK
<1>3. /\ skill' \in [Names -> Skill \cup {Null}]
      /\ \A n \in Names : skill'[n] # Null => skill'[n] = skill[n]
  BY DEF IInv, TypeInv, TypeOK
<1>4. UNCHANGED <<cards, made, crossed>>
  OBVIOUS
<1> QED  BY <1>2, <1>3, <1>4, RemovedKeeps

LEMMA UninstallKeeps ==
    ASSUME IInv, NEW c \in Calls, Uninstall(c)
    PROVE  IInv'
<1> DEFINE pairs == {<<call[c].user, call[c].id>>}
<1>1. Removed(pairs, {c}) /\ At(c, "uninstall") /\ UNCHANGED <<cards, skill, made, crossed>>
  BY DEF Uninstall
<1> HIDE DEF pairs
<1> QED  BY <1>1, PairsGo

LEMMA PressUninstallKeeps ==
    ASSUME IInv, NEW u \in Users, PressUninstall(u)
    PROVE  IInv'
<1>1. PICK id \in Installed(u) : Removed({<<u, id>>}, {})
  BY DEF PressUninstall
<1>2. UNCHANGED <<cards, skill, made, crossed>>
  BY DEF PressUninstall
<1> QED  BY <1>1, <1>2, PairsGo

(* The installs of a skill go with it, and no other skill has its id. *)
LEMMA DeleteSkillKeeps ==
    ASSUME IInv, NEW n \in Names, DeleteSkill(n)
    PROVE  IInv'
<1> DEFINE pairs == {pair \in installs : pair[2] = skill[n].id}
<1>1. /\ Removed(pairs, {}) /\ UNCHANGED <<cards, made, crossed>>
      /\ skill[n] # Null /\ skill' = [skill EXCEPT ![n] = Null]
  BY DEF DeleteSkill
<1>2. skill \in [Names -> Skill \cup {Null}]
  BY DEF IInv, TypeInv, TypeOK
<1>3. /\ skill' \in [Names -> Skill \cup {Null}] /\ skill'[n] = Null
      /\ \A m \in Names \ {n} : skill'[m] = skill[m]
  BY <1>1, <1>2
<1>4. \A m \in Names : skill'[m] # Null => skill'[m] = skill[m]
  BY <1>3
<1>5. installs' \subseteq Users \X Current'
  <2> SUFFICES ASSUME NEW pair \in installs'
               PROVE  pair \in Users \X Current'
    OBVIOUS
  <2>1. pair \in installs /\ pair[2] # skill[n].id
    BY <1>1 DEF Removed
  <2>2. PICK u \in Users, id \in Current : pair = <<u, id>>
    BY <2>1 DEF IInv, TypeInv, TypeOK
  <2>3. PICK m \in Names : skill[m] # Null /\ skill[m].id = id
    BY DEF Current
  <2>4. m # n
    BY <2>1, <2>2, <2>3
  <2>5. id \in Current'
    BY <1>3, <2>3, <2>4 DEF Current
  <2> QED  BY <2>2, <2>5
<1> HIDE DEF pairs
<1> QED  BY <1>1, <1>3, <1>4, <1>5, RemovedKeeps

(* After a restart there is no handler, and what was left half way is       *)
(* remembered as that.                                                      *)
LEMMA RestartKeeps ==
    ASSUME IInv, Restart
    PROVE  IInv'
<1>1. /\ UNCHANGED <<skill, installs, made, preview, card, files>>
      /\ call' = [c \in Calls |-> Null] /\ crossed \subseteq crossed'
  BY DEF Restart, LeftHalfWay, rows
<1>2. Current' = Current
  BY <1>1 DEF Current
<1>3. TypeInv'
  <2>1. TypeOK'
    BY <1>1, <1>2 DEF IInv, TypeInv, TypeOK
  <2> QED  BY <1>1, <2>1 DEF IInv, TypeInv
<1>4. DoneInv'
  BY <1>1 DEF DoneInv
<1>5. \A c \in Calls : \A f : ~Holds(c, f)' /\ ~Naming(c, f)' /\ ~At(c, "file")'
  BY <1>1 DEF Holds, Naming, At
<1>6. \A n \in Names : \A f : MadeOf(n, f)' <=> MadeOf(n, f)
  BY <1>1 DEF MadeOf
<1>7. \A f \in Files : Unknown(f) => Unknown(f)'
  BY <1>1, <1>6 DEF Unknown
<1>8. FilesInv'
  BY <1>1, <1>5, <1>7, FilesKeep DEF IInv
<1>9. ASSUME NEW f \in Files \ crossed'
      PROVE  /\ \A n \in Names : IsName(n, f)' => IsName(n, f)
             /\ PreviewGoes(f)'
  <2>1. \A n \in Names : IsName(n, f)' => IsName(n, f)
    BY <1>1, <1>5, <1>6 DEF IsName
  <2>2. PreviewGoes(f)
    BY <1>1 DEF IInv, NameInv
  <2>3. \A c \in Calls : ~Making(c, f)
    BY DEF Restart, LeftHalfWay, Making, Holds
  <2> QED  BY <1>1, <1>6, <2>1, <2>2, <2>3 DEF PreviewGoes
<1>10. NameInv'
  BY <1>1, <1>9, NameKeeps DEF IInv
<1> QED  BY <1>3, <1>4, <1>8, <1>10 DEF IInv

-----------------------------------------------------------------------------
(* The theorems                                                             *)

LEMMA InitKeeps == Init => IInv
<1> SUFFICES ASSUME Init
             PROVE  IInv
  OBVIOUS
<1>1. \A c \in Calls : call[c] = Null
  BY DEF Init
<1>2. \A n \in Names : skill[n] = Null
  BY DEF Init
<1>3. \A f \in Files : preview[f] = Null
  BY DEF Init
<1>4. TypeInv
  <2>1. TypeOK
    BY <1>1, <1>2, <1>3 DEF Init, TypeOK
  <2>2. call \in [Calls -> Call \cup {Null}]
    BY DEF Init
  <2>3. 0 \in 0..MaxSkills /\ 0 \in 0..MaxFiles
    BY BoundsAssumption
  <2> QED  BY <1>1, <1>2, <2>1, <2>2, <2>3 DEF Init, TypeInv
<1>5. DoneInv
  BY <1>1 DEF DoneInv
<1>6. FilesInv
  BY <1>1, <1>2, <1>3 DEF FilesInv, Unknown, MadeOf, Holds, At
<1>7. NameInv
  BY <1>1, <1>2, <1>3 DEF NameInv, OneName, PreviewGoes, IsName, Naming, Holds, MadeOf
<1> QED  BY <1>4, <1>5, <1>6, <1>7 DEF IInv

LEMMA StepKeeps == IInv /\ [Next]_vars => IInv'
<1> SUFFICES ASSUME IInv, [Next]_vars
             PROVE  IInv'
  OBVIOUS
<1>1. ASSUME NEW u \in Users, PendingExpires(u) \/ PressUninstall(u)
      PROVE  IInv'
  BY <1>1, UploadKeeps, PressUninstallKeeps
<1>2. ASSUME NEW f \in Files, Expire(f) \/ Outdated(f) \/ Edit(f) \/ Cancel(f)
      PROVE  IInv'
  BY <1>2, ExpireKeeps, ButtonsKeep, CancelKeeps
<1>3. ASSUME NEW f \in Files, NEW n \in Names, SubmitModal(f, n)
      PROVE  IInv'
  BY <1>3, SubmitKeeps
<1>4. ASSUME NEW c \in Calls, NEW u \in Users, NEW dm \in BOOLEAN, FileShared(c, u, dm)
      PROVE  IInv'
  BY <1>4, FileSharedKeeps
<1>5. ASSUME NEW c \in Calls, NEW f \in Files, Confirm(c, f) \/ InstallExisting(c, f)
      PROVE  IInv'
  BY <1>5, ConfirmKeeps, InstallExistingKeeps
<1>6. ASSUME NEW c \in Calls, NEW u \in Users, NEW n \in Names,
             \/ Command(c, u, n) \/ InstallFromBrowse(c, u, n)
             \/ AgentInstall(c, u, n) \/ AgentUninstall(c, u, n)
             \/ WebInstall(c, u, n) \/ WebUninstall(c, u, n) \/ WebCreate(c, u, n)
      PROVE  IInv'
  <2>1. CASE CmdUpload(u)
    BY <2>1, UploadKeeps
  <2>2. CASE CmdInstall(c, u, n) \/ InstallFromBrowse(c, u, n)
    BY <2>2, CmdInstallKeeps
  <2>3. CASE \/ AgentInstall(c, u, n) \/ AgentUninstall(c, u, n) \/ CmdRemove(c, u, n)
             \/ WebInstall(c, u, n) \/ WebUninstall(c, u, n)
    BY <2>3, IdsKeep
  <2>4. CASE WebCreate(c, u, n)
    BY <2>4, WebCreateKeeps
  <2> QED  BY <1>6, <2>1, <2>2, <2>3, <2>4 DEF Command
<1>7. ASSUME NEW c \in Calls, NEW u \in Users, InstallAll(c, u)
      PROVE  IInv'
  BY <1>7, InstallAllKeeps
<1>8. ASSUME NEW c \in Calls,
             \/ CreatePreview(c) \/ CheckName(c) \/ InsertSkill(c) \/ Install(c)
             \/ DropPreview(c) \/ Tell(c) \/ Look(c) \/ InstallNext(c) \/ Uninstall(c)
      PROVE  IInv'
  BY <1>8, CreatePreviewKeeps, CheckNameKeeps, InsertSkillKeeps, InstallKeeps,
     DropPreviewKeeps, TellKeeps, LookKeeps, InstallNextKeeps, UninstallKeeps
<1>9. ASSUME NEW n \in Names, DeleteSkill(n)
      PROVE  IInv'
  BY <1>9, DeleteSkillKeeps
<1>10. CASE UNCHANGED vars
  <2>1. CardsTyped /\ PreviewsFade /\ UNCHANGED <<rows, call, files, crossed>>
    BY <1>10 DEF CardsTyped, PreviewsFade, vars, cards, IInv, TypeInv, TypeOK
  <2> QED  BY <2>1, PreviewsKeep
<1> QED  BY <1>1, <1>2, <1>3, <1>4, <1>5, <1>6, <1>7, <1>8, <1>9, <1>10,
            CleanupKeeps, RestartKeeps DEF Next

LEMMA IInvAlways == Spec => []IInv
  BY InitKeeps, StepKeeps, PTL DEF Spec

(* The tables, the cards and the handlers have the shapes of the code; no   *)
(* two skills share an id, and no install outlives its skill                *)
(* (app/db/models.py:223).                                                  *)
THEOREM TypeCorrect == Spec => []TypeOK
<1>1. IInv => TypeOK
  BY DEF IInv, TypeInv
<1> QED  BY <1>1, IInvAlways, PTL

(* A handler that drops a preview or reports skills as installed reports    *)
(* only what its user has, or has lost since the handler began, whatever    *)
(* presses, commands, edits, deletions and restarts come between its steps. *)
THEOREM WhatIsToldIsInstalled == Spec => []ToldIsInstalled
<1>1. IInv => ToldIsInstalled
  BY DEF IInv, DoneInv, ToldIsInstalled
<1> QED  BY <1>1, IInvAlways, PTL

(* However many presses of Install are under way on the card of one file,   *)
(* at most one skill is made of it, unless the file was renamed in between  *)
(* or an installation of it broke off after the insertion.                  *)
THEOREM OneSkillPerFile == Spec => []OneFileOneSkill
<1>1. IInv => OneFileOneSkill
  <2> SUFFICES ASSUME IInv, NEW f \in Files \ crossed
               PROVE  Cardinality({n \in Names : skill[n] # Null /\ skill[n].file = f}) <= 1
    BY DEF OneFileOneSkill
  <2> DEFINE made_of == {n \in Names : skill[n] # Null /\ skill[n].file = f}
  <2>1. \A m, n \in made_of : m = n
    BY DEF IInv, NameInv, OneName, IsName, MadeOf
  <2>2. CASE made_of = {}
    BY <2>2, FS_EmptySet
  <2>3. CASE made_of # {}
    <3>1. PICK n \in made_of : made_of = {n}
      BY <2>1, <2>3
    <3>2. Cardinality({n}) = 1
      BY FS_Singleton
    <3> QED  BY <3>1, <3>2
  <2> QED  BY <2>2, <2>3
<1> QED  BY <1>1, IInvAlways, PTL
-----------------------------------------------------------------------------
(* The team: who is a member, and who an administrator                      *)

Managing == {"remove", "demote", "promote", "sync"}

(* The arguments a call has at each of its places. *)
HasParts(k) ==
    /\ k.at \in {"read", "owner", "create", "store", "link", "backfill", "add", "bind"} <=>
          k.op \in Team!Provisioning
    /\ k.at \in {"list", "act", "unlink"} <=> k.op \in Managing
    /\ k.at \in {"create", "store", "link", "add", "bind", "upsert"} => k.who \in People
    /\ k.at \in {"store", "add", "list", "act", "unlink"} => k.org \in Orgs
    /\ k.op \in {"remove", "demote", "promote"} => k.who \in People /\ k.who # k.by
    /\ k.op = "sync" => k.by \notin k.todo

TeamTypeInv ==
    /\ slack \in [People -> Team!Presence] /\ account \subseteq People
    /\ role \in [Orgs -> [People -> {"out", "member", "admin"}]]
    /\ org \in Orgs \cup {Null}
    /\ requests \in [Calls -> Team!Call \cup {Null}]
    /\ \A c \in Calls : requests[c] # Null =>
          /\ HasParts(requests[c])
          /\ requests[c].at \in {"link", "backfill", "add", "bind"} => org # Null
    /\ alone \in BOOLEAN

(* What a provisioning call that is alone knows of the organizations. *)
InPlace(k) ==
    /\ k.at \in {"owner", "create"} => org = Null /\ Team!Created = {}
    /\ k.at = "store" => org = Null /\ Team!Created \subseteq {k.org}
    /\ k.at = "add" => k.org = org

Provisions(c) == requests[c] # Null /\ requests[c].op \in Team!Provisioning

Sole == \A c, d \in Calls : Provisions(c) /\ Provisions(d) => c = d

OneInv ==
    alone =>
        /\ Sole
        /\ \A c \in Calls : requests[c] # Null => InPlace(requests[c])
        /\ \A o \in Team!Created :
                 \/ o = org
                 \/ \E c \in Calls : Team!At(c, "store") /\ requests[c].org = o

TeamInv == TeamTypeInv /\ OneInv
-----------------------------------------------------------------------------
(* A call moves and no organization does. *)
LEMMA RequestMoves ==
    ASSUME TeamInv, NEW c \in Calls, NEW new \in Team!Call \cup {Null}, Team!Become(c, new),
           UNCHANGED <<role, org>>, slack' \in [People -> Team!Presence],
           account' \subseteq People,
           alone' \in BOOLEAN,
           new # Null =>
               /\ HasParts(new)
               /\ new.at \in {"link", "backfill", "add", "bind"} => org # Null
               /\ new.org # Null =>
                     new.org = org \/ (requests[c] # Null /\ new.org = requests[c].org),
           alone' => alone /\ ~Team!At(c, "store"),
           alone' /\ new # Null /\ new.op \in Team!Provisioning =>
                 Provisions(c) \/ ~Team!Running(Team!Provisioning),
           alone' /\ new # Null => InPlace(new)
    PROVE  TeamInv'
<1>1. /\ requests'[c] = new /\ requests' \in [Calls -> Team!Call \cup {Null}]
      /\ \A d \in Calls \ {c} : requests'[d] = requests[d]
  BY DEF Team!Become, TeamInv, TeamTypeInv
<1>2. TeamTypeInv'
  BY <1>1 DEF TeamInv, TeamTypeInv, HasParts
<1>4. OneInv'
  <2> SUFFICES ASSUME alone'
               PROVE  /\ Sole'
                      /\ \A d \in Calls : (requests[d] # Null => InPlace(requests[d]))'
                      /\ \A o \in Team!Created' :
                            \/ o = org'
                            \/ \E d \in Calls : Team!At(d, "store")' /\ requests'[d].org = o
    BY DEF OneInv
  <2>1. Team!Created' = Team!Created
    BY DEF Team!Created
  <2>2. Sole'
    BY <1>1 DEF TeamInv, OneInv, Sole, Provisions, Team!Running
  <2>3. \A d \in Calls : (requests[d] # Null => InPlace(requests[d]))'
    BY <1>1, <2>1 DEF TeamInv, OneInv, InPlace
  <2>4. \A d \in Calls : Team!At(d, "store") =>
              d # c /\ Team!At(d, "store")' /\ requests'[d] = requests[d]
    BY <1>1 DEF Team!At
  <2>5. \A o \in Team!Created :
              \/ o = org'
              \/ \E d \in Calls : Team!At(d, "store")' /\ requests'[d].org = o
    BY <2>4 DEF TeamInv, OneInv
  <2> QED  BY <2>1, <2>2, <2>3, <2>5
<1> QED  BY <1>2, <1>4 DEF TeamInv

(* Nothing of this changes. *)
LEMMA TeamStays ==
    ASSUME TeamInv, UNCHANGED <<role, org, requests, alone>>,
           slack' \in [People -> Team!Presence], account' \subseteq People
    PROVE  TeamInv'
<1>1. TeamTypeInv'
  BY DEF TeamInv, TeamTypeInv, HasParts
<1>3. OneInv'
  BY DEF TeamInv, OneInv, Sole, Provisions, InPlace, Team!Created, Team!At
<1> QED  BY <1>1, <1>3 DEF TeamInv

(* The roles of one organization change, by one call. *)
LEMMA RoleMoves ==
    ASSUME TeamInv, NEW c \in Calls, NEW new \in Team!Call \cup {Null}, Team!Become(c, new),
           NEW o \in Orgs, requests[c] # Null, requests[c].org = o, NEW p \in People,
           NEW r \in {"out", "member", "admin"}, Team!SetRole(o, p, r),
           UNCHANGED <<slack, account, org, alone>>,
           alone => o \in Team!Created \/ o = org, requests[c].at # "store",
           new # Null =>
               /\ HasParts(new) /\ new.at \notin {"owner", "create", "store", "add"}
               /\ new.at \in {"link", "backfill", "add", "bind"} => org # Null
               /\ new.org # Null => new.org = o,
           new # Null /\ new.op \in Team!Provisioning => Provisions(c)
    PROVE  TeamInv'
<1>1. /\ requests'[c] = new /\ requests' \in [Calls -> Team!Call \cup {Null}]
      /\ \A d \in Calls \ {c} : requests'[d] = requests[d]
  BY DEF Team!Become, TeamInv, TeamTypeInv
<1>2. /\ role' \in [Orgs -> [People -> {"out", "member", "admin"}]]
      /\ role'[o][p] = r
      /\ \A q \in People \ {p} : role'[o][q] = role[o][q]
      /\ \A other \in Orgs \ {o} : role'[other] = role[other]
  BY DEF Team!SetRole, TeamInv, TeamTypeInv
<1>3. TeamTypeInv'
  BY <1>1, <1>2 DEF TeamInv, TeamTypeInv, HasParts
<1>5. OneInv'
  <2> SUFFICES ASSUME alone'
               PROVE  /\ Sole'
                      /\ \A d \in Calls : (requests[d] # Null => InPlace(requests[d]))'
                      /\ \A other \in Team!Created' :
                            \/ other = org'
                            \/ \E d \in Calls : Team!At(d, "store")' /\ requests'[d].org = other
    BY DEF OneInv
  <2>1. Team!Created' \subseteq Team!Created \cup ({o} \cap {org})
    BY <1>2 DEF Team!Created
  <2>2. Sole'
    BY <1>1 DEF TeamInv, OneInv, Sole, Provisions
  <2>3. org = Null => Team!Created' \subseteq Team!Created
    BY <2>1, TeamNullAssumption
  <2>4. \A d \in Calls : (requests[d] # Null => InPlace(requests[d]))'
    <3> SUFFICES ASSUME NEW d \in Calls, requests'[d] # Null  PROVE InPlace(requests[d])'
      OBVIOUS
    <3>1. CASE d = c
      BY <1>1, <3>1 DEF InPlace
    <3>2. CASE d # c
      <4>1. requests[d] # Null /\ requests'[d] = requests[d] /\ InPlace(requests[d])
        BY <1>1, <3>2 DEF TeamInv, OneInv
      <4> QED  BY <2>3, <4>1 DEF InPlace
    <3> QED  BY <3>1, <3>2
  <2>5. \A d \in Calls : Team!At(d, "store") =>
              d # c /\ Team!At(d, "store")' /\ requests'[d] = requests[d]
    BY <1>1 DEF Team!At
  <2>6. \A other \in Team!Created :
            other = org' \/ \E d \in Calls : Team!At(d, "store")' /\ requests'[d].org = other
    BY <2>5 DEF TeamInv, OneInv
  <2> QED  BY <2>1, <2>2, <2>4, <2>6
<1> QED  BY <1>3, <1>5 DEF TeamInv
-----------------------------------------------------------------------------
(* What calls write                                                         *)

RequestPlaces == {"read", "owner", "create", "store", "link", "backfill", "add", "bind",
           "list", "act", "unlink", "fetch", "upsert"}

LEMMA RequestShape ==
    ASSUME TeamInv, NEW c \in Calls, requests[c] # Null
    PROVE  /\ requests[c] \in Team!Call /\ HasParts(requests[c])
           /\ requests[c].op \in Team!Ops /\ requests[c].at \in RequestPlaces
           /\ requests[c].by \in People \cup {Null} /\ requests[c].who \in People \cup {Null}
           /\ requests[c].org \in Orgs \cup {Null}
           /\ requests[c].todo \in SUBSET People /\ requests[c].done \in SUBSET People
           /\ requests[c].at \in {"link", "backfill", "add", "bind"} => org # Null
           /\ alone => InPlace(requests[c])
  BY DEF TeamInv, TeamTypeInv, OneInv, Team!Call, RequestPlaces

LEMMA FreshRequest ==
    ASSUME NEW op \in Team!Ops, NEW place \in RequestPlaces
    PROVE  /\ Team!Fresh(op, place) \in Team!Call
           /\ Team!Fresh(op, place).op = op /\ Team!Fresh(op, place).at = place
           /\ Team!Fresh(op, place).by = Null /\ Team!Fresh(op, place).who = Null
           /\ Team!Fresh(op, place).org = Null /\ Team!Fresh(op, place).todo = {}
  BY DEF Team!Fresh, Team!Call, Team!Ops, RequestPlaces

(* A call goes to another place with what it has. *)
LEMMA GoShape ==
    ASSUME NEW k \in Team!Call, NEW place \in RequestPlaces
    PROVE  LET new == [k EXCEPT !.at = place] IN
           /\ new \in Team!Call /\ new.at = place /\ new.op = k.op /\ new.by = k.by
           /\ new.who = k.who /\ new.org = k.org /\ new.todo = k.todo
  BY DEF Team!Call, RequestPlaces
-----------------------------------------------------------------------------
(* The roster                                                               *)

LEMMA SyncRosterSound ==
    ASSUME TeamInv, NEW c \in Calls, NEW op \in {"roster", "periodic"},
           Team!SyncRoster(c, op)
    PROVE  TeamInv'
<1> DEFINE k == Team!Fresh(op, "fetch")
           new == [k EXCEPT !.todo = People]
<1>1. op \in Team!Ops /\ "fetch" \in RequestPlaces
  BY DEF Team!Ops, RequestPlaces
<1>2. new \in Team!Call /\ new.op = op /\ new.at = "fetch" /\ new.org = Null
  <2>1. k \in Team!Call /\ k.op = op /\ k.at = "fetch" /\ k.org = Null
    BY <1>1, FreshRequest
  <2> HIDE DEF k
  <2> QED  BY <2>1 DEF Team!Call
<1>3. requests[c] = Null /\ Team!Become(c, new)
  BY DEF Team!SyncRoster, Team!Begin
<1>4. /\ UNCHANGED <<role, org, alone>>
      /\ slack' \in [People -> Team!Presence] /\ account' \subseteq People /\ alone' \in BOOLEAN
  BY DEF Team!SyncRoster, Team!people, TeamInv, TeamTypeInv
<1> HIDE DEF new
<1>5. HasParts(new) /\ InPlace(new) /\ new.op \notin Team!Provisioning
  BY <1>2 DEF HasParts, InPlace, Team!Provisioning, Managing
<1> QED  BY <1>2, <1>3, <1>4, <1>5, RequestMoves DEF Team!At

LEMMA FetchSound ==
    ASSUME TeamInv, NEW c \in Calls, Team!Fetch(c)
    PROVE  TeamInv'
<1>1. /\ UNCHANGED <<role, org, alone>>
      /\ slack' \in [People -> Team!Presence] /\ account' \subseteq People /\ alone' \in BOOLEAN
  BY DEF Team!Fetch, Team!people, TeamInv, TeamTypeInv
<1>2. requests[c] # Null /\ requests[c].at = "fetch" /\ ~Team!At(c, "store")
  BY DEF Team!Fetch, Team!At
<1>3. CASE Team!Become(c, Null)
  BY <1>1, <1>2, <1>3, RequestMoves
<1>4. ASSUME NEW p \in requests[c].todo,
             Team!Become(c, [requests[c] EXCEPT !.at = "upsert", !.who = p, !.seen = slack[p],
                                       !.todo = @ \ {p}])
      PROVE  TeamInv'
  <2> DEFINE new == [requests[c] EXCEPT !.at = "upsert", !.who = p, !.seen = slack[p],
                                    !.todo = @ \ {p}]
  <2>1. p \in People /\ slack[p] \in Team!Presence
    BY <1>2, <1>4, RequestShape DEF TeamInv, TeamTypeInv
  <2>2. /\ new \in Team!Call /\ new.op = requests[c].op /\ new.at = "upsert"
        /\ new.org = requests[c].org
        /\ new.who = p
    BY <1>2, <2>1, RequestShape DEF Team!Call, RequestPlaces
  <2> HIDE DEF new
  <2>3. requests[c].op \notin Team!Provisioning \cup Managing
    BY <1>2, RequestShape DEF HasParts
  <2>4. HasParts(new) /\ InPlace(new) /\ new.op \notin Team!Provisioning
    BY <2>1, <2>2, <2>3 DEF HasParts, InPlace, Managing
  <2> QED  BY <1>1, <1>2, <1>4, <2>2, <2>4, RequestMoves DEF new
<1> QED  BY <1>3, <1>4 DEF Team!Fetch, Team!End

LEMMA UpsertSound ==
    ASSUME TeamInv, NEW c \in Calls, Team!Upsert(c)
    PROVE  TeamInv'
<1>1. /\ UNCHANGED <<role, org, alone>>
      /\ slack' \in [People -> Team!Presence] /\ account' \subseteq People /\ alone' \in BOOLEAN
  BY DEF Team!Upsert, Team!people, TeamInv, TeamTypeInv
<1>2. requests[c] # Null /\ requests[c].at = "upsert" /\ ~Team!At(c, "store")
  BY DEF Team!Upsert, Team!At
<1> DEFINE new == [requests[c] EXCEPT !.at = "fetch", !.who = Null, !.seen = Null]
<1>3. Team!Become(c, new)
  BY DEF Team!Upsert
<1>4. new \in Team!Call /\ new.op = requests[c].op /\ new.at = "fetch" /\ new.org = requests[c].org
  BY <1>2, RequestShape DEF Team!Call
<1> HIDE DEF new
<1>5. requests[c].op \notin Team!Provisioning \cup Managing
  BY <1>2, RequestShape DEF HasParts
<1>6. HasParts(new) /\ InPlace(new) /\ new.op \notin Team!Provisioning
  BY <1>4, <1>5 DEF HasParts, InPlace, Managing
<1> QED  BY <1>1, <1>2, <1>3, <1>4, <1>6, RequestMoves
-----------------------------------------------------------------------------
(* Provisioning                                                             *)

(* A provisioning call begins, with or without a person. *)
LEMMA ProvisioningBegins ==
    ASSUME TeamInv, NEW c \in Calls, requests[c] = Null, NEW new \in Team!Call,
           Team!Become(c, new), new.op \in Team!Provisioning, new.at = "read", new.org = Null,
           Team!NowAlone, UNCHANGED <<slack, account, role, org>>
    PROVE  TeamInv'
<1>1. HasParts(new) /\ InPlace(new)
  BY DEF HasParts, InPlace, Team!Provisioning, Managing
<1>2. /\ slack' \in [People -> Team!Presence] /\ account' \subseteq People /\ alone' \in BOOLEAN
      /\ alone' => alone /\ ~Team!Running(Team!Provisioning)
  BY DEF Team!NowAlone, TeamInv, TeamTypeInv
<1> QED  BY <1>1, <1>2, RequestMoves DEF Team!At

LEMMA InstallSound ==
    ASSUME TeamInv, NEW c \in Calls, NEW p \in People, Team!Install(c, p)
    PROVE  TeamInv'
<1> DEFINE k == Team!Fresh("install", "read")
           new == [k EXCEPT !.who = p]
<1>1. "install" \in Team!Ops /\ "read" \in RequestPlaces
  BY DEF Team!Ops, RequestPlaces
<1>2. new \in Team!Call /\ new.op = "install" /\ new.at = "read" /\ new.org = Null
  <2>1. k \in Team!Call /\ k.op = "install" /\ k.at = "read" /\ k.org = Null
    BY <1>1, FreshRequest
  <2> HIDE DEF k
  <2> QED  BY <2>1 DEF Team!Call
<1>3. /\ requests[c] = Null /\ Team!Become(c, new) /\ Team!NowAlone
      /\ UNCHANGED <<slack, account, role, org>>
  BY DEF Team!Install, Team!Begin, Team!people
<1> HIDE DEF new
<1> QED  BY <1>2, <1>3, ProvisioningBegins DEF Team!Provisioning

LEMMA ProvisionSound ==
    ASSUME TeamInv, NEW c \in Calls, Team!Provision(c) \/ Team!ProvisionMine(c)
    PROVE  TeamInv'
<1>1. PICK op \in {"provision", "mine"} :
         /\ requests[c] = Null /\ Team!Become(c, Team!Fresh(op, "read")) /\ Team!NowAlone
         /\ UNCHANGED <<slack, account, role, org>>
  BY DEF Team!Provision, Team!ProvisionMine, Team!Begin, Team!people
<1>2. op \in Team!Ops /\ op \in Team!Provisioning /\ "read" \in RequestPlaces
  BY DEF Team!Ops, RequestPlaces, Team!Provisioning
<1> QED  BY <1>1, <1>2, FreshRequest, ProvisioningBegins

(* What the steps of a provisioning call have in common: it stays one, or   *)
(* ends, and the row of the workspace and the roles are only read.          *)
LEMMA ProvisioningGoes ==
    ASSUME TeamInv, NEW c \in Calls, Provisions(c), requests[c].at # "store",
           NEW new \in Team!Call \cup {Null}, Team!Become(c, new),
           UNCHANGED <<slack, account, role, org, alone>>,
           new # Null =>
               /\ HasParts(new) /\ new.op \in Team!Provisioning /\ new.at # "store"
               /\ new.at \in {"link", "backfill", "add", "bind"} => org # Null
               /\ new.org \in {Null, org, requests[c].org}
               /\ alone => InPlace(new)
    PROVE  TeamInv'
<1>1. /\ slack' \in [People -> Team!Presence] /\ account' \subseteq People /\ alone' \in BOOLEAN
      /\ ~Team!At(c, "store") /\ requests[c] # Null
  BY DEF TeamInv, TeamTypeInv, Team!At, Provisions
<1> QED  BY <1>1, RequestMoves

LEMMA ProvisioningIsOver ==
    ASSUME TeamInv, NEW c \in Calls, Provisions(c), requests[c].at # "store",
           Team!Provisioned(c), UNCHANGED <<slack, account, role, org, alone>>
    PROVE  TeamInv'
<1>1. CASE Team!Become(c, Null)
  BY <1>1, ProvisioningGoes
<1>2. CASE Team!Become(c, Team!Fresh("provision", "read"))
  <2> DEFINE new == Team!Fresh("provision", "read")
  <2>1. "provision" \in Team!Ops /\ "read" \in RequestPlaces
    BY DEF Team!Ops, RequestPlaces
  <2>2. new \in Team!Call /\ new.op = "provision" /\ new.at = "read" /\ new.org = Null
    BY <2>1, FreshRequest
  <2> HIDE DEF new
  <2>3. HasParts(new) /\ InPlace(new) /\ new.op \in Team!Provisioning
    BY <2>2 DEF HasParts, InPlace, Team!Provisioning, Managing
  <2> QED  BY <1>2, <2>2, <2>3, ProvisioningGoes DEF new
<1> QED  BY <1>1, <1>2 DEF Team!Provisioned, Team!End

(* A call at one of the places of a provisioning is one. *)
LEMMA AtProvisioning ==
    ASSUME TeamInv, NEW c \in Calls,
           NEW place \in {"read", "owner", "create", "store", "link", "backfill", "add", "bind"},
           Team!At(c, place)
    PROVE  /\ Provisions(c) /\ requests[c] # Null /\ requests[c].at = place
           /\ requests[c] \in Team!Call /\ HasParts(requests[c])
           /\ requests[c].op \in Team!Provisioning \ Managing
           /\ alone => InPlace(requests[c])
<1>1. requests[c] # Null /\ requests[c].at = place
  BY DEF Team!At
<1>2. requests[c] \in Team!Call /\ HasParts(requests[c]) /\ (alone => InPlace(requests[c]))
  BY <1>1, RequestShape
<1> QED  BY <1>1, <1>2 DEF Provisions, HasParts, Team!Provisioning, Managing

(* While a call of its own is in none of the places where an organization   *)
(* is made, nobody is.                                                      *)
LEMMA NothingCreated ==
    ASSUME TeamInv, alone, NEW c \in Calls, Provisions(c), requests[c].at # "store",
           org = Null
    PROVE  Team!Created = {}
<1>1. \A d \in Calls : ~Team!At(d, "store")
  BY AtProvisioning DEF TeamInv, OneInv, Sole, Team!At
<1> QED  BY <1>1, TeamNullAssumption DEF TeamInv, OneInv, Team!Created

LEMMA ReadRowSound ==
    ASSUME TeamInv, NEW c \in Calls, Team!ReadRow(c)
    PROVE  TeamInv'
<1>1. UNCHANGED <<slack, account, role, org, alone>> /\ Team!At(c, "read")
  BY DEF Team!ReadRow, Team!people
<1>2. /\ Provisions(c) /\ requests[c] # Null /\ requests[c].at = "read"
      /\ requests[c] \in Team!Call /\ HasParts(requests[c])
      /\ requests[c].op \in Team!Provisioning \ Managing
  BY <1>1, AtProvisioning
<1>3. CASE org = Null /\ Team!Go(c, "owner")
  <2> DEFINE new == [requests[c] EXCEPT !.at = "owner"]
  <2>1. "owner" \in RequestPlaces
    BY DEF RequestPlaces
  <2>2. new \in Team!Call /\ new.op = requests[c].op /\ new.at = "owner"
           /\ new.org = requests[c].org
    BY <1>2, <2>1, GoShape
  <2>3. Team!Become(c, new)
    BY <1>3 DEF Team!Go
  <2> HIDE DEF new
  <2>4. alone => InPlace(new)
    BY <1>2, <1>3, <2>2, NothingCreated DEF InPlace
  <2>5. HasParts(new)
    BY <1>2, <2>2 DEF HasParts, Team!Provisioning, Managing
  <2> QED  BY <1>1, <1>2, <2>2, <2>3, <2>4, <2>5, ProvisioningGoes
<1>4. CASE Team!Provisioned(c)
  BY <1>1, <1>2, <1>4, ProvisioningIsOver
<1>5. CASE org # Null
         /\ Team!Become(c, [requests[c] EXCEPT !.at = "backfill", !.todo = Team!Unlinked])
  <2> DEFINE new == [requests[c] EXCEPT !.at = "backfill", !.todo = Team!Unlinked]
  <2>1. Team!Unlinked \in SUBSET People
    BY DEF Team!Unlinked
  <2>2. new \in Team!Call /\ new.op = requests[c].op /\ new.at = "backfill"
           /\ new.org = requests[c].org
    BY <1>2, <2>1 DEF Team!Call
  <2> HIDE DEF new
  <2>3. HasParts(new) /\ InPlace(new)
    BY <1>2, <2>2 DEF HasParts, InPlace, Team!Provisioning, Managing
  <2> QED  BY <1>1, <1>2, <1>5, <2>2, <2>3, ProvisioningGoes DEF new
<1> QED  BY <1>3, <1>4, <1>5 DEF Team!ReadRow

LEMMA OwnerSound ==
    ASSUME TeamInv, NEW c \in Calls, Team!Owner(c)
    PROVE  TeamInv'
<1>1. UNCHANGED <<slack, account, role, org, alone>> /\ Team!At(c, "owner")
  BY DEF Team!Owner, Team!people
<1>2. /\ Provisions(c) /\ requests[c] # Null /\ requests[c].at = "owner"
      /\ requests[c] \in Team!Call /\ HasParts(requests[c])
      /\ requests[c].op \in Team!Provisioning \ Managing
      /\ alone => InPlace(requests[c])
  BY <1>1, AtProvisioning
<1>3. CASE Team!Provisioned(c)
  BY <1>1, <1>2, <1>3, ProvisioningIsOver
<1>4. ASSUME NEW p \in account, Team!Become(c, [requests[c] EXCEPT !.at = "create", !.who = p])
      PROVE  TeamInv'
  <2> DEFINE new == [requests[c] EXCEPT !.at = "create", !.who = p]
  <2>1. p \in People
    BY <1>4 DEF TeamInv, TeamTypeInv
  <2>2. /\ new \in Team!Call /\ new.op = requests[c].op /\ new.at = "create"
        /\ new.org = requests[c].org
        /\ new.who = p
    BY <1>2, <2>1 DEF Team!Call
  <2> HIDE DEF new
  <2>3. HasParts(new) /\ (alone => InPlace(new))
    BY <1>2, <2>1, <2>2 DEF HasParts, InPlace, Team!Provisioning, Managing
  <2> QED  BY <1>1, <1>2, <1>4, <2>2, <2>3, ProvisioningGoes DEF new
<1> QED  BY <1>3, <1>4 DEF Team!Owner

(* A new organization has its creator, and is not yet the workspace's. *)
LEMMA CreateOrgSound ==
    ASSUME TeamInv, NEW c \in Calls, Team!CreateOrg(c)
    PROVE  TeamInv'
<1>1. UNCHANGED <<slack, account, org>> /\ Team!At(c, "create")
  BY DEF Team!CreateOrg, Team!people
<1>2. /\ Provisions(c) /\ requests[c] # Null /\ requests[c].at = "create"
      /\ requests[c] \in Team!Call /\ HasParts(requests[c])
      /\ requests[c].op \in Team!Provisioning \ Managing
      /\ alone => InPlace(requests[c])
  BY <1>1, AtProvisioning
<1>3. CASE Team!Become(c, Null) /\ alone' = FALSE /\ UNCHANGED role
  <2>1. slack' \in [People -> Team!Presence] /\ account' \subseteq People /\ alone' \in BOOLEAN
    BY <1>1, <1>3 DEF TeamInv, TeamTypeInv
  <2> QED  BY <1>1, <1>3, <2>1, RequestMoves
<1>4. ASSUME NEW o \in Orgs \ Team!Created, Team!SetRole(o, requests[c].who, "admin"),
             alone' = alone,
             Team!Become(c, [requests[c] EXCEPT !.at = "store", !.org = o])
      PROVE  TeamInv'
  <2> DEFINE new == [requests[c] EXCEPT !.at = "store", !.org = o]
  <2>1. /\ new \in Team!Call /\ new.op = requests[c].op /\ new.at = "store" /\ new.org = o
        /\ new.who = requests[c].who /\ new # Null
    BY <1>2, <1>4, TeamNullAssumption DEF Team!Call
  <2>2. Team!Become(c, new)
    BY <1>4
  <2> HIDE DEF new
  <2>3. requests[c].who \in People /\ HasParts(new)
    BY <1>2, <1>4, <2>1 DEF HasParts, Team!Provisioning, Managing
  <2>4. /\ requests'[c] = new /\ requests' \in [Calls -> Team!Call \cup {Null}]
        /\ \A d \in Calls \ {c} : requests'[d] = requests[d]
    BY <2>1, <2>2 DEF Team!Become, TeamInv, TeamTypeInv
  <2>5. /\ role' \in [Orgs -> [People -> {"out", "member", "admin"}]]
        /\ role'[o][requests[c].who] = "admin"
        /\ \A other \in Orgs \ {o} : role'[other] = role[other]
    BY <1>4, <2>3 DEF Team!SetRole, TeamInv, TeamTypeInv
  <2>6. TeamTypeInv'
    BY <1>1, <1>4, <2>1, <2>3, <2>4, <2>5 DEF TeamInv, TeamTypeInv, HasParts
  <2>8. OneInv'
    <3> SUFFICES ASSUME alone
                 PROVE  /\ Sole'
                        /\ \A d \in Calls : (requests[d] # Null => InPlace(requests[d]))'
                        /\ \A other \in Team!Created' :
                              \/ other = org'
                              \/ \E d \in Calls : Team!At(d, "store")' /\ requests'[d].org = other
      BY <1>4 DEF OneInv
    <3>1. org = Null /\ Team!Created = {}
      BY <1>2 DEF InPlace
    <3>2. Team!Created' \subseteq {o}
      BY <2>5, <3>1 DEF Team!Created
    <3>3. Sole'
      BY <1>2, <2>1, <2>4 DEF TeamInv, OneInv, Sole, Provisions
    <3>4. \A d \in Calls : (requests[d] # Null => InPlace(requests[d]))'
      <4> SUFFICES ASSUME NEW d \in Calls, requests'[d] # Null  PROVE InPlace(requests[d])'
        OBVIOUS
      <4>1. CASE d = c
        BY <1>1, <2>1, <2>4, <3>1, <3>2, <4>1 DEF InPlace
      <4>2. CASE d # c
        <5>1. requests[d] # Null /\ requests'[d] = requests[d] /\ ~Provisions(d)
          BY <1>2, <2>4, <4>2 DEF TeamInv, OneInv, Sole
        <5>2. requests[d].at \notin {"owner", "create", "store", "add"}
          BY <5>1, RequestShape DEF HasParts, Provisions
        <5> QED  BY <5>1, <5>2 DEF InPlace
      <4> QED  BY <4>1, <4>2
    <3>5. Team!At(c, "store")' /\ requests'[c].org = o
      BY <2>1, <2>4 DEF Team!At
    <3> QED  BY <3>2, <3>3, <3>4, <3>5
  <2> QED  BY <2>6, <2>8 DEF TeamInv
<1> QED  BY <1>3, <1>4 DEF Team!CreateOrg, Team!End

(* The organization of the call becomes the workspace's. *)
LEMMA StoreOrgSound ==
    ASSUME TeamInv, NEW c \in Calls, Team!StoreOrg(c)
    PROVE  TeamInv'
<1>1. UNCHANGED <<slack, account, role>> /\ Team!At(c, "store")
  BY DEF Team!StoreOrg, Team!people
<1>2. /\ Provisions(c) /\ requests[c] # Null /\ requests[c].at = "store"
      /\ requests[c] \in Team!Call /\ HasParts(requests[c])
      /\ requests[c].op \in Team!Provisioning \ Managing
      /\ alone => InPlace(requests[c])
  BY <1>1, AtProvisioning
<1>3. CASE Team!Become(c, Null) /\ alone' = FALSE /\ UNCHANGED org
  <2>1. slack' \in [People -> Team!Presence] /\ account' \subseteq People /\ alone' \in BOOLEAN
    BY <1>1, <1>3 DEF TeamInv, TeamTypeInv
  <2> QED  BY <1>1, <1>3, <2>1, RequestMoves
<1>4. CASE org' = requests[c].org /\ Team!Go(c, "link") /\ alone' = alone
  <2> DEFINE new == [requests[c] EXCEPT !.at = "link"]
  <2>1. "link" \in RequestPlaces
    BY DEF RequestPlaces
  <2>2. /\ new \in Team!Call /\ new.op = requests[c].op /\ new.at = "link"
        /\ new.org = requests[c].org
        /\ new.who = requests[c].who
    BY <1>2, <2>1, GoShape
  <2>3. Team!Become(c, new)
    BY <1>4 DEF Team!Go
  <2> HIDE DEF new
  <2>4. HasParts(new) /\ requests[c].org \in Orgs /\ requests[c].org # Null
    BY <1>2, <2>2, TeamNullAssumption DEF HasParts, Team!Provisioning, Managing
  <2>5. /\ requests'[c] = new /\ requests' \in [Calls -> Team!Call \cup {Null}]
        /\ \A d \in Calls \ {c} : requests'[d] = requests[d]
    BY <2>2, <2>3 DEF Team!Become, TeamInv, TeamTypeInv
  <2>6. TeamTypeInv'
    BY <1>1, <1>4, <2>2, <2>4, <2>5 DEF TeamInv, TeamTypeInv, HasParts
  <2>8. OneInv'
    <3> SUFFICES ASSUME alone
                 PROVE  /\ Sole'
                        /\ \A d \in Calls : (requests[d] # Null => InPlace(requests[d]))'
                        /\ \A o \in Team!Created' : o = org'
      BY <1>4 DEF OneInv
    <3>1. Team!Created' \subseteq {requests[c].org}
      BY <1>1, <1>2 DEF InPlace, Team!Created
    <3>2. Sole'
      BY <1>2, <2>2, <2>5 DEF TeamInv, OneInv, Sole, Provisions
    <3>3. ASSUME NEW d \in Calls, requests'[d] # Null  PROVE InPlace(requests[d])'
      <4>1. CASE d = c
        BY <2>2, <2>5, <4>1 DEF InPlace
      <4>2. CASE d # c
        <5>1. requests[d] # Null /\ requests'[d] = requests[d] /\ ~Provisions(d)
          BY <1>2, <2>5, <3>3, <4>2 DEF TeamInv, OneInv, Sole
        <5>2. requests[d].at \notin {"owner", "create", "store", "add"}
          BY <5>1, RequestShape DEF HasParts, Provisions
        <5> QED  BY <5>1, <5>2 DEF InPlace
      <4> QED  BY <4>1, <4>2
    <3> QED  BY <1>4, <3>1, <3>2, <3>3
  <2> QED  BY <2>6, <2>8 DEF TeamInv
<1> QED  BY <1>3, <1>4 DEF Team!StoreOrg, Team!End

LEMMA LinkOwnerSound ==
    ASSUME TeamInv, NEW c \in Calls, Team!LinkOwner(c)
    PROVE  TeamInv'
<1>1. UNCHANGED <<slack, account, role, org, alone>> /\ Team!At(c, "link")
  BY DEF Team!LinkOwner, Team!people
<1>2. /\ Provisions(c) /\ requests[c] # Null /\ requests[c].at = "link"
      /\ requests[c] \in Team!Call /\ HasParts(requests[c])
      /\ requests[c].op \in Team!Provisioning \ Managing
      /\ org # Null
  BY <1>1, AtProvisioning, RequestShape
<1>3. CASE Team!Provisioned(c)
  BY <1>1, <1>2, <1>3, ProvisioningIsOver
<1>4. CASE Team!Become(c, [requests[c] EXCEPT !.at = "backfill", !.who = Null, !.org = Null,
                                     !.todo = Team!Unlinked \ {requests[c].who}])
  <2> DEFINE new == [requests[c] EXCEPT !.at = "backfill", !.who = Null, !.org = Null,
                                    !.todo = Team!Unlinked \ {requests[c].who}]
  <2>1. Team!Unlinked \in SUBSET People
    BY DEF Team!Unlinked
  <2>2. new \in Team!Call /\ new.op = requests[c].op /\ new.at = "backfill" /\ new.org = Null
    BY <1>2, <2>1 DEF Team!Call
  <2> HIDE DEF new
  <2>3. HasParts(new) /\ InPlace(new)
    BY <1>2, <2>2 DEF HasParts, InPlace, Team!Provisioning, Managing
  <2> QED  BY <1>1, <1>2, <1>4, <2>2, <2>3, ProvisioningGoes DEF new
<1> QED  BY <1>3, <1>4 DEF Team!LinkOwner

LEMMA BackfillSound ==
    ASSUME TeamInv, NEW c \in Calls, Team!Backfill(c)
    PROVE  TeamInv'
<1>1. UNCHANGED <<slack, account, role, org, alone>> /\ Team!At(c, "backfill")
  BY DEF Team!Backfill, Team!people
<1>2. /\ Provisions(c) /\ requests[c] # Null /\ requests[c].at = "backfill"
      /\ requests[c] \in Team!Call /\ HasParts(requests[c])
      /\ requests[c].op \in Team!Provisioning \ Managing
      /\ org # Null /\ org \in Orgs /\ requests[c].todo \in SUBSET People
  BY <1>1, AtProvisioning, RequestShape DEF TeamInv, TeamTypeInv
<1>3. CASE Team!Become(c, Null)
  BY <1>1, <1>2, <1>3, ProvisioningGoes
<1>4. ASSUME NEW p \in requests[c].todo, NEW place \in {"add", "backfill"},
             Team!Become(c, [requests[c] EXCEPT !.todo = @ \ {p}, !.who = p, !.org = org,
                                                !.at = place])
      PROVE  TeamInv'
  <2> DEFINE new == [requests[c] EXCEPT !.todo = @ \ {p}, !.who = p, !.org = org, !.at = place]
  <2>1. p \in People
    BY <1>2
  <2>2. /\ new \in Team!Call /\ new.op = requests[c].op /\ new.at = place /\ new.org = org
        /\ new.who = p
    BY <1>2, <2>1 DEF Team!Call
  <2> HIDE DEF new
  <2>3. HasParts(new) /\ InPlace(new)
    BY <1>2, <2>1, <2>2 DEF HasParts, InPlace, Team!Provisioning, Managing
  <2> QED  BY <1>1, <1>2, <1>4, <2>2, <2>3, ProvisioningGoes DEF new
<1> QED  BY <1>3, <1>4 DEF Team!Backfill, Team!End

(* A member of the organization stays one, with the role he has. *)
LEMMA AddMemberSound ==
    ASSUME TeamInv, NEW c \in Calls, Team!AddMember(c)
    PROVE  TeamInv'
<1>1. UNCHANGED <<slack, account, org, alone>> /\ Team!At(c, "add")
  BY DEF Team!AddMember, Team!people
<1>2. /\ Provisions(c) /\ requests[c] # Null /\ requests[c].at = "add"
      /\ requests[c] \in Team!Call /\ HasParts(requests[c])
      /\ requests[c].op \in Team!Provisioning \ Managing
      /\ alone => InPlace(requests[c])
      /\ org # Null /\ requests[c].who \in People /\ requests[c].org \in Orgs
  BY <1>1, AtProvisioning, RequestShape DEF HasParts
<1>3. CASE Team!Go(c, "backfill") /\ UNCHANGED role
  <2> DEFINE new == [requests[c] EXCEPT !.at = "backfill"]
  <2>1. "backfill" \in RequestPlaces
    BY DEF RequestPlaces
  <2>2. new \in Team!Call /\ new.op = requests[c].op /\ new.at = "backfill"
           /\ new.org = requests[c].org
    BY <1>2, <2>1, GoShape
  <2>3. Team!Become(c, new)
    BY <1>3 DEF Team!Go
  <2> HIDE DEF new
  <2>4. HasParts(new) /\ InPlace(new)
    BY <1>2, <2>2 DEF HasParts, InPlace, Team!Provisioning, Managing
  <2> QED  BY <1>1, <1>2, <1>3, <2>2, <2>3, <2>4, ProvisioningGoes
<1>4. ASSUME NEW o \in Orgs, o = requests[c].org, NEW p \in People, p = requests[c].who,
             Team!Go(c, "bind"),
             Team!SetRole(o, p, IF role[o][p] = "out" THEN "member" ELSE role[o][p])
      PROVE  TeamInv'
  <2> DEFINE new == [requests[c] EXCEPT !.at = "bind"]
  <2>1. "bind" \in RequestPlaces
    BY DEF RequestPlaces
  <2>2. /\ new \in Team!Call /\ new.op = requests[c].op /\ new.at = "bind" /\ new.org = o
        /\ new.who = requests[c].who
    BY <1>2, <1>4, <2>1, GoShape
  <2>3. Team!Become(c, new)
    BY <1>4 DEF Team!Go
  <2> HIDE DEF new
  <2>4. HasParts(new)
    BY <1>2, <2>2 DEF HasParts, Team!Provisioning, Managing
  <2>5. PICK r \in {"out", "member", "admin"} :
           r = IF role[o][p] = "out" THEN "member" ELSE role[o][p]
    BY DEF TeamInv, TeamTypeInv
  <2>7. Team!SetRole(o, p, r) /\ (alone => o \in Team!Created \/ o = org)
    BY <1>1, <1>2, <1>4, <2>5 DEF TeamInv, TeamTypeInv, InPlace
  <2> QED  BY <1>1, <1>2, <1>4, <2>2, <2>3, <2>4, <2>7, RoleMoves
<1> QED  BY <1>2, <1>3, <1>4 DEF Team!AddMember

LEMMA BindSound ==
    ASSUME TeamInv, NEW c \in Calls, Team!Bind(c)
    PROVE  TeamInv'
<1>1. UNCHANGED <<slack, account, role, org, alone>> /\ Team!At(c, "bind")
  BY DEF Team!Bind, Team!people
<1>2. /\ Provisions(c) /\ requests[c] # Null /\ requests[c].at = "bind"
      /\ requests[c] \in Team!Call /\ HasParts(requests[c])
      /\ requests[c].op \in Team!Provisioning \ Managing
      /\ org # Null
  BY <1>1, AtProvisioning, RequestShape
<1> DEFINE new == [requests[c] EXCEPT !.at = "backfill"]
<1>3. "backfill" \in RequestPlaces
  BY DEF RequestPlaces
<1>4. new \in Team!Call /\ new.op = requests[c].op /\ new.at = "backfill"
         /\ new.org = requests[c].org
  BY <1>2, <1>3, GoShape
<1>5. Team!Become(c, new)
  BY DEF Team!Bind, Team!Go
<1> HIDE DEF new
<1>6. HasParts(new) /\ InPlace(new)
  BY <1>2, <1>4 DEF HasParts, InPlace, Team!Provisioning, Managing
<1> QED  BY <1>1, <1>2, <1>4, <1>5, <1>6, ProvisioningGoes
-----------------------------------------------------------------------------
(* Administration                                                           *)

(* A call of an administrator begins: it acts on the workspace's            *)
(* organization, and he is not his own target.                              *)
LEMMA ManageSound ==
    ASSUME TeamInv, NEW c \in Calls, NEW op \in {"remove", "demote", "promote"},
           NEW place \in {"list", "act"}, Team!Manage(c, op, place)
    PROVE  TeamInv'
<1>1. UNCHANGED <<slack, account, role, org, alone>>
  BY DEF Team!Manage, Team!people
<1>2. PICK a \in People, target \in People :
         /\ target # a /\ org # Null /\ requests[c] = Null
         /\ Team!Become(c, [Team!Fresh(op, place) EXCEPT !.by = a, !.who = target, !.org = org])
  BY DEF Team!Manage, Team!Targets, Team!AsAdmin, Team!Begin
<1> DEFINE k == Team!Fresh(op, place)
           new == [k EXCEPT !.by = a, !.who = target, !.org = org]
<1>3. /\ new \in Team!Call /\ new.op = op /\ new.at = place /\ new.by = a /\ new.who = target
      /\ new.org = org /\ org \in Orgs
  <2>1. k \in Team!Call /\ k.op = op /\ k.at = place /\ org \in Orgs
    BY <1>2, FreshRequest DEF Team!Ops, RequestPlaces, TeamInv, TeamTypeInv
  <2> HIDE DEF k
  <2> QED  BY <2>1 DEF Team!Call
<1>4. Team!Become(c, new)
  BY <1>2
<1> HIDE DEF new
<1>5. HasParts(new) /\ InPlace(new) /\ new.op \notin Team!Provisioning
  BY <1>2, <1>3 DEF HasParts, InPlace, Team!Provisioning, Managing
<1>6. /\ slack' \in [People -> Team!Presence] /\ account' \subseteq People /\ alone' \in BOOLEAN
      /\ ~Team!At(c, "store")
  BY <1>1, <1>2 DEF TeamInv, TeamTypeInv, Team!At
<1> QED  BY <1>1, <1>2, <1>3, <1>4, <1>5, <1>6, RequestMoves

LEMMA SyncSlackSound ==
    ASSUME TeamInv, NEW c \in Calls, Team!SyncSlack(c)
    PROVE  TeamInv'
<1>1. UNCHANGED <<slack, account, role, org, alone>>
  BY DEF Team!SyncSlack, Team!people
<1>2. PICK a \in People :
         /\ org # Null /\ requests[c] = Null
         /\ Team!Become(c, [Team!Fresh("sync", "list") EXCEPT !.by = a, !.org = org])
  BY DEF Team!SyncSlack, Team!AsAdmin, Team!Begin
<1> DEFINE k == Team!Fresh("sync", "list")
           new == [k EXCEPT !.by = a, !.org = org]
<1>3. /\ new \in Team!Call /\ new.op = "sync" /\ new.at = "list" /\ new.todo = {}
      /\ new.org = org /\ org \in Orgs
  <2>1. k \in Team!Call /\ k.op = "sync" /\ k.at = "list" /\ k.todo = {} /\ org \in Orgs
    BY <1>2, FreshRequest DEF Team!Ops, RequestPlaces, TeamInv, TeamTypeInv
  <2> HIDE DEF k
  <2> QED  BY <2>1 DEF Team!Call
<1>4. Team!Become(c, new)
  BY <1>2
<1> HIDE DEF new
<1>5. HasParts(new) /\ InPlace(new) /\ new.op \notin Team!Provisioning
  BY <1>2, <1>3 DEF HasParts, InPlace, Team!Provisioning, Managing
<1>6. /\ slack' \in [People -> Team!Presence] /\ account' \subseteq People /\ alone' \in BOOLEAN
      /\ ~Team!At(c, "store")
  BY <1>1, <1>2 DEF TeamInv, TeamTypeInv, Team!At
<1> QED  BY <1>1, <1>2, <1>3, <1>4, <1>5, <1>6, RequestMoves

(* A call of an administrator goes on with what it has, or ends. *)
LEMMA ManagingGoes ==
    ASSUME TeamInv, NEW c \in Calls, requests[c] # Null,
           requests[c].at \in {"list", "act", "unlink"},
           NEW new \in Team!Call \cup {Null}, Team!Become(c, new),
           UNCHANGED <<slack, account, role, org, alone>>,
           new # Null =>
               /\ new.op = requests[c].op /\ new.at \in {"list", "act", "unlink"}
               /\ new.by = requests[c].by /\ new.who = requests[c].who /\ new.org = requests[c].org
               /\ new.op = "sync" => new.by \notin new.todo
    PROVE  TeamInv'
<1>1. /\ slack' \in [People -> Team!Presence] /\ account' \subseteq People /\ alone' \in BOOLEAN
      /\ ~Team!At(c, "store") /\ HasParts(requests[c])
  BY DEF TeamInv, TeamTypeInv, Team!At
<1>2. new # Null => HasParts(new) /\ InPlace(new) /\ new.op \notin Team!Provisioning
  BY <1>1 DEF HasParts, InPlace, Team!Provisioning, Managing
<1>3. new # Null => new.at \notin {"link", "backfill", "add", "bind"}
  OBVIOUS
<1> QED  BY <1>1, <1>2, <1>3, RequestMoves

LEMMA CountAdminsSound ==
    ASSUME TeamInv, NEW c \in Calls, Team!CountAdmins(c)
    PROVE  TeamInv'
<1>1. /\ UNCHANGED <<slack, account, role, org, alone>>
      /\ requests[c] # Null /\ requests[c].at = "list" /\ requests[c].op = "demote"
  BY DEF Team!CountAdmins, Team!people, Team!At
<1>2. CASE Team!Become(c, Null)
  BY <1>1, <1>2, ManagingGoes
<1>3. CASE Team!Go(c, "act")
  <2> DEFINE new == [requests[c] EXCEPT !.at = "act"]
  <2>1. "act" \in RequestPlaces /\ requests[c] \in Team!Call
    BY <1>1, RequestShape DEF RequestPlaces
  <2>2. /\ new \in Team!Call /\ new.op = requests[c].op /\ new.at = "act" /\ new.by = requests[c].by
        /\ new.who = requests[c].who /\ new.org = requests[c].org
    BY <2>1, GoShape
  <2>3. Team!Become(c, new)
    BY <1>3 DEF Team!Go
  <2> HIDE DEF new
  <2> QED  BY <1>1, <2>2, <2>3, ManagingGoes
<1> QED  BY <1>2, <1>3 DEF Team!CountAdmins, Team!End

LEMMA CompareSound ==
    ASSUME TeamInv, NEW c \in Calls, Team!Compare(c)
    PROVE  TeamInv'
<1>1. /\ UNCHANGED <<slack, account, role, org, alone>>
      /\ requests[c] # Null /\ requests[c].at = "list" /\ requests[c].op = "sync"
      /\ requests[c] \in Team!Call
  BY RequestShape DEF Team!Compare, Team!people, Team!At
<1>2. PICK gone \in SUBSET (People \ {requests[c].by}) :
         Team!Become(c, [requests[c] EXCEPT !.at = "act", !.todo = gone])
  BY DEF Team!Compare, Team!MembersOf
<1> DEFINE new == [requests[c] EXCEPT !.at = "act", !.todo = gone]
<1>3. /\ new \in Team!Call /\ new.op = requests[c].op /\ new.at = "act" /\ new.by = requests[c].by
      /\ new.who = requests[c].who /\ new.org = requests[c].org /\ new.todo = gone
  BY <1>1, <1>2 DEF Team!Call
<1> HIDE DEF new
<1> QED  BY <1>1, <1>2, <1>3, ManagingGoes DEF new

(* The role of one member changes, or of nobody. *)
LEMMA ActSound ==
    ASSUME TeamInv, NEW c \in Calls, Team!Act(c)
    PROVE  TeamInv'
<1>1. UNCHANGED <<slack, account, org, alone>> /\ requests[c] # Null /\ requests[c].at = "act"
  BY DEF Team!Act, Team!people, Team!At
<1>2. /\ requests[c] \in Team!Call /\ HasParts(requests[c]) /\ requests[c].op \in Managing
      /\ requests[c].todo \in SUBSET People /\ requests[c].done \in SUBSET People
      /\ requests[c].org \in Orgs
  BY <1>1, RequestShape DEF HasParts
<1>3. CASE Team!Go(c, "unlink") /\ UNCHANGED role
  <2> DEFINE new == [requests[c] EXCEPT !.at = "unlink"]
  <2>1. "unlink" \in RequestPlaces
    BY DEF RequestPlaces
  <2>2. /\ new \in Team!Call /\ new.op = requests[c].op /\ new.at = "unlink"
        /\ new.by = requests[c].by
        /\ new.who = requests[c].who /\ new.org = requests[c].org /\ new.todo = requests[c].todo
    BY <1>2, <2>1, GoShape
  <2>3. Team!Become(c, new)
    BY <1>3 DEF Team!Go
  <2> HIDE DEF new
  <2> QED  BY <1>1, <1>2, <1>3, <2>2, <2>3, ManagingGoes DEF HasParts
<1>4. CASE UNCHANGED role /\ Team!Become(c, Null)
  BY <1>1, <1>4, ManagingGoes
<1>5. ASSUME UNCHANGED role, requests[c].op = "sync",
             NEW p \in requests[c].todo, Team!Become(c, [requests[c] EXCEPT !.todo = @ \ {p}])
      PROVE  TeamInv'
  <2> DEFINE new == [requests[c] EXCEPT !.todo = @ \ {p}]
  <2>1. /\ new \in Team!Call /\ new.op = requests[c].op /\ new.at = "act" /\ new.by = requests[c].by
        /\ new.who = requests[c].who /\ new.org = requests[c].org
        /\ new.todo = requests[c].todo \ {p}
    BY <1>1, <1>2 DEF Team!Call
  <2> HIDE DEF new
  <2> QED  BY <1>1, <1>2, <1>5, <2>1, ManagingGoes DEF HasParts, new
<1>6. ASSUME NEW o \in Orgs, o = requests[c].org, NEW p \in People,
             IF requests[c].op = "sync" THEN p \in requests[c].todo ELSE p = requests[c].who,
             role[o][p] # "out", Team!SetRole(o, p, Team!NewRole(c, role[o][p])),
             CASE requests[c].op = "sync" ->
                    Team!Become(c, [requests[c] EXCEPT !.todo = @ \ {p}, !.done = @ \cup {p}])
               [] requests[c].op = "remove" ->
                    Team!Become(c, [requests[c] EXCEPT !.at = "unlink", !.done = {p}])
               [] OTHER -> Team!Become(c, Null)
      PROVE  TeamInv'
  <2>1. PICK r \in {"out", "member", "admin"} : Team!SetRole(o, p, r)
    BY <1>2, <1>6 DEF Team!NewRole, Managing
  <2>2. o \in Team!Created
    BY <1>6 DEF Team!Created
  <2>6. PICK new \in Team!Call \cup {Null} :
          /\ Team!Become(c, new)
          /\ new # Null =>
                /\ new.op = requests[c].op /\ new.at \in {"act", "unlink"}
                /\ new.by = requests[c].by
                /\ new.who = requests[c].who /\ new.org = o /\ new.todo \subseteq requests[c].todo
    <3>1. CASE requests[c].op = "sync"
      <4> DEFINE next == [requests[c] EXCEPT !.todo = @ \ {p}, !.done = @ \cup {p}]
      <4>1. /\ next \in Team!Call /\ next.op = requests[c].op /\ next.at = "act"
            /\ next.by = requests[c].by
            /\ next.who = requests[c].who /\ next.org = o /\ next.todo \subseteq requests[c].todo
        BY <1>1, <1>2, <1>6 DEF Team!Call
      <4>2. Team!Become(c, next)
        BY <1>6, <3>1
      <4> HIDE DEF next
      <4> QED  BY <4>1, <4>2
    <3>2. CASE requests[c].op = "remove"
      <4> DEFINE next == [requests[c] EXCEPT !.at = "unlink", !.done = {p}]
      <4>1. /\ next \in Team!Call /\ next.op = requests[c].op /\ next.at = "unlink"
            /\ next.by = requests[c].by /\ next.who = requests[c].who /\ next.org = o
            /\ next.todo \subseteq requests[c].todo
        BY <1>1, <1>2, <1>6 DEF Team!Call
      <4>2. Team!Become(c, next)
        BY <1>6, <3>2
      <4> HIDE DEF next
      <4> QED  BY <4>1, <4>2
    <3> QED  BY <1>6, <3>1, <3>2
  <2>7. new # Null => HasParts(new) /\ new.op \notin Team!Provisioning
    BY <1>2, <1>6, <2>6 DEF HasParts, Team!Provisioning, Managing
  <2> QED  BY <1>1, <1>6, <2>1, <2>2, <2>6, <2>7, RoleMoves
<1> QED  BY <1>2, <1>3, <1>4, <1>5, <1>6 DEF Team!Act, Team!End, HasParts, Managing

LEMMA UnlinkSound ==
    ASSUME TeamInv, NEW c \in Calls, Team!Unlink(c)
    PROVE  TeamInv'
  BY ManagingGoes DEF Team!Unlink, Team!End, Team!At, Team!people
-----------------------------------------------------------------------------
(* Everything stops: nobody is left to overlap with, if nobody was.         *)
LEMMA RestartSound ==
    ASSUME TeamInv, Team!Restart
    PROVE  TeamInv'
<1>1. /\ UNCHANGED <<slack, account, role, org>> /\ alone' \in BOOLEAN
      /\ alone' => alone /\ ~Team!Running(Team!Provisioning)
      /\ requests' \in [Calls -> Team!Call \cup {Null}] /\ \A c \in Calls : requests'[c] = Null
  BY DEF Team!Restart, Team!people, Team!NowAlone, TeamInv, TeamTypeInv
<1>2. TeamTypeInv'
  BY <1>1 DEF TeamInv, TeamTypeInv
<1>4. OneInv'
  <2>1. alone' => \A c \in Calls : ~Team!At(c, "store")
    BY <1>1, AtProvisioning DEF Team!Running, Provisions
  <2>2. Team!Created' = Team!Created
    BY <1>1 DEF Team!Created
  <2> QED  BY <1>1, <2>1, <2>2 DEF TeamInv, OneInv, Sole, Provisions
<1> QED  BY <1>2, <1>4 DEF TeamInv

(* The steps that no call makes. *)
LEMMA PeopleSound ==
    ASSUME TeamInv, NEW p \in People,
           Team!SlackChange(p) \/ Team!SignUp(p) \/ Team!Message(p) \/ Team!Visit(p)
    PROVE  TeamInv'
<1>1. UNCHANGED <<role, org, requests, alone>>
  BY DEF Team!SlackChange, Team!SignUp, Team!Message, Team!Visit
<1>2. slack' \in [People -> Team!Presence] /\ account' \subseteq People
  <2>1. slack \in [People -> Team!Presence] /\ account \subseteq People
    BY DEF TeamInv, TeamTypeInv
  <2>2. CASE Team!SlackChange(p)
    BY <2>1, <2>2 DEF Team!SlackChange, Team!Presence
  <2>3. CASE Team!SignUp(p)
    BY <2>1, <2>3 DEF Team!SignUp
  <2>4. CASE Team!Message(p)
    BY <2>1, <2>4 DEF Team!Message
  <2>5. CASE Team!Visit(p)
    BY <2>1, <2>5 DEF Team!Visit, Team!people
  <2> QED  BY <2>2, <2>3, <2>4, <2>5
<1> QED  BY <1>1, <1>2, TeamStays

LEMMA TeamInitSound ==
    ASSUME Team!Init
    PROVE  TeamInv
<1>1. /\ requests = [c \in Calls |-> Null] /\ alone = TRUE
  BY DEF Team!Init
<1>2. CASE Team!InitNew
  <2>1. TeamTypeInv
    BY <1>1, <1>2 DEF Team!InitNew, TeamTypeInv, Team!Presence
  <2>2. org = Null /\ Team!Created = {}
    BY <1>2 DEF Team!InitNew, Team!Created
  <2> QED  BY <1>1, <2>1, <2>2 DEF TeamInv, OneInv, Sole, Provisions
<1>3. CASE Team!InitTeam
  <2>1. /\ role \in [Orgs -> [People -> {"out", "member", "admin"}]] /\ org \in Orgs
        /\ \E p \in People : role[org][p] = "admin"
        /\ \A o \in Orgs \ {org}, p \in People : role[o][p] = "out"
    BY <1>3 DEF Team!InitTeam
  <2>2. TeamTypeInv
    BY <1>1, <1>3, <2>1 DEF Team!InitTeam, TeamTypeInv, Team!Presence
  <2>3. Team!Admins(org) # {} /\ Team!Created \subseteq {org}
    BY <2>1 DEF Team!Admins, Team!Created
  <2> QED  BY <1>1, <2>2, <2>3 DEF TeamInv, OneInv, Sole, Provisions
<1> QED  BY <1>2, <1>3 DEF Team!Init

LEMMA TeamNextSound ==
    ASSUME TeamInv, [Team!Next]_(Team!vars)
    PROVE  TeamInv'
<1>1. CASE \E p \in People : Team!SlackChange(p) \/ Team!SignUp(p) \/ Team!Message(p)
                               \/ Team!Visit(p)
  BY <1>1, PeopleSound
<1>2. ASSUME NEW c \in Calls,
             Team!SyncBackground(c) \/ Team!SyncPeriodic(c) \/ Team!Fetch(c) \/ Team!Upsert(c)
      PROVE  TeamInv'
  BY <1>2, SyncRosterSound, FetchSound, UpsertSound DEF Team!SyncBackground, Team!SyncPeriodic
<1>3. ASSUME NEW c \in Calls,
             \/ (\E p \in People : Team!Install(c, p)) \/ Team!Provision(c) \/ Team!ProvisionMine(c)
             \/ Team!ReadRow(c) \/ Team!Owner(c) \/ Team!CreateOrg(c) \/ Team!StoreOrg(c)
             \/ Team!LinkOwner(c)
             \/ Team!Backfill(c) \/ Team!AddMember(c) \/ Team!Bind(c)
      PROVE  TeamInv'
  BY <1>3, InstallSound, ProvisionSound, ReadRowSound, OwnerSound, CreateOrgSound,
     StoreOrgSound, LinkOwnerSound, BackfillSound, AddMemberSound, BindSound
<1>4. ASSUME NEW c \in Calls,
             \/ Team!Remove(c) \/ Team!Demote(c) \/ Team!Promote(c) \/ Team!CountAdmins(c)
             \/ Team!SyncSlack(c) \/ Team!Compare(c) \/ Team!Act(c) \/ Team!Unlink(c)
      PROVE  TeamInv'
  <2>1. CASE Team!Remove(c) \/ Team!Demote(c) \/ Team!Promote(c)
    BY <2>1, ManageSound DEF Team!Remove, Team!Demote, Team!Promote
  <2> QED  BY <1>4, <2>1, CountAdminsSound, SyncSlackSound, CompareSound, ActSound, UnlinkSound
<1>5. CASE Team!Restart
  BY <1>5, RestartSound
<1>6. CASE UNCHANGED Team!vars
  BY <1>6, TeamStays DEF Team!vars, TeamInv, TeamTypeInv
<1> QED  BY <1>1, <1>2, <1>3, <1>4, <1>5, <1>6 DEF Team!Next
-----------------------------------------------------------------------------
(* Membership's invariant, whenever that side moves. *)
SideInv == side = "team" => TeamInv

LEMMA SideInvAlways == SideSpec => []SideInv
<1>1. SideInit => SideInv
  BY TeamInitSound DEF SideInit, SideInv
<1>2. SideInv /\ [SkillsMove \/ TeamMoves]_<<side, vars, team>> => SideInv'
  <2> SUFFICES ASSUME TeamInv, side = "team", [SkillsMove \/ TeamMoves]_<<side, vars, team>>
               PROVE  TeamInv'
    BY DEF SideInv, SkillsMove, TeamMoves
  <2>1. CASE TeamMoves
    BY <2>1, TeamNextSound DEF TeamMoves
  <2>2. CASE UNCHANGED team
    BY <2>2, TeamNextSound DEF team, Team!vars
  <2> QED  BY <2>1, <2>2 DEF SkillsMove
<1> QED  BY <1>1, <1>2, PTL DEF SideSpec

(* One organization is made for the workspace, by however many provisioning *)
(* calls one after the other, and after any restart between two of them     *)
(* (app/api/team.py:4).                                                     *)
THEOREM OneOrganization == SideSpec => []OneOrg
<1>1. SideInv => OneOrg
  BY DEF SideInv, TeamInv, OneInv, OneOrg, Team!OneOrg
<1> QED  BY <1>1, SideInvAlways, PTL
=============================================================================
