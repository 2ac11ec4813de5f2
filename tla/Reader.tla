------------------------------- MODULE Reader -------------------------------
(***************************************************************************)
(* Reading a work in one tab (projects/[projectId]/read/reader.tsx): the   *)
(* place read is sent to the server when scrolling rests, when the tab is  *)
(* hidden and when it is closed, and is where the reader opens next time.  *)
(* A place is a scene; how far into it is left out.  Requests may fail,    *)
(* and those on their way together arrive in any order.                    *)
(***************************************************************************)
EXTENDS Naturals, FiniteSets, FiniteSetsExt, SequencesExt

CONSTANTS
    Scenes,      \* numbers of scenes, in reading order
    MaxScrolls   \* bound: scrolls, openings and changes of the scenes

ASSUME ReaderAssumption == Scenes \subseteq Nat \ {0} /\ IsFiniteSet(Scenes) /\ MaxScrolls \in Nat

Nowhere == 0   \* no scene, nothing sent yet

VARIABLES
    written,   \* the live scenes
    stored,    \* readingProgress: where the reader opens next
    mounted,   \* the scenes of the page under the reader, {} when it is closed
    at,        \* the scene under the reader's eyes
    timer,     \* is a save due when scrolling rests?
    lastSent,  \* the last place sent from this page
    sent,      \* requests on their way
    scrolls,
    certain    \* history: nothing made the place stored doubtful since a request last went alone

readerVars == <<written, stored, mounted, at, timer, lastSent, sent, scrolls, certain>>

Place == Scenes \cup {Nowhere}

ReaderTypeOK ==
    /\ written \subseteq Scenes /\ mounted \subseteq Scenes
    /\ {stored, at, lastSent} \subseteq Place /\ sent \in Seq(Place)
    /\ timer \in BOOLEAN /\ certain \in BOOLEAN /\ scrolls \in 0 .. MaxScrolls

ReaderInit ==
    /\ written = Scenes /\ stored = Nowhere /\ mounted = {}
    /\ at = Nowhere /\ timer = FALSE /\ lastSent = Nowhere /\ sent = <<>>
    /\ scrolls = 0 /\ certain = TRUE

Scrolls == scrolls < MaxScrolls /\ scrolls' = scrolls + 1

\* The effect on mount: the stored scene if it is on the page, else the top of the page.
Opening == IF stored \in written THEN stored ELSE Min(written)

\* ReadPage: without scenes there is no reader.  Getting to the stored scene is a scroll.
OpenReader ==
    /\ mounted = {} /\ written # {} /\ Scrolls
    /\ mounted' = written /\ at' = Opening
    /\ timer' = (Opening # Min(written))
    /\ lastSent' = Nowhere
    /\ UNCHANGED <<written, stored, sent, certain>>

\* onScroll: the save waits until scrolling rests.
Scroll(place) ==
    /\ place \in mounted \ {at} /\ Scrolls
    /\ at' = place /\ timer' = TRUE
    /\ UNCHANGED <<written, stored, mounted, lastSent, sent, certain>>

\* Mutant: the place is taken for sent although it is not the last one.
MutSend == /\ lastSent' = at
           /\ sent' = IF lastSent # Nowhere THEN sent ELSE Append(sent, at)

\* sendProgress: nothing when the place is the last one sent.
Send == /\ lastSent' = at
        /\ sent' = IF at = lastSent THEN sent ELSE Append(sent, at)

Rest ==
    /\ timer /\ timer' = FALSE /\ Send
    /\ UNCHANGED <<written, stored, mounted, at, scrolls, certain>>

\* visibilitychange: the timer goes on.
Hide ==
    /\ mounted # {} /\ at # lastSent /\ Send
    /\ UNCHANGED <<written, stored, mounted, at, timer, scrolls, certain>>

\* beforeunload, then the page is gone.
Close ==
    /\ mounted # {} /\ mounted' = {} /\ timer' = FALSE /\ Send
    /\ certain' = (certain \/ (sent = <<>> /\ at # lastSent))
    /\ UNCHANGED <<written, stored, at, scrolls>>

\* A link inside the app: the effect's cleanup stops the timer, and nothing is sent.
FollowLink ==
    /\ mounted # {} /\ mounted' = {} /\ timer' = FALSE
    /\ certain' = (certain /\ at = lastSent)
    /\ UNCHANGED <<written, stored, at, lastSent, sent, scrolls>>

\* The upsert of a request, or its failure, which nobody hears of.
Arrive(i) ==
    /\ stored' = sent[i] /\ sent' = RemoveAt(sent, i)
    /\ certain' = (certain /\ i = 1)
    /\ UNCHANGED <<written, mounted, at, timer, lastSent, scrolls>>
Lose(i) ==
    /\ sent' = RemoveAt(sent, i) /\ certain' = FALSE
    /\ UNCHANGED <<written, stored, mounted, at, timer, lastSent, scrolls>>

\* A scene is deleted, or its deletion rolled back; the page shown keeps it.
Rewrite(scene) ==
    /\ Scrolls
    /\ written' = (written \ {scene}) \cup ({scene} \ written)
    /\ UNCHANGED <<stored, mounted, at, timer, lastSent, sent, certain>>

ReaderNext ==
    \/ OpenReader \/ Rest \/ Hide \/ Close \/ FollowLink
    \/ \E place \in Scenes : Scroll(place) \/ Rewrite(place)
    \/ \E i \in DOMAIN sent : Arrive(i) \/ Lose(i)

-----------------------------------------------------------------------------
(* Properties *)

\* A closed reader whose requests have arrived opens next where it was left, however
\* scrolling, hiding and returning alternate, if none was lost or passed another and no
\* link was followed before scrolling had rested.
LeftWhereRead == mounted = {} /\ sent = <<>> /\ certain => stored = at
=============================================================================
