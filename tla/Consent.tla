------------------------------ MODULE Consent ------------------------------
(***************************************************************************)
(* Consent to analytics (components/analytics-consent.tsx, and the button  *)
(* of the cookie policy in components/cookie-settings-button.tsx): the     *)
(* choice is kept in the browser's storage, and each tab acts on the copy  *)
(* it read when it was loaded and on the choices made in it.  Google       *)
(* Analytics is loaded by the same condition and cannot be stopped, so     *)
(* capturing means PostHog.                                                *)
(***************************************************************************)
CONSTANT Windows   \* the tabs of one browser

VARIABLES
    choice,     \* localStorage: "granted", "denied", or "none"
    consent,    \* tab -> the component's state
    loaded,     \* tab -> is PostHog loaded?
    capturing,  \* tab -> does it capture?
    refused    \* history: tabs loaded, or asked, since a denial or a withdrawal

consentVars == <<choice, consent, loaded, capturing, refused>>

Answers == {"granted", "denied", "none"}

ConsentTypeOK ==
    /\ choice \in Answers /\ consent \in [Windows -> Answers \cup {"loading"}]
    /\ loaded \in [Windows -> BOOLEAN] /\ capturing \in [Windows -> BOOLEAN]
    /\ refused \subseteq Windows

ConsentInit ==
    /\ choice = "none"
    /\ consent = [t \in Windows |-> "loading"]
    /\ loaded = [t \in Windows |-> FALSE] /\ capturing = [t \in Windows |-> FALSE]
    /\ refused = {}

\* Mutant: the component lets PostHog be when consent is denied.
MutApply(t, value) ==
    /\ consent' = [consent EXCEPT ![t] = value]
    /\ loaded' = [loaded EXCEPT ![t] = @ \/ value = "granted"]
    /\ capturing' = [capturing EXCEPT ![t] = @ \/ value = "granted"]

\* setConsent and the effect it sets off: a grant loads PostHog once and starts it, a
\* denial stops it, and the open question changes nothing.
Apply(t, value) ==
    /\ consent' = [consent EXCEPT ![t] = value]
    /\ loaded' = [loaded EXCEPT ![t] = @ \/ value = "granted"]
    /\ capturing' = [capturing EXCEPT ![t] = value = "granted" \/ (value = "none" /\ @)]

\* A page load drops what the tab ran; its component then reads the storage.
LoadWindow(t) ==
    /\ consent' = [consent EXCEPT ![t] = "loading"]
    /\ loaded' = [loaded EXCEPT ![t] = FALSE] /\ capturing' = [capturing EXCEPT ![t] = FALSE]
    /\ refused' = refused \ {t} /\ UNCHANGED choice
Mount(t) ==
    /\ consent[t] = "loading" /\ Apply(t, choice)
    /\ refused' = IF choice = "granted" THEN refused \ {t} ELSE refused \cup {t}
    /\ UNCHANGED choice

\* The buttons of the banner.
Choose(t, value) ==
    /\ consent[t] = "none" /\ choice' = value /\ Apply(t, value)
    /\ refused' = IF value = "granted" THEN refused \ {t} ELSE refused \cup {t}

\* The button of the cookie policy forgets the choice and asks again, here only.
Reopen(t) ==
    /\ consent[t] # "loading" /\ choice' = "none" /\ Apply(t, "none")
    /\ UNCHANGED refused

ConsentNext ==
    \E t \in Windows :
        LoadWindow(t) \/ Mount(t) \/ Choose(t, "granted") \/ Choose(t, "denied") \/ Reopen(t)

-----------------------------------------------------------------------------
(* Properties *)

\* No tab captures after a denial in it, or after it was loaded without a grant in the
\* storage, until consent is granted in it; a denial does not reach the tabs open already.
NoCaptureAgainstChoice == \A t \in Windows : capturing[t] => loaded[t] /\ t \notin refused
=============================================================================
