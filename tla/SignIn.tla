------------------------------- MODULE SignIn -------------------------------
(***************************************************************************)
(* One person finding a page of the web app: the middleware that guards    *)
(* every request, the page's own check and reads, the login page with its  *)
(* forms, the link in the e-mail, and signing out.  Supabase keeps the     *)
(* session; the API may refuse its token.  What a form, a look at the      *)
(* session or a sign-out has started goes on after its page was left, and  *)
(* navigates when it ends.                                                 *)
(***************************************************************************)
EXTENDS Sitemap, Integers

CONSTANTS
    Claims,   \* the app_metadata.roles people have
    First,    \* bound: the paths asked for first
    Again,    \* bound: the paths asked for after it
    MaxAsk,   \* bound: how often, and how often sign-out is pressed
    MaxFlight,\* bound: of the login page, on the way when a form is sent
    MaxBlip   \* bound: how often Supabase does not answer getUser

ASSUME SignInAssumption ==
    /\ First \cup Again \subseteq {p.path : p \in Pages \ {Callback}}
    /\ MaxAsk \in Nat /\ MaxBlip \in Nat /\ MaxFlight \in Nat

VARIABLES
    claims,   \* the person's roles
    live,     \* there is a session
    accepts,  \* the API accepts its token
    nav,      \* the navigation: asked of the server, rendering, or shown
    asked,    \* ghost: the path the person asked for last
    mode,     \* EmailPasswordAuth: what it shows
    flights,  \* what the page has on the way, and what pages that were left had
    link,     \* the link in the e-mail: the "next" it carries
    asks,     \* paths asked for, and sign-outs
    blips,    \* unanswered getUser calls
    overtaken \* ghost: a page that was left navigated, or a link failed or was
              \* answered without the person's roles

signVars == <<claims, live, accepts, nav, asked, mode, flights, link, asks, blips, overtaken>>

-----------------------------------------------------------------------------
Paths == {p.path : p \in Pages}
None == <<"none">>  \* no "next", no link

\* own: the page that began it is still shown.
Flight == [kind : {"look", "signin", "signup", "resend", "boot", "signout"},
           next : Paths \cup {None}, own : BOOLEAN]

FormKind == {"signin", "signup", "resend"}

\* The form's "loading".
Waits == \E f \in flights : f.own /\ f.kind \in FormKind

AtLogin == nav.at = "shown" /\ nav.path = Login.path

\* Where there is a SignOutButton.
AtSignOut == nav.at = "shown" /\ PageAt(nav.path) \in {Profile, ShopDashboard, RiderProfile}

\* getUser: the user, or nobody when there is none or no answer.
GetUser(found) ==
    \/ found = live /\ blips' = blips
    \/ live /\ ~found /\ blips < MaxBlip /\ blips' = blips + 1

To(path, next) == [at |-> "asked", path |-> path, next |-> next, shows |-> "nothing"]

\* Whatever replaces the page leaves it.
Leaves == {[f EXCEPT !.own = FALSE] : f \in flights}

\* LoginFlow's look at the session, whenever its "next" is new.
LookGoingTo(next) == [kind |-> "look", next |-> next, own |-> TRUE]

-----------------------------------------------------------------------------
(* The server. *)

\* Mutant: who is sent to sign in is not brought back.
GuardForgetting ==
    /\ nav.at = "asked"
    /\ IF ~IsProtected(nav.path)
       THEN nav' = [nav EXCEPT !.at = "render"] /\ blips' = blips
       ELSE \/ GetUser(FALSE) /\ nav' = To(Login.path, None)
            \/ /\ GetUser(TRUE)
               /\ nav' = IF MayEnter(claims, nav.path) THEN [nav EXCEPT !.at = "render"]
                         ELSE To(LandingFor(claims), None)
    /\ UNCHANGED <<claims, live, accepts, asked, mode, flights, link, asks, overtaken>>

\* updateSession.
Guard ==
    /\ nav.at = "asked"
    /\ IF ~IsProtected(nav.path)
       THEN nav' = [nav EXCEPT !.at = "render"] /\ blips' = blips
       ELSE \/ GetUser(FALSE) /\ nav' = To(Login.path, nav.path)
            \/ /\ GetUser(TRUE)
               /\ nav' = IF MayEnter(claims, nav.path) THEN [nav EXCEPT !.at = "render"]
                         ELSE To(LandingFor(claims), None)
    /\ UNCHANGED <<claims, live, accepts, asked, mode, flights, link, asks, overtaken>>

\* What a page may show: everything, something less, or one of its errors.
Shown(page, user) ==
    {"whole"}
    \cup (IF page.spare # {} THEN {"partial"} ELSE {})
    \cup (IF page.must # {} THEN {"error"} ELSE {})
    \cup (IF page.must # {} /\ page.missing # "error" THEN {page.missing} ELSE {})

\* Mutant: every failed read of a signed page is taken for a lost session.
RenderTakingAllForLost ==
    LET page == PageAt(nav.path) IN
    /\ nav.at = "render" /\ page \notin {Login, Callback} /\ page.kind # "forward"
    /\ \/ /\ page.kind = "signed" /\ GetUser(FALSE)
          /\ nav' = To(Login.path, page.path)
       \/ /\ page.kind = "signed" /\ page.must # {} /\ GetUser(TRUE)
          /\ nav' = To(Login.path, page.path)
       \/ /\ page.kind = "signed" => GetUser(TRUE) /\ accepts
          /\ page.kind = "guest" => blips' = blips
          /\ \E s \in Shown(page, live) \ {"error"} :
                nav' = [nav EXCEPT !.at = "shown", !.shows = s]
    /\ UNCHANGED <<claims, live, accepts, asked, mode, flights, link, asks, overtaken>>

\* A page: requireServerToken, then its reads; only a 401 leads to the login.
Render ==
    LET page == PageAt(nav.path) IN
    /\ nav.at = "render" /\ page \notin {Login, Callback} /\ page.kind # "forward"
    /\ \/ /\ page.kind = "signed" /\ GetUser(FALSE)
          /\ nav' = To(Login.path, page.path)
       \/ /\ page.kind = "signed" /\ page.must # {} /\ GetUser(TRUE) /\ ~accepts
          /\ nav' = To(Login.path, page.path)
       \/ /\ page.kind = "signed" => GetUser(TRUE) /\ accepts
          /\ page.kind = "guest" => blips' = blips
          /\ \E s \in Shown(page, live) :
                nav' = [nav EXCEPT !.at = "shown", !.shows = s]
    /\ UNCHANGED <<claims, live, accepts, asked, mode, flights, link, asks, overtaken>>

RenderForward ==
    /\ nav.at = "render" /\ PageAt(nav.path).kind = "forward"
    /\ nav' = To(PageAt(nav.path).to, None)
    /\ UNCHANGED <<claims, live, accepts, asked, mode, flights, link, asks, blips, overtaken>>

\* /auth/callback: the link's code is exchanged for a session, once; then getUser
\* tells the roles, and without its answer there are none.
RenderCallback ==
    LET lands(found) == IF nav.next # None THEN nav.next ELSE LandingFor(found) IN
    /\ nav.at = "render" /\ nav.path = Callback.path
    /\ \/ /\ live' = TRUE
          /\ nav' = To(lands(claims), None)
          /\ UNCHANGED <<blips, overtaken>>
       \/ /\ live' = TRUE
          /\ blips < MaxBlip /\ blips' = blips + 1
          /\ nav' = To(lands({}), None)
          /\ overtaken' = (overtaken \/ lands({}) # lands(claims))
       \/ /\ nav' = To(Login.path, None)
          /\ overtaken' = TRUE
          /\ UNCHANGED <<live, blips>>
    /\ link' = [link EXCEPT !.sent = FALSE]
    /\ UNCHANGED <<claims, accepts, asked, mode, flights, asks>>

\* The login page: a form of its own, and one look at the session.
RenderLogin ==
    /\ nav.at = "render" /\ nav.path = Login.path
    /\ nav' = [nav EXCEPT !.at = "shown", !.shows = "whole"]
    /\ mode' = "signin"
    /\ flights' = Leaves \cup {LookGoingTo(nav.next)}
    /\ UNCHANGED <<claims, live, accepts, asked, link, asks, blips, overtaken>>

-----------------------------------------------------------------------------
(* The login page. *)

DestinationFor(next) == IF next = None THEN LandingFor(claims) ELSE next

\* router.replace, from wherever the person is by now.
Replaces(f) ==
    /\ nav' = To(DestinationFor(f.next), None)
    /\ overtaken' = (overtaken \/ ~f.own)

EndLook(f) ==
    /\ f.kind = "look"
    /\ \/ /\ GetUser(TRUE)
          /\ Replaces(f)
          /\ flights' = {[g EXCEPT !.own = FALSE] : g \in flights \ {f}}
       \/ /\ GetUser(FALSE)
          /\ flights' = flights \ {f}
          /\ UNCHANGED <<nav, overtaken>>
    /\ UNCHANGED <<claims, live, accepts, asked, mode, link, asks>>

\* The tabs, which are not disabled, and "Back to sign in", which is.
SwitchMode(m) ==
    /\ AtLogin /\ mode # m
    /\ mode = "verify" => m = "signin" /\ ~Waits
    /\ mode' = m
    /\ UNCHANGED <<claims, live, accepts, nav, asked, flights, link, asks, blips, overtaken>>

\* "Resend" after the minute's wait.
PressForm(kind) ==
    /\ AtLogin /\ ~Waits /\ Cardinality({f \in flights : f.kind # "signout"}) < MaxFlight
    /\ kind = IF mode = "verify" THEN "resend" ELSE mode
    /\ flights' = flights \cup {[kind |-> kind, next |-> nav.next, own |-> TRUE]}
    /\ UNCHANGED <<claims, live, accepts, nav, asked, mode, link, asks, blips, overtaken>>

\* Wrong password or another error; an address not yet verified; a link on its
\* way; or a session: the backend is told first, then the login page is left.
EndForm(f) ==
    /\ f.kind \in FormKind
    /\ \/ /\ flights' = flights \ {f}
          /\ UNCHANGED <<mode, live, link>>
       \/ /\ f.kind \in {"signin", "signup"}
          /\ flights' = flights \ {f}
          /\ mode' = IF f.own THEN "verify" ELSE mode
          /\ link' = IF f.kind = "signup" THEN [sent |-> TRUE, next |-> f.next] ELSE link
          /\ live' = live
       \/ /\ f.kind = "resend"
          /\ flights' = flights \ {f}
          /\ link' = [sent |-> TRUE, next |-> f.next]
          /\ UNCHANGED <<mode, live>>
       \/ /\ f.kind \in {"signin", "signup"}
          /\ flights' = (flights \ {f}) \cup {[f EXCEPT !.kind = "boot"]}
          /\ live' = TRUE
          /\ UNCHANGED <<mode, link>>
    /\ UNCHANGED <<claims, accepts, nav, asked, asks, blips, overtaken>>

\* onSuccess, once ensureBackendUser has ended.
EndBoot(f) ==
    /\ f.kind = "boot"
    /\ Replaces(f)
    /\ flights' = {[g EXCEPT !.own = FALSE] : g \in flights \ {f}}
    /\ UNCHANGED <<claims, live, accepts, asked, mode, link, asks, blips>>

-----------------------------------------------------------------------------
(* The person, and the world. *)

Asks == asks < MaxAsk /\ asks' = asks + 1

AskFor(path) ==
    /\ nav.at = "shown" /\ Asks
    /\ path \in IF asks = 0 THEN First ELSE Again
    /\ nav' = To(path, None) /\ asked' = path
    /\ overtaken' = FALSE
    /\ flights' = Leaves
    /\ UNCHANGED <<claims, live, accepts, mode, link, blips>>

\* The link brings its "next" along; the middleware forwards it to the callback.
OpenLink ==
    /\ link.sent /\ nav.at = "shown" /\ Asks
    /\ nav' = To(Callback.path, link.next)
    /\ asked' = IF link.next = None THEN Login.path ELSE link.next
    /\ overtaken' = FALSE
    /\ flights' = Leaves
    /\ UNCHANGED <<claims, live, accepts, mode, link, blips>>

\* SignOutButton: pressed, which disables it.
SignOut ==
    /\ AtSignOut /\ Asks /\ \A f \in flights : ~f.own
    /\ flights' = flights \cup {[kind |-> "signout", next |-> None, own |-> TRUE]}
    /\ UNCHANGED <<claims, live, accepts, nav, asked, mode, link, blips, overtaken>>

\* Supabase has answered or failed (SessionEnds when it ends the session first):
\* to the login page, from wherever the person is by now.  A login page that is
\* shown stays, loses its "next", and looks again.
EndSignOut(f) ==
    /\ f.kind = "signout"
    /\ \/ live' = FALSE
       \/ live' = live
    /\ \/ /\ ~AtLogin
          /\ nav' = To(Login.path, None)
          /\ flights' = {[g EXCEPT !.own = FALSE] : g \in flights \ {f}}
          /\ asked' = IF f.own THEN Login.path ELSE asked
       \/ /\ AtLogin
          /\ nav' = [nav EXCEPT !.next = None]
          /\ flights' = (flights \ {f}) \cup (IF nav.next = None THEN {} ELSE {LookGoingTo(None)})
          /\ asked' = asked
    /\ overtaken' = ~f.own
    /\ UNCHANGED <<claims, accepts, mode, link, asks, blips>>

\* It expires, or an administrator's change of roles ends it.
SessionEnds ==
    /\ live /\ live' = FALSE
    /\ UNCHANGED <<claims, accepts, nav, asked, mode, flights, link, asks, blips, overtaken>>

ApiTurns ==
    /\ accepts' = ~accepts
    /\ UNCHANGED <<claims, live, nav, asked, mode, flights, link, asks, blips, overtaken>>

-----------------------------------------------------------------------------
\* The person reads a page that needs nothing, or their profile.
SignInit ==
    /\ claims \in Claims
    /\ live \in BOOLEAN /\ accepts = TRUE
    /\ asked \in {About.path} \cup (IF live THEN {Profile.path} ELSE {})
    /\ nav = [To(asked, None) EXCEPT !.at = "shown", !.shows = "whole"]
    /\ mode = "signin" /\ flights = {}
    /\ link = [sent |-> FALSE, next |-> None]
    /\ asks = 0 /\ blips = 0
    /\ overtaken = FALSE

SignNext ==
    \/ Guard \/ Render \/ RenderForward \/ RenderCallback \/ RenderLogin
    \/ \E f \in flights : EndLook(f) \/ EndForm(f) \/ EndBoot(f) \/ EndSignOut(f)
    \/ \E m \in {"signin", "signup"} : SwitchMode(m)
    \/ \E k \in FormKind : PressForm(k)
    \/ \E p \in First \cup Again : AskFor(p)
    \/ OpenLink \/ SignOut \/ SessionEnds \/ ApiTurns

\* The server answers, and what the login page awaits ends.  A sign-out may not.
SignFair ==
    /\ WF_signVars(Guard \/ Render \/ RenderForward \/ RenderCallback \/ RenderLogin)
    /\ WF_signVars(\E f \in flights : EndLook(f) \/ EndForm(f) \/ EndBoot(f))

-----------------------------------------------------------------------------
(* Properties *)

\* The navigation is at a page of the site, and only a page that is shown waits
\* for something: the login page, or one with a SignOutButton.
SignTypeOK ==
    /\ nav.at \in {"asked", "render", "shown"} /\ nav.path \in Paths
    /\ nav.next \in Paths \cup {None} /\ asked \in Paths
    /\ flights \subseteq Flight
    /\ mode \in {"signin", "signup", "verify"}
    /\ \A f \in flights : f.own => IF f.kind = "signout" THEN AtSignOut ELSE AtLogin
    /\ asks \in 0..MaxAsk /\ blips \in 0..MaxBlip

Settled == nav.at = "shown" /\ \A f \in flights : f.kind \notin {"look", "boot"}

\* Where a path leads in the end.
TargetOf(path) == IF PageAt(path).kind = "forward" THEN PageAt(path).to ELSE path

\* Who asks to sign in, or for what the roles do not open, gets the landing page.
Wanted ==
    {TargetOf(asked)}
    \cup (IF asked = Login.path \/ ~MayEnter(claims, asked) THEN {LandingFor(claims)} ELSE {})

\* middleware.ts, session.ts, redirect.ts, LoginFlow.tsx, auth/callback,
\* SignOutButton.tsx: whoever asks for a page is shown that page, or the landing
\* page instead, or the login page, which still knows where to go on to; unless
\*   - an earlier sign-in, look at the session or sign-out ended late and took the
\*     person along;
\*   - the link in the e-mail failed, whose target is lost;
\*   - the callback was not told the roles, and chose a guest's landing page.
ShownWhereAsked ==
    Settled /\ ~overtaken =>
        \/ nav.path \in Wanted
        \/ nav.path = Login.path /\ nav.next # None /\ TargetOf(nav.next) \in Wanted

\* The redirects between the middleware, the pages and the login page end, if
\* the API accepts live sessions from some time on.  (While it refuses a token
\* Supabase takes for good, page and login page send the browser to and fro.)
RedirectsEnd == <>[]accepts => []<>Settled
=============================================================================
