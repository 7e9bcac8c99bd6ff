------------------------------ MODULE OAuthFlow ------------------------------
(***************************************************************************)
(* The OAuth flow of ferrin-mcp (oauth/auth.rs, flow.rs, discovery.rs):    *)
(* discovery, registration, the exchange of a code, the refresh of tokens  *)
(* and the redirect, over what the application's provider keeps between    *)
(* two flows.  The authorization server of the MCP server may change, and  *)
(* a flow may be dropped between any two of its steps.  One flow runs at a *)
(* time (McpHttp).                                                         *)
(***************************************************************************)
EXTENDS Naturals, Sequences, SequencesExt

CONSTANTS
    Authorities,          \* the authorization servers there may be
    Self,                 \* the MCP server's own origin, assumed when nothing names another
    None,
    MaxAsked              \* bound on the redirects of a user

ASSUME OAuthAssumption == Self \in Authorities /\ None \notin Authorities

VARIABLES
    authority,            \* the server the resource metadata names now
    keeps,                \* what the provider does: keeps a state, a server; invalidates
    saved,                \* what it keeps
    flow,                 \* the flow under way
    redirects,            \* history: the servers the user was sent to
    strayed               \* history: the secrets sent to a server they are not of

oauthVars == <<authority, keeps, saved, flow, redirects, strayed>>

\* client: none, one the application brought, or one registered with a server;
\* pin: the server stored with it; tokens: who issued them and the server stored
\* with them; verifier and state: of which redirect.
Nothing == [client |-> None, pin |-> None, own |-> None, issued |-> None, tokenPin |-> None,
            verifier |-> 0, state |-> 0]
Idle == [pc |-> "idle", code |-> 0, named |-> FALSE, current |-> None, again |-> FALSE,
         posts |-> 0, result |-> "none"]

OAuthInit ==
    /\ authority \in Authorities
    /\ keeps \in [state : BOOLEAN, own : BOOLEAN, invalidates : BOOLEAN]
    /\ \/ saved = Nothing
       \/ \E issued \in {None, authority} : saved = [Nothing EXCEPT !.client = "brought", !.issued = issued]
    /\ flow = Idle
    /\ redirects = <<>>
    /\ strayed = {}

-----------------------------------------------------------------------------
goto(pc) == flow' = [flow EXCEPT !.pc = pc]
over(result) == flow' = [flow EXCEPT !.pc = "idle", !.result = result]
At(pc) == flow.pc = pc
OAuthKept == UNCHANGED <<authority, keeps, redirects>>

stored_server == IF saved.own # None THEN saved.own ELSE saved.pin
assert_server_matches(stored) == stored = flow.current

invalidated(scope) ==
    CASE ~keeps.invalidates -> saved
      [] scope = "all" -> Nothing
      [] scope = "tokens" -> [saved EXCEPT !.issued = None, !.tokenPin = None]

\* auth: a rejection is answered by discarding what was rejected and one more
\* run, the outcome of which stands.
rejected_Again(code) ==
    /\ saved' = invalidated(IF code = "invalid_grant" THEN "tokens" ELSE "all")
    /\ flow' = [flow EXCEPT !.pc = "discovering", !.again = TRUE]
rejected(code) ==
    IF flow.again THEN over("error") /\ UNCHANGED saved
    ELSE /\ saved' = invalidated(IF code = "invalid_grant" THEN "tokens" ELSE "all")
         /\ flow' = [flow EXCEPT !.pc = "discovering", !.again = TRUE]

\* A flow, for a challenge or with the code of a redirect; named: the callback
\* says who issued the code.
Auth ==
    /\ At("idle")
    /\ \E code \in 0..Len(redirects), named \in BOOLEAN :
        flow' = [Idle EXCEPT !.pc = "discovering", !.code = code, !.named = named /\ code # 0]
    /\ OAuthKept /\ UNCHANGED <<saved, strayed>>

\* Resource metadata that cannot be had is as none, and then the MCP server is
\* its own authorization server; its metadata may fail, or be the default one.
Discover ==
    /\ At("discovering")
    /\ \/ \E s \in {authority, Self} : flow' = [flow EXCEPT !.pc = "client", !.current = s]
       \/ over("error")
    /\ OAuthKept /\ UNCHANGED <<saved, strayed>>

KnownClient ==
    /\ At("client") /\ saved.client # None
    /\ IF saved.pin # None /\ ~assert_server_matches(stored_server) THEN over("error") ELSE goto("grant")
    /\ OAuthKept /\ UNCHANGED <<saved, strayed>>

Register ==
    /\ At("client") /\ saved.client = None
    /\ \/ over("error") /\ UNCHANGED saved
       \/ /\ flow.code = 0
          /\ saved' = [saved EXCEPT !.client = flow.current, !.pin = flow.current]
          /\ goto("grant")
    /\ OAuthKept /\ UNCHANGED strayed

\* A token request carries what is exchanged and what authenticates the client.
post(grant, what, issued) ==
    /\ flow' = [flow EXCEPT !.pc = grant, !.posts = @ + 1]
    /\ strayed' = strayed \cup (IF issued # flow.current THEN {what} ELSE {})
                          \cup (IF saved.client \in Authorities \ {flow.current} THEN {"secret"} ELSE {})

\* What is checked before a code goes out.
Exchangeable_AnyState ==
    /\ stored_server # None
    /\ flow.named => redirects[flow.code] = stored_server
    /\ assert_server_matches(stored_server)
    /\ saved.verifier # 0
Exchangeable ==
    /\ saved.state # 0 => flow.code = saved.state
    /\ stored_server # None
    /\ flow.named => redirects[flow.code] = stored_server
    /\ assert_server_matches(stored_server)
    /\ saved.verifier # 0

Exchange ==
    /\ At("grant") /\ flow.code # 0
    /\ IF Exchangeable THEN post("code", IF flow.named THEN "named code" ELSE "code", redirects[flow.code])
       ELSE over("error") /\ UNCHANGED strayed
    /\ OAuthKept /\ UNCHANGED saved

\* Tokens of nobody are given up; those of another server end the flow.
TokenServer == IF saved.tokenPin # None THEN saved.tokenPin ELSE stored_server
Refresh_AnyServer ==
    /\ At("grant") /\ flow.code = 0 /\ saved.issued # None
    /\ post("refresh", IF saved.tokenPin # None THEN "bound token" ELSE "token", saved.issued) /\ UNCHANGED saved
    /\ OAuthKept
Refresh ==
    /\ At("grant") /\ flow.code = 0 /\ saved.issued # None
    /\ CASE TokenServer = None -> goto("state") /\ saved' = invalidated("tokens") /\ UNCHANGED strayed
         [] TokenServer # None /\ ~assert_server_matches(TokenServer) -> over("error") /\ UNCHANGED <<saved, strayed>>
         [] OTHER -> post("refresh", IF saved.tokenPin # None THEN "bound token" ELSE "token", saved.issued) /\ UNCHANGED saved
    /\ OAuthKept

Granted ==
    /\ At("code") \/ At("refresh")
    /\ saved' = [saved EXCEPT !.issued = flow.current, !.tokenPin = flow.current]
    /\ over("authorized")
    /\ OAuthKept /\ UNCHANGED strayed

\* An error of the server that is none of the three ends an exchange, and a
\* refresh goes on to the redirect.
Denied ==
    /\ At("code") \/ At("refresh")
    /\ \/ \E code \in {"invalid_client", "invalid_grant"} : rejected(code)
       \/ /\ IF At("code") THEN over("error") ELSE goto("state")
          /\ UNCHANGED saved
    /\ OAuthKept /\ UNCHANGED strayed

-----------------------------------------------------------------------------
(* The redirect: what the callback will be checked against is kept first.  *)

Ask == Len(redirects) + 1

NoTokens ==
    /\ At("grant") /\ flow.code = 0 /\ saved.issued = None
    /\ goto("state")
    /\ OAuthKept /\ UNCHANGED <<saved, strayed>>

SaveState ==
    /\ At("state") /\ Len(redirects) < MaxAsked
    /\ saved' = IF keeps.state THEN [saved EXCEPT !.state = Ask] ELSE saved
    /\ goto("start")
    /\ OAuthKept /\ UNCHANGED strayed

StartAuthorization ==
    /\ At("start")
    /\ over("error") \/ goto("information")
    /\ OAuthKept /\ UNCHANGED <<saved, strayed>>

SaveInformation ==
    /\ At("information")
    /\ saved' = IF keeps.own THEN [saved EXCEPT !.own = flow.current] ELSE [saved EXCEPT !.pin = flow.current]
    /\ goto("verifier")
    /\ OAuthKept /\ UNCHANGED strayed

SaveVerifier ==
    /\ At("verifier")
    /\ saved' = [saved EXCEPT !.verifier = Ask]
    /\ goto("redirect")
    /\ OAuthKept /\ UNCHANGED strayed

Redirect ==
    /\ At("redirect")
    /\ redirects' = Append(redirects, flow.current)
    /\ over("redirect")
    /\ UNCHANGED <<authority, keeps, saved, strayed>>

-----------------------------------------------------------------------------
\* The future of the flow is dropped, or the process ends.
FlowDropped ==
    /\ ~At("idle")
    /\ flow' = Idle
    /\ OAuthKept /\ UNCHANGED <<saved, strayed>>

AuthorityMoves ==
    /\ authority' \in Authorities \ {authority}
    /\ UNCHANGED <<keeps, saved, flow, redirects, strayed>>

ApplicationClears ==
    /\ At("idle") /\ saved # Nothing
    /\ saved' = Nothing
    /\ OAuthKept /\ UNCHANGED <<flow, strayed>>

OAuthNext ==
    \/ Auth \/ Discover \/ KnownClient \/ Register \/ Exchange \/ Refresh \/ Granted \/ Denied
    \/ NoTokens \/ SaveState \/ StartAuthorization \/ SaveInformation \/ SaveVerifier \/ Redirect
    \/ FlowDropped \/ AuthorityMoves \/ ApplicationClears

-----------------------------------------------------------------------------
\* What a flow reports is what the provider can go on with: tokens that are
\* known to be of the server that issued them, or everything the callback of
\* the redirect will be checked against.
OAuthResultInOrder ==
    /\ flow.result = "authorized" /\ saved # Nothing => saved.issued = saved.tokenPin
    /\ flow.result = "redirect" /\ saved # Nothing =>
        /\ saved.verifier = Len(redirects)
        /\ keeps.state => saved.state = Len(redirects)
        /\ stored_server = Last(redirects)

\* Secrets of a registered client, codes and refresh tokens go to the server that
\* issued them, with two exceptions. auth.rs:338 and docs 15-mcp.md:192 say that
\* the stored binding is checked before a code is exchanged and a token
\* refreshed; it is, but it is the binding of the last flow that wrote one. So a
\* code may go to the server of a later flow when the provider keeps no state
\* and the callback names no issuer; and tokens that were stored without their
\* server may go to the one a later flow bound the client to, when
\* invalidate_credentials is left at its default, which discards nothing.
OAuthCredentialsStay ==
    /\ strayed \subseteq {"code", "token"}
    /\ "code" \in strayed => ~keeps.state
    /\ "token" \in strayed => ~keeps.invalidates

\* No more than two token requests are made for one challenge.
OAuthStopsWhenTold == flow'.posts <= 2
=============================================================================
