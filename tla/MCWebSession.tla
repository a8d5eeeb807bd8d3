-------------------------- MODULE MCWebSession --------------------------
(* Small instance of WebSession and, in it, of Accounts. *)
EXTENDS WebSession, TLC

CONSTANTS r1, r2

\* "Ann@Shop" is stored as "ann@shop".
MCEmails == {"ann@shop", "Ann@Shop", "bob@shop"}
MCNormal == [e \in Emails |-> IF e = "Ann@Shop" THEN "ann@shop" ELSE e]

\* Two spellings of one slug.
MCTeamNames == {"My Team", "my-team", "other"}
MCSlugify == [n \in TeamNames |-> IF n = "My Team" THEN "my-team" ELSE n]

\* r2 has the address of r1 in another spelling, or its slug, or neither.
MCForms ==
  [r \in Requests |->
     IF r = r1
     THEN { [email |-> "Ann@Shop", team_name |-> "My Team"] }
     ELSE { [email |-> "ann@shop", team_name |-> "other"],
            [email |-> "bob@shop", team_name |-> "my-team"],
            [email |-> "bob@shop", team_name |-> "other"] }]
=========================================================================
