------------------------------ MODULE MCClient ------------------------------
(* Model-checking instance of Client. *)
EXTENDS Client

\* One page of each shape: what the other pages have is the same but for names.
SomePages == {LeadsWorkspace, UsersSettings, AuditLogSettings, RolesSettings, AttachmentPanel,
              SearchWorkspace, CompanyOptions}

\* For liveness: pages that differ in what they wait for.
FewPages == {UsersSettings, AttachmentPanel, SearchWorkspace}
FewDetails == {LeadDetail, TagDetail}

\* For the references an edit keeps.
OnlyLeads == {LeadDetail}
OneBoard == <<"b1">>
OneBoardPages == [b1 |-> <<"d1", "d2">>]
OneBoardColumns == [b1 |-> {"c1", "c2"}]

ThreePipelines == [p1 |-> <<"s1", "s2">>, p2 |-> <<"s3">>, p3 |-> <<>>]

TwoBoards == <<"b1", "b2">>
BoardPages == [b1 |-> <<"d1", "d2">>, b2 |-> <<"d3">>]
BoardColumns == [b1 |-> {"c1", "c2"}, b2 |-> {"c3"}]

SomeStudios == {AutomationWorkspace, DeveloperWorkspace, IntelligenceWorkspace, PlannerWorkspace,
                DashboardWorkspace}
FewStudios == {SavedViewsWorkspace, PlannerWorkspace}

OneNotice == <<"n1">>
TwoNotices == <<"n2", "n1">>
=============================================================================
