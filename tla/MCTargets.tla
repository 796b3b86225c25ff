----------------------------- MODULE MCTargets -----------------------------
(* A small instance of Targets: two commands at once, two directories, one *)
(* hosted endpoint, and S3 with an endpoint and a profile.  A notebook     *)
(* command names at most two settings, a space command at most one.        *)
EXTENDS Targets, TLC

CONSTANTS c1, c2, d1, d2,
    FlagPrefixes,   \* the values --prefix is given
    AWSEndpoints    \* the values AWS_ENDPOINT_URL_S3 is given

Setting(f, v) == [field |-> f, value |-> v]
NotebookSettings ==
    {Setting("storage", "s3"), Setting("bucket", "a"), Setting("space", "b"),
     Setting("token", TRUE), Setting("pathStyle", "yes")}
    \cup {Setting("prefix", p) : p \in FlagPrefixes}
    \cup {Setting("awsEndpoint", e) : e \in AWSEndpoints}
SpaceSettings ==
    {Setting("storage", "hosted"), Setting("endpoint", "h1"), Setting("endpoint", "x1"),
     Setting("prefix", "n1")}

Apply(i, s) == [i EXCEPT ![s.field] = s.value]
One(settings) == {Bare} \cup {Apply(Bare, s) : s \in settings}

\* The pairs of settings that decide one target together, or contradict.
Together == {{"bucket", "prefix"}, {"bucket", "pathStyle"}, {"space", "prefix"}, {"bucket", "awsEndpoint"},
             {"storage", "awsEndpoint"}, {"token", "space"}, {"bucket", "space"}}
Pairs == {<<s, t>> \in NotebookSettings \X NotebookSettings : {s.field, t.field} \in Together}

MCInvocations == One(NotebookSettings) \cup {Apply(Apply(Bare, st[1]), st[2]) : st \in Pairs}
MCListings == One(SpaceSettings)

MCTexts == STRING

Plain == [endpoint |-> Empty, profile |-> Empty]
At1 == [endpoint |-> "x1", profile |-> Empty]
MCStores == {<<Account(1), "a">>, <<Plain, "a">>, <<At1, "a">>}

Entry(d, t) == [path |-> d, target |-> t]
V2(entries, defaults) == [version |-> 2, entries |-> entries, defaults |-> defaults]
MCFiles ==
    {[version |-> 1, entries |-> <<Entry(d1, HostedTarget("a", "n1"))>>, defaults |-> <<>>],
     V2(<<Entry(d1, S3Target(Empty, Empty, "a", "n1", FALSE))>>,
        <<S3Target(Empty, Empty, "a", Empty, FALSE), S3Target("x1", Empty, "a", "n2", TRUE)>>)}

MCLogins ==
    {[logins |-> [e \in Endpoints |-> NoLogin], spaces |-> [e \in Endpoints |-> Empty]],
     [logins |-> [e \in Endpoints |-> [key |-> 1, account |-> 1, usable |-> TRUE, write |-> FALSE]],
      spaces |-> [e \in Endpoints |-> "a"]]}

CommandSymmetry == Permutations({c1, c2})
=============================================================================
