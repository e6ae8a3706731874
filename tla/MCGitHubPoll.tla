---------------------------- MODULE MCGitHubPoll ----------------------------
EXTENDS GitHubPoll

=============================================================================
