------------------------------- MODULE Suite --------------------------------
(***************************************************************************)
(* The tests of a run: the queue that they are loaded into (Loading), the  *)
(* keywords of the test that runs (Keywords), and the record of them, with *)
(* what is made of it (RawLog), which keep their state apart.              *)
(***************************************************************************)
EXTENDS Loading

CONSTANTS
  KeywordRoom, MaxKeywordTests, MaxKeywordCalls, MaxDepth,   \* Keywords
  Records, LateNames, MaxLate                                \* RawLog

VARIABLES
  test_running, frames, keyword_stack, keywords, dangling, kw_calls, kw_tests, lost, strayed,
  record, variables, raw, context, loaded, listing

K == INSTANCE Keywords WITH
       Capacity <- KeywordRoom, MaxTests <- MaxKeywordTests, MaxCalls <- MaxKeywordCalls,
       calls <- kw_calls, tests <- kw_tests

R == INSTANCE RawLog WITH vars <- variables

keywordVars ==
  <<test_running, frames, keyword_stack, keywords, dangling, kw_calls, kw_tests, lost, strayed>>

\* The recorded keywords are the tree of the calls (Keywords).
CleanTreeExact == K!CleanTreeExact

\* Hooks, raw log and logs info tell the same of a run (RawLog).
ViewsAgree == R!ViewsAgree

\* The trees of logs info are connected (RawLog).
ListingDrawn == R!ListingDrawn

=============================================================================
