---------------------------- MODULE MacMessages ----------------------------
(***************************************************************************)
(* The messages of the MAC protocol, which announce the length of the body *)
(* they have put together, as those of the extended market do.             *)
(***************************************************************************)
EXTENDS ExMessages

\* Servers and files.
MACServerInfo == Reads(buildExRequest(<<68>>), <<Checked(87), Rest>>, << >>)
MACFileList == Reads(buildExRequest(<<4, 70, 30>>), <<Checked(41)>>, << >>)
MACFileDownload == Reads(buildExRequest(<<4, 4, 4, 70, 30>>), <<Checked(8), Rest>>, << >>)

\* Boards.  The list tells the number of its securities, of which an entry has two.
MACBoardListRequest == buildExRequest(<<2, 2, 1, 1, 2, 2, 8>>)
MACBoardCount == Reads(MACBoardListRequest, <<Checked(4)>>, << >>)
MACBoardList == [Reads(MACBoardListRequest, <<Checked(4)>>, <<Checked(160)>>) EXCEPT !.rows = "halved"]
MACBoardMembers == Reads(buildExRequest(<<4, 9, 2, 4, 1, 1, 2, 20>>), <<Checked(26)>>, <<Checked(68)>>)
MACBoardMembersQuotesRequest == buildExRequest(<<4, 9, 2, 4, 1, 1, 1, 21>>)
MACBoardMembersQuotes == Reads(MACBoardMembersQuotesRequest, <<Checked(26)>>, <<Checked(196)>>)

\* An entry has four bytes for each bit of the bitmap at the head of the reply.
activeMACDynamicFields(fields) == Checked(68 + 4 * fields)
MACBoardMembersQuotesDynamicRequest == buildExRequest(<<4, 9, 2, 4, 2, 1, 1, 20>>)
MACBoardMembersQuotesDynamic(fields) ==
  Reads(MACBoardMembersQuotesDynamicRequest, <<Checked(26)>>, <<activeMACDynamicFields(fields)>>)
MACSymbolQuotes(fields) == Reads(Built(<<20, 2>>, 24), <<Checked(26)>>, <<activeMACDynamicFields(fields)>>)

\* A list in JSON, which may be none.
MACSymbolBelongBoard == Reads(buildExRequest(<<2, 8, 16, 21>>), <<Checked(27), Refusing(Rest)>>, << >>)
MACCapitalFlow == Reads(Built(<<2, 8, 16, 21>>, 0), <<Checked(27), Refusing(Rest)>>, << >>)

\* One security.  A summary follows the entries; 109 bytes of it are looked for, but 120
\* are read.
MACSymbolInfo == Reads(buildExRequest(<<2, 22, 4, 12>>), <<Checked(194)>>, << >>)
MACQuotesRequest == buildExRequest(<<2, 22, 2, 2, 2, 2, 2, 2, 2>>)
MACQuotes == WithTail(Reads(MACQuotesRequest, <<Checked(35)>>, <<Checked(18)>>), <<Guarded(109, 120)>>)
MACAuction == Reads(buildExRequest(<<2, 22, 4, 4, 10>>), <<Checked(36)>>, <<Checked(16)>>)
MACTransactions == Reads(buildExRequest(<<2, 22, 4, 4, 2, 10>>), <<Checked(39)>>, <<Checked(18)>>)
MACKLineOffset == Reads(buildExRequest(<<4, 4, 5>>), <<Checked(8)>>, << >>)

\* Here the summary may be missing.
MACTickChartsRequest == buildExRequest(<<2, 22, 4, 2, 2, 6>>)
MACTickCharts == WithTail(Reads(MACTickChartsRequest, <<Checked(71)>>, <<Checked(14)>>), <<Optional(120)>>)
MACSymbolBarsRequest == buildExRequest(<<2, 22, 2, 2, 4, 2, 2, 1, 1, 1, 1, 2, 4>>)
MACSymbolBars ==
  Bars(WithTail(Reads(MACSymbolBarsRequest, <<Checked(33)>>, <<Checked(36)>>), <<Optional(120)>>))

\* Unusual events; their names, if there are any, are in a text at the end.
MACMarketMonitor ==
  WithTail(Reads(buildExRequest(<<2, 2, 2, 2, 2, 2, 10>>), <<Checked(2)>>, <<Checked(32)>>), <<Rest>>)
=============================================================================
