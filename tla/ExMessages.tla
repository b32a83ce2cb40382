----------------------------- MODULE ExMessages -----------------------------
(***************************************************************************)
(* The messages of the extended market's protocol.  buildExRequest         *)
(* announces the length of the body it has put together.                   *)
(***************************************************************************)
EXTENDS Layout

buildExRequest(fields) == Built(fields, 0)

\* Sessions, servers and files.
ExLogin == Reads(buildExRequest(<<80>>), <<Checked(299)>>, << >>)
ExServerInfo == Reads(buildExRequest(<< >>), <<Checked(327)>>, << >>)
ExGetFileMeta == Reads(buildExRequest(<<40>>), <<Checked(38)>>, << >>)
ExDownloadFile == Reads(buildExRequest(<<4, 4, 40>>), <<Checked(4), Rest>>, << >>)
ExGetTableChunk == Reads(buildExRequest(<<4, 4, 16, 85, 1, 16>>), <<Checked(169), Rest>>, << >>)

\* Lists.
ExGetCount == Reads(buildExRequest(<< >>), <<Checked(23)>>, << >>)
ExGetCategoryList == Reads(buildExRequest(<< >>), <<Checked(2)>>, <<Checked(64)>>)
ExGetList == Reads(buildExRequest(<<4, 2>>), <<Checked(6)>>, <<Checked(64)>>)
ExGetListExtra == Reads(buildExRequest(<<2, 2, 2>>), <<Checked(6)>>, <<Checked(34)>>)
ExGetBoardList == Reads(buildExRequest(<<2, 2, 1, 1, 2, 2, 8>>), <<Checked(4)>>, <<Checked(160)>>)

\* Bars, the day's course and deals.
ExGetKLine == Bars(Reads(buildExRequest(<<1, 9, 2, 2, 4, 2>>), <<Checked(20)>>, <<Checked(32)>>))
ExGetKLine2 == Reads(buildExRequest(<<1, 23, 2, 2, 4, 4, 16>>), <<Checked(42)>>, <<Checked(32)>>)
ExGetHistoryTransaction == Reads(buildExRequest(<<4, 1, 43, 2>>), <<Checked(58)>>, <<Checked(16)>>)
ExGetTickChart == Reads(buildExRequest(<<1, 23, 8>>), <<Checked(34)>>, <<Checked(18)>>)
ExGetHistoryTickChart == Reads(buildExRequest(<<4, 1, 23, 6, 2>>), <<Checked(42)>>, <<Checked(18)>>)
ExGetChartSampling == Reads(buildExRequest(<<2, 22, 2, 2, 9>>), <<Checked(42)>>, <<Checked(4)>>)

\* Quotations: an item is 291 bytes and the code, of 9 or of 23 bytes.
parseExQuoteItem(codeLen) == Checked(291 + codeLen)
ExGetQuote == Reads(buildExRequest(<<1, 9>>), <<parseExQuoteItem(9)>>, << >>)
parseExQuotesReply(request) == Reads(request, <<Checked(10)>>, <<parseExQuoteItem(23)>>)
ExGetQuotesList == parseExQuotesReply(buildExRequest(<<1, 2, 2, 2, 2>>))
ExGetQuotes == parseExQuotesReply(Built(<<1, 7, 2>>, 24))
ExGetQuotes2 == parseExQuotesReply(Built(<<2, 2, 2, 2, 2>>, 24))

\* Requests whose purpose is not known.
ExExperiment2487 == Reads(buildExRequest(<<1, 23>>), <<Checked(68), Rest>>, << >>)
ExExperiment2488 == Reads(buildExRequest(<<1, 23, 4, 2, 4, 4>>), <<Checked(38)>>, <<Checked(16)>>)
ExMapping2562 == Reads(buildExRequest(<<2, 4, 4>>), <<Checked(2)>>, <<Checked(48)>>)
=============================================================================
