----------------------------- MODULE MCMessages -----------------------------
(***************************************************************************)
(* Every message of the three protocols, with replies of up to two         *)
(* entries cut at every byte.                                              *)
(***************************************************************************)
EXTENDS Messages, MainMessages, MacMessages

Main ==
  [Hello1 |-> Hello1, Hello2 |-> Hello2, HeartBeat |-> HeartBeat,
   ExchangeAnnouncement |-> ExchangeAnnouncement, Info |-> Info, Announcement |-> Announcement,
   GetSecurityCount |-> GetSecurityCount, GetSecurityList |-> GetSecurityList,
   GetSecurityListOld |-> GetSecurityListOld, GetSecurityFeature452 |-> GetSecurityFeature452,
   GetSecurityBars |-> GetSecurityBars, GetSecurityBarsOffset |-> GetSecurityBarsOffset,
   GetIndexBars |-> GetIndexBars, GetMinuteTimeData |-> GetMinuteTimeData,
   GetHistoryMinuteTimeData |-> GetHistoryMinuteTimeData, GetChartSampling |-> GetChartSampling,
   GetIndexMomentum |-> GetIndexMomentum, GetHistoryOrders |-> GetHistoryOrders,
   GetTransactionData |-> GetTransactionData, GetHistoryTransactionData |-> GetHistoryTransactionData,
   GetHistoryTransactionDataWithTrans |-> GetHistoryTransactionDataWithTrans, GetAuction |-> GetAuction,
   GetUnusual |-> GetUnusual, GetSecurityQuotes |-> GetSecurityQuotes, GetQuotesList |-> GetQuotesList,
   GetQuotes |-> GetQuotes, GetQuotesEncrypt |-> GetQuotesEncrypt, GetIndexInfo |-> GetIndexInfo,
   GetVolumeProfile |-> GetVolumeProfile, GetTopBoard |-> GetTopBoard,
   GetCompanyCategory |-> GetCompanyCategory, GetCompanyContent |-> GetCompanyContent,
   GetFinanceInfo |-> GetFinanceInfo, GetXDXRInfo |-> GetXDXRInfo, GetFileMeta |-> GetFileMeta,
   DownloadFile |-> DownloadFile, TodoB |-> TodoB, TodoFDE |-> TodoFDE, Client264B |-> Client264B,
   Client26AE |-> Client26AE, Client26B1 |-> Client26B1, Client26AC |-> Client26AC, Client26AD |-> Client26AD]

Ex ==
  [ExLogin |-> ExLogin, ExServerInfo |-> ExServerInfo, ExGetFileMeta |-> ExGetFileMeta,
   ExDownloadFile |-> ExDownloadFile, ExGetTableChunk |-> ExGetTableChunk, ExGetCount |-> ExGetCount,
   ExGetCategoryList |-> ExGetCategoryList, ExGetList |-> ExGetList, ExGetListExtra |-> ExGetListExtra,
   ExGetBoardList |-> ExGetBoardList, ExGetKLine |-> ExGetKLine, ExGetKLine2 |-> ExGetKLine2,
   ExGetHistoryTransaction |-> ExGetHistoryTransaction, ExGetTickChart |-> ExGetTickChart,
   ExGetHistoryTickChart |-> ExGetHistoryTickChart, ExGetChartSampling |-> ExGetChartSampling,
   ExGetQuote |-> ExGetQuote, ExGetQuotesList |-> ExGetQuotesList, ExGetQuotes |-> ExGetQuotes,
   ExGetQuotes2 |-> ExGetQuotes2, ExExperiment2487 |-> ExExperiment2487,
   ExExperiment2488 |-> ExExperiment2488, ExMapping2562 |-> ExMapping2562]

\* The bitmap of a reply may be empty.
Mac ==
  [MACServerInfo |-> MACServerInfo, MACFileList |-> MACFileList, MACFileDownload |-> MACFileDownload,
   MACBoardCount |-> MACBoardCount, MACBoardList |-> MACBoardList, MACBoardMembers |-> MACBoardMembers,
   MACBoardMembersQuotes |-> MACBoardMembersQuotes, MACSymbolBelongBoard |-> MACSymbolBelongBoard,
   MACCapitalFlow |-> MACCapitalFlow, MACSymbolInfo |-> MACSymbolInfo, MACQuotes |-> MACQuotes,
   MACAuction |-> MACAuction, MACTransactions |-> MACTransactions, MACKLineOffset |-> MACKLineOffset,
   MACTickCharts |-> MACTickCharts, MACSymbolBars |-> MACSymbolBars, MACMarketMonitor |-> MACMarketMonitor,
   MACBoardMembersQuotesDynamic |-> MACBoardMembersQuotesDynamic(3), MACSymbolQuotes |-> MACSymbolQuotes(0)]

AllMessages == Main @@ Ex @@ Mac

\* Those whose replies are read without a look at their length, or with one that is wrong.
Unguarded ==
  {"GetSecurityCount", "GetSecurityList", "GetSecurityBars", "GetSecurityBarsOffset", "GetIndexBars",
   "GetMinuteTimeData", "GetIndexMomentum", "GetHistoryOrders", "GetTransactionData",
   "GetHistoryTransactionData", "GetHistoryTransactionDataWithTrans", "GetAuction", "GetUnusual",
   "GetSecurityQuotes", "GetQuotesList", "GetQuotes", "GetQuotesEncrypt", "GetIndexInfo",
   "GetVolumeProfile", "GetTopBoard", "GetCompanyCategory", "GetCompanyContent", "GetXDXRInfo",
   "GetFileMeta", "DownloadFile", "MACQuotes"}

\* Bars only.
BarMessages == [GetSecurityBars |-> GetSecurityBars, GetIndexBars |-> GetIndexBars]
BarNames == DOMAIN BarMessages

\* Up to the greatest number that 16 bits can announce at 7 bytes each, and beyond.
SomeStocks == {0, 1, 80, 9360, 9361, 9362}
=============================================================================
