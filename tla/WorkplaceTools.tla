-------------------------- MODULE WorkplaceTools ---------------------------
(* The tools for documents, mail, meetings and projects; see ConnectorTools.*)
EXTENDS ConnectorTools

----------------------------------------------------------------------------
(* citrix_sharefile.py *)

sharefile_list_items == Reads("sharefile", <<"check", "service", "api", "pages">>)
sharefile_search == Reads("sharefile", <<"check", "service", "api", "pages">>)
sharefile_get_item == Reads("sharefile", <<"check", "service", "api", "get">>)
sharefile_download_text == Reads("sharefile", <<"check", "service", "api", "get">>)
sharefile_list_shared == Reads("sharefile", <<"service", "api", "get">>)
sharefile_upload_file == Changes("sharefile", <<"check", "service", "api", "change">>)
sharefile_create_folder == Changes("sharefile", <<"check", "service", "api", "change">>)
sharefile_delete_item == Changes("sharefile", <<"check", "service", "api", "change">>)
sharefile_create_share == Changes("sharefile", <<"check", "service", "api", "change">>)

ShareFileTools ==
    {sharefile_list_items, sharefile_search, sharefile_get_item,
     sharefile_download_text, sharefile_list_shared,
     sharefile_upload_file, sharefile_create_folder,
     sharefile_delete_item, sharefile_create_share}
----------------------------------------------------------------------------
(* confluence.py *)

confluence_search == Reads("atlassian", <<"check", "service", "pages">>)
confluence_read_page == Reads("atlassian", <<"check", "service", "get">>)
confluence_list_spaces == Reads("atlassian", <<"service", "pages">>)
confluence_list_pages == Reads("atlassian", <<"check", "service", "get">>)
confluence_get_page_history == Reads("atlassian", <<"check", "service", "get">>)
confluence_list_attachments == Reads("atlassian", <<"check", "service", "get">>)
confluence_create_page == Changes("atlassian", <<"check", "service", "change">>)
confluence_update_page == Changes("atlassian", <<"check", "service", "change">>)
confluence_add_comment == Changes("atlassian", <<"check", "service", "change">>)
confluence_add_label == Changes("atlassian", <<"check", "service", "change">>)
confluence_remove_label == Changes("atlassian", <<"check", "service", "change">>)
confluence_delete_page == Changes("atlassian", <<"check", "service", "change">>)
confluence_move_page == Changes("atlassian", <<"check", "service", "get", "change">>)
confluence_upload_attachment == Changes("atlassian", <<"check", "service", "change">>)

ConfluenceTools ==
    {confluence_search, confluence_read_page, confluence_list_spaces,
     confluence_list_pages, confluence_get_page_history,
     confluence_list_attachments, confluence_create_page,
     confluence_update_page, confluence_add_comment, confluence_add_label,
     confluence_remove_label, confluence_delete_page,
     confluence_move_page, confluence_upload_attachment}
----------------------------------------------------------------------------
(* figma.py *)

figma_list_projects == Reads("figma", <<"check", "service", "get">>)
figma_list_files == Reads("figma", <<"check", "service", "get">>)
figma_get_file == Reads("figma", <<"check", "service", "get">>)
figma_get_comments == Reads("figma", <<"check", "service", "pages">>)
figma_get_file_versions == Reads("figma", <<"check", "service", "get">>)
figma_get_components == Reads("figma", <<"check", "service", "get">>)
figma_get_styles == Reads("figma", <<"check", "service", "get">>)
figma_post_comment == Changes("figma", <<"check", "service", "change">>)
figma_resolve_comment == Changes("figma", <<"check", "service", "change">>)
figma_delete_comment == Changes("figma", <<"check", "service", "change">>)
figma_get_images == Reads("figma", <<"check", "service", "get">>)
figma_get_component_sets == Reads("figma", <<"check", "service", "get">>)
figma_get_file_nodes == Reads("figma", <<"check", "service", "get">>)
figma_list_team_projects == Reads("figma", <<"check", "service", "get">>)

FigmaTools ==
    {figma_list_projects, figma_list_files, figma_get_file,
     figma_get_comments, figma_get_file_versions, figma_get_components,
     figma_get_styles, figma_post_comment, figma_resolve_comment,
     figma_delete_comment, figma_get_images, figma_get_component_sets,
     figma_get_file_nodes, figma_list_team_projects}
----------------------------------------------------------------------------
(* google_workspace.py *)

gdrive_search == Reads("google", <<"check", "service", "pages">>)
gdrive_list_files == Reads("google", <<"check", "service", "pages">>)
gdrive_read_file == Reads("google", <<"check", "service", "direct">>)
gcalendar_events == Reads("google", <<"service", "pages">>)
gdrive_get_file_info == Reads("google", <<"check", "service", "get">>)
gcalendar_get_event == Reads("google", <<"check", "service", "get">>)
gcalendar_create_event == Changes("google", <<"check", "service", "check", "change">>)
gmail_search == Reads("google", <<"check", "service", "get", "each">>)
gmail_read_email == Reads("google", <<"check", "service", "get">>)
gmail_send_email == Changes("google", <<"check", "service", "change">>)
gmail_reply == Changes("google", <<"check", "service", "get", "change">>)
gdrive_create_folder == Changes("google", <<"check", "service", "change">>)
gdrive_upload_file == Changes("google", <<"check", "service", "change">>)
gdrive_delete_file == Changes("google", <<"check", "service", "change">>)
gdrive_share_file == Changes("google", <<"check", "service", "change">>)
gsheets_read == Reads("google", <<"check", "service", "get">>)
gsheets_update == Changes("google", <<"check", "service", "change">>)

GoogleTools ==
    {gdrive_search, gdrive_list_files, gdrive_read_file, gcalendar_events,
     gdrive_get_file_info, gcalendar_get_event, gcalendar_create_event,
     gmail_search, gmail_read_email, gmail_send_email, gmail_reply,
     gdrive_create_folder, gdrive_upload_file, gdrive_delete_file,
     gdrive_share_file, gsheets_read, gsheets_update}
----------------------------------------------------------------------------
(* jira.py *)

jira_search == Reads("atlassian", <<"check", "service", "pages">>)
jira_get_issue == Reads("atlassian", <<"check", "service", "get">>)
jira_list_projects == Reads("atlassian", <<"service", "pages">>)
jira_my_issues == Reads("atlassian", <<"service", "pages">>)
jira_create_issue == Changes("atlassian", <<"check", "service", "change">>)
jira_add_comment == Changes("atlassian", <<"check", "service", "change">>)
jira_update_issue == Changes("atlassian", <<"check", "service", "change">>)
jira_create_subtask == Changes("atlassian", <<"check", "service", "change">>)
jira_link_issues == Changes("atlassian", <<"check", "service", "change">>)
jira_add_label == Changes("atlassian", <<"check", "service", "change">>)
jira_remove_label == Changes("atlassian", <<"check", "service", "change">>)
jira_assign_issue == Changes("atlassian", <<"check", "service", "change">>)
jira_list_boards == Reads("atlassian", <<"check", "service", "creds", "get">>)
jira_get_sprint_issues == Reads("atlassian", <<"check", "service", "creds", "get">>)

JiraTools ==
    {jira_search, jira_get_issue, jira_list_projects, jira_my_issues,
     jira_create_issue, jira_add_comment, jira_update_issue,
     jira_create_subtask, jira_link_issues, jira_add_label,
     jira_remove_label, jira_assign_issue, jira_list_boards,
     jira_get_sprint_issues}
----------------------------------------------------------------------------
(* notion.py *)

notion_search == Reads("notion", <<"check", "service", "pages">>)
notion_read_page == Reads("notion", <<"check", "service", "get", "tryget">>)
notion_list_databases == Reads("notion", <<"service", "pages">>)
notion_query_database == Reads("notion", <<"check", "service", "pages">>)
notion_create_page == Changes("notion", <<"check", "service", "change">>)
notion_update_page == Changes("notion", <<"check", "service", "change">>)
notion_create_database_entry == Changes("notion", <<"check", "service", "change">>)
notion_update_block == Changes("notion", <<"check", "service", "get", "change">>)
notion_delete_block == Changes("notion", <<"check", "service", "change">>)
notion_append_blocks == Changes("notion", <<"check", "service", "change">>)
notion_update_database == Changes("notion", <<"check", "service", "change">>)
notion_delete_page == Changes("notion", <<"check", "service", "change">>)
notion_add_comment == Changes("notion", <<"check", "service", "change">>)
notion_list_comments == Reads("notion", <<"check", "service", "get">>)
notion_list_users == Reads("notion", <<"service", "get">>)

NotionTools ==
    {notion_search, notion_read_page, notion_list_databases,
     notion_query_database, notion_create_page, notion_update_page,
     notion_create_database_entry, notion_update_block,
     notion_delete_block, notion_append_blocks, notion_update_database,
     notion_delete_page, notion_add_comment, notion_list_comments,
     notion_list_users}
----------------------------------------------------------------------------
(* outlook.py *)

outlook_search_email == Reads("outlook", <<"check", "graph", "pages">>)
outlook_read_email == Reads("outlook", <<"check", "graph", "get">>)
outlook_send_email == Changes("outlook", <<"check", "graph", "change">>)
outlook_list_folders == Reads("outlook", <<"graph", "get">>)
outlook_get_attachments == Reads("outlook", <<"check", "graph", "get">>)
calendar_create_event == Changes("calendar", <<"check", "graph", "check", "change">>)
outlook_recent_emails == Reads("outlook", <<"check", "graph", "pages">>)
outlook_move_email == Changes("outlook", <<"check", "graph", "change">>)
outlook_delete_email == Changes("outlook", <<"check", "graph", "change">>)
outlook_mark_read == Changes("outlook", <<"check", "graph", "change">>)
outlook_reply_email == Changes("outlook", <<"check", "graph", "change">>)
outlook_forward_email == Changes("outlook", <<"check", "graph", "change">>)
outlook_list_contacts == Reads("outlook", <<"graph", "check", "pages">>)
outlook_get_contact == Reads("outlook", <<"check", "graph", "get">>)
outlook_create_contact == Changes("outlook", <<"check", "graph", "change">>)
calendar_update_event == Changes("calendar", <<"check", "graph", "change">>)
calendar_delete_event == Changes("calendar", <<"check", "graph", "change">>)
calendar_events == Reads("calendar", <<"graph", "pages">>)

OutlookTools ==
    {outlook_search_email, outlook_read_email, outlook_send_email,
     outlook_list_folders, outlook_get_attachments, calendar_create_event,
     outlook_recent_emails, outlook_move_email, outlook_delete_email,
     outlook_mark_read, outlook_reply_email, outlook_forward_email,
     outlook_list_contacts, outlook_get_contact, outlook_create_contact,
     calendar_update_event, calendar_delete_event, calendar_events}
----------------------------------------------------------------------------
(* ringcentral.py *)

ringcentral_call_log == Reads("ringcentral", <<"service", "pages">>)
ringcentral_messages == Reads("ringcentral", <<"service", "pages">>)
ringcentral_get_call_recording == Reads("ringcentral", <<"check", "service", "get">>)
ringcentral_presence == Reads("ringcentral", <<"service", "get">>)
ringcentral_list_extensions == Reads("ringcentral", <<"service", "get">>)
ringcentral_get_voicemail == Reads("ringcentral", <<"service", "get">>)
ringcentral_send_sms == Changes("ringcentral", <<"check", "service", "change">>)
ringcentral_send_message == Changes("ringcentral", <<"check", "service", "change">>)
ringcentral_get_call_details == Reads("ringcentral", <<"check", "service", "get">>)
ringcentral_download_recording == Reads("ringcentral", <<"check", "service", "get">>)
ringcentral_list_contacts == Reads("ringcentral", <<"service", "get">>)
ringcentral_list_active_calls == Reads("ringcentral", <<"service", "get">>)

RingCentralTools ==
    {ringcentral_call_log, ringcentral_messages,
     ringcentral_get_call_recording, ringcentral_presence,
     ringcentral_list_extensions, ringcentral_get_voicemail,
     ringcentral_send_sms, ringcentral_send_message,
     ringcentral_get_call_details, ringcentral_download_recording,
     ringcentral_list_contacts, ringcentral_list_active_calls}
----------------------------------------------------------------------------
(* sharepoint.py *)

sharepoint_search == Reads("sharepoint", <<"check", "graph", "get">>)
sharepoint_list_files == Reads("sharepoint", <<"graph", "site", "pages">>)
sharepoint_read_file == Reads("sharepoint", <<"graph", "site", "get", "fetch">>)
sharepoint_get_file_info == Reads("sharepoint", <<"graph", "site", "get">>)
sharepoint_list_versions == Reads("sharepoint", <<"graph", "site", "get">>)
sharepoint_list_sites == Reads("sharepoint", <<"graph", "pages">>)
sharepoint_upload_file == Changes("sharepoint", <<"check", "graph", "site", "change">>)
sharepoint_create_folder == Changes("sharepoint", <<"check", "graph", "site", "change">>)
sharepoint_delete_item == Changes("sharepoint", <<"check", "graph", "site", "change">>)
sharepoint_move_item == Changes("sharepoint", <<"check", "graph", "site", "get", "change">>)
sharepoint_copy_item == Changes("sharepoint", <<"check", "graph", "site", "get", "change">>)
sharepoint_list_lists == Reads("sharepoint", <<"check", "graph", "pages">>)
sharepoint_get_list_items == Reads("sharepoint", <<"check", "graph", "pages">>)
sharepoint_create_list_item == Changes("sharepoint", <<"check", "graph", "change">>)
sharepoint_share_link == Changes("sharepoint", <<"check", "graph", "site", "change">>)

SharePointTools ==
    {sharepoint_search, sharepoint_list_files, sharepoint_read_file,
     sharepoint_get_file_info, sharepoint_list_versions,
     sharepoint_list_sites, sharepoint_upload_file,
     sharepoint_create_folder, sharepoint_delete_item,
     sharepoint_move_item, sharepoint_copy_item, sharepoint_list_lists,
     sharepoint_get_list_items, sharepoint_create_list_item,
     sharepoint_share_link}
----------------------------------------------------------------------------
(* smartsheet.py *)

smartsheet_list_sheets == Reads("smartsheet", <<"service", "pages">>)
smartsheet_get_sheet == Reads("smartsheet", <<"check", "service", "get">>)
smartsheet_search == Reads("smartsheet", <<"check", "service", "get">>)
smartsheet_get_row == Reads("smartsheet", <<"check", "service", "get">>)
smartsheet_list_columns == Reads("smartsheet", <<"check", "service", "get">>)
smartsheet_add_row == Changes("smartsheet", <<"check", "service", "change">>)
smartsheet_update_row == Changes("smartsheet", <<"check", "service", "change">>)
smartsheet_delete_row == Changes("smartsheet", <<"check", "service", "change">>)
smartsheet_create_sheet == Changes("smartsheet", <<"check", "service", "change">>)
smartsheet_add_column == Changes("smartsheet", <<"check", "service", "change">>)
smartsheet_update_column == Changes("smartsheet", <<"check", "service", "change">>)
smartsheet_add_comment == Changes("smartsheet", <<"check", "service", "change">>)
smartsheet_list_attachments == Reads("smartsheet", <<"check", "service", "get">>)
smartsheet_share_sheet == Changes("smartsheet", <<"check", "service", "change">>)

SmartsheetTools ==
    {smartsheet_list_sheets, smartsheet_get_sheet, smartsheet_search,
     smartsheet_get_row, smartsheet_list_columns, smartsheet_add_row,
     smartsheet_update_row, smartsheet_delete_row,
     smartsheet_create_sheet, smartsheet_add_column,
     smartsheet_update_column, smartsheet_add_comment,
     smartsheet_list_attachments, smartsheet_share_sheet}
----------------------------------------------------------------------------
(* teams.py *)

teams_list_teams == Reads("teams", <<"graph", "pages">>)
teams_list_channels == Reads("teams", <<"check", "graph", "pages">>)
teams_read_messages == Reads("teams", <<"check", "graph", "pages">>)
teams_list_members == Reads("teams", <<"check", "graph", "get">>)
teams_send_message == Changes("teams", <<"check", "graph", "change">>)
teams_search_messages == Reads("teams", <<"check", "graph", "get">>)
teams_reply_message == Changes("teams", <<"check", "graph", "change">>)
teams_create_channel == Changes("teams", <<"check", "graph", "change">>)
teams_delete_channel == Changes("teams", <<"check", "graph", "change">>)
teams_send_chat_message == Changes("teams", <<"check", "graph", "change">>)
teams_list_channel_files == Reads("teams", <<"check", "graph", "get", "check", "get">>)
teams_recent_chats == Reads("teams", <<"graph", "pages">>)

TeamsTools ==
    {teams_list_teams, teams_list_channels, teams_read_messages,
     teams_list_members, teams_send_message, teams_search_messages,
     teams_reply_message, teams_create_channel, teams_delete_channel,
     teams_send_chat_message, teams_list_channel_files, teams_recent_chats}
----------------------------------------------------------------------------
(* zoom.py *)

zoom_list_meetings == Reads("zoom", <<"service", "token", "pages">>)
zoom_get_meeting == Reads("zoom", <<"service", "token", "get">>)
zoom_list_recordings == Reads("zoom", <<"check", "service", "token", "pages">>)
zoom_list_participants == Reads("zoom", <<"check", "service", "token", "get">>)
zoom_list_past_meetings == Reads("zoom", <<"check", "service", "token", "get">>)
zoom_get_recording_transcript == Reads("zoom", <<"check", "service", "token", "get">>)
zoom_create_meeting == Changes("zoom", <<"check", "service", "token", "change">>)
zoom_update_meeting == Changes("zoom", <<"service", "token", "check", "change">>)
zoom_delete_meeting == Changes("zoom", <<"service", "token", "change">>)
zoom_get_meeting_registrants == Reads("zoom", <<"service", "token", "get">>)
zoom_list_users == Reads("zoom", <<"service", "token", "get">>)
zoom_get_user == Reads("zoom", <<"check", "service", "token", "get">>)

ZoomTools ==
    {zoom_list_meetings, zoom_get_meeting, zoom_list_recordings,
     zoom_list_participants, zoom_list_past_meetings,
     zoom_get_recording_transcript, zoom_create_meeting,
     zoom_update_meeting, zoom_delete_meeting,
     zoom_get_meeting_registrants, zoom_list_users, zoom_get_user}
----------------------------------------------------------------------------
ToolsOfWorkplace ==
    UNION {ShareFileTools, ConfluenceTools, FigmaTools, GoogleTools,
           JiraTools, NotionTools, OutlookTools, RingCentralTools,
           SharePointTools, SmartsheetTools, TeamsTools, ZoomTools}
=============================================================================
