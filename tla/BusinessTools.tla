--------------------------- MODULE BusinessTools ---------------------------
(* The tools for sales, contracts, finance, support and development; see    *)
(* ConnectorTools.                                                          *)
EXTENDS ConnectorTools

----------------------------------------------------------------------------
(* adobe_sign.py *)

adobe_sign_list_agreements == Reads("adobe_sign", <<"service", "pages">>)
adobe_sign_get_agreement == Reads("adobe_sign", <<"check", "service", "get">>)
adobe_sign_get_signing_urls == Reads("adobe_sign", <<"check", "service", "get">>)
adobe_sign_get_audit_trail == Reads("adobe_sign", <<"check", "service", "get">>)
adobe_sign_list_templates == Reads("adobe_sign", <<"service", "get">>)
adobe_sign_get_form_data == Reads("adobe_sign", <<"check", "service", "get">>)
adobe_sign_send_agreement == Changes("adobe_sign", <<"check", "service", "change">>)
adobe_sign_send_reminder == Changes("adobe_sign", <<"check", "service", "change">>)
adobe_sign_cancel_agreement == Changes("adobe_sign", <<"check", "service", "change">>)
adobe_sign_download_document == Reads("adobe_sign", <<"check", "service", "get">>)

AdobeSignTools ==
    {adobe_sign_list_agreements, adobe_sign_get_agreement,
     adobe_sign_get_signing_urls, adobe_sign_get_audit_trail,
     adobe_sign_list_templates, adobe_sign_get_form_data,
     adobe_sign_send_agreement, adobe_sign_send_reminder,
     adobe_sign_cancel_agreement, adobe_sign_download_document}
----------------------------------------------------------------------------
(* concur.py *)

concur_list_reports == Reads("concur", <<"service", "pages">>)
concur_get_report == Reads("concur", <<"check", "service", "get">>)
concur_list_expenses == Reads("concur", <<"check", "service", "get">>)
concur_get_expense == Reads("concur", <<"check", "service", "get">>)
concur_list_approvals == Reads("concur", <<"service", "get">>)
concur_create_report == Changes("concur", <<"check", "service", "change">>)
concur_create_expense == Changes("concur", <<"check", "service", "change">>)
concur_submit_report == Changes("concur", <<"check", "service", "change">>)
concur_approve_report == Changes("concur", <<"check", "service", "change">>)
concur_reject_report == Changes("concur", <<"check", "service", "change">>)
concur_add_receipt == Changes("concur", <<"check", "service", "change">>)

ConcurTools ==
    {concur_list_reports, concur_get_report, concur_list_expenses,
     concur_get_expense, concur_list_approvals, concur_create_report,
     concur_create_expense, concur_submit_report, concur_approve_report,
     concur_reject_report, concur_add_receipt}
----------------------------------------------------------------------------
(* github.py *)

github_search_repos == Reads("github", <<"check", "service", "creds", "pages">>)
github_search_code == Reads("github", <<"check", "service", "creds", "pages">>)
github_list_repos == Reads("github", <<"service", "creds", "check", "pages">>)
github_list_issues == Reads("github", <<"check", "service", "creds", "pages">>)
github_get_issue == Reads("github", <<"check", "service", "creds", "get", "tryget">>)
github_create_issue == Changes("github", <<"check", "service", "creds", "change">>)
github_get_pull_request == Reads("github", <<"check", "service", "creds", "get">>)
github_list_commits == Reads("github", <<"check", "service", "creds", "get">>)
github_list_releases == Reads("github", <<"check", "service", "creds", "get">>)
github_list_branches == Reads("github", <<"check", "service", "creds", "get">>)
github_get_workflow_runs == Reads("github", <<"check", "service", "creds", "get">>)
github_update_issue == Changes("github", <<"check", "service", "change">>)
github_close_issue == Changes("github", <<"check", "service", "change">>)
github_add_labels == Changes("github", <<"check", "service", "change">>)
github_remove_label == Changes("github", <<"check", "service", "change">>)
github_add_assignees == Changes("github", <<"check", "service", "change">>)
github_create_comment == Changes("github", <<"check", "service", "change">>)
github_create_pr_review == Changes("github", <<"check", "service", "change">>)
github_merge_pr == Changes("github", <<"check", "service", "change">>)
github_list_pr_files == Reads("github", <<"check", "service", "get">>)
github_list_pr_reviews == Reads("github", <<"check", "service", "get">>)
github_get_file_content == Reads("github", <<"check", "service", "get">>)
github_list_tags == Reads("github", <<"check", "service", "get">>)

GitHubTools ==
    {github_search_repos, github_search_code, github_list_repos,
     github_list_issues, github_get_issue, github_create_issue,
     github_get_pull_request, github_list_commits, github_list_releases,
     github_list_branches, github_get_workflow_runs, github_update_issue,
     github_close_issue, github_add_labels, github_remove_label,
     github_add_assignees, github_create_comment, github_create_pr_review,
     github_merge_pr, github_list_pr_files, github_list_pr_reviews,
     github_get_file_content, github_list_tags}
----------------------------------------------------------------------------
(* hubspot.py *)

hubspot_search_contacts == Reads("hubspot", <<"check", "service", "pages">>)
hubspot_search_deals == Reads("hubspot", <<"check", "service", "pages">>)
hubspot_get_contact == Reads("hubspot", <<"check", "service", "get">>)
hubspot_get_deal == Reads("hubspot", <<"check", "service", "get">>)
hubspot_search_companies == Reads("hubspot", <<"check", "service", "get">>)
hubspot_get_company == Reads("hubspot", <<"check", "service", "get">>)
hubspot_list_pipelines == Reads("hubspot", <<"service", "get">>)
hubspot_get_activities == Reads("hubspot", <<"check", "service", "get">>)
hubspot_create_contact == Changes("hubspot", <<"check", "service", "change">>)
hubspot_create_deal == Changes("hubspot", <<"check", "service", "change">>)
hubspot_update_contact == Changes("hubspot", <<"check", "service", "change">>)
hubspot_update_deal == Changes("hubspot", <<"check", "service", "change">>)
hubspot_update_company == Changes("hubspot", <<"check", "service", "change">>)
hubspot_create_company == Changes("hubspot", <<"check", "service", "check", "change">>)
hubspot_create_association == Changes("hubspot", <<"check", "service", "change">>)
hubspot_list_associations == Reads("hubspot", <<"check", "service", "get">>)
hubspot_create_note == Changes("hubspot", <<"check", "service", "check", "change">>)
hubspot_create_task == Changes("hubspot", <<"check", "service", "check", "change">>)
hubspot_delete_contact == Changes("hubspot", <<"check", "service", "change">>)
hubspot_delete_deal == Changes("hubspot", <<"check", "service", "change">>)

HubSpotTools ==
    {hubspot_search_contacts, hubspot_search_deals, hubspot_get_contact,
     hubspot_get_deal, hubspot_search_companies, hubspot_get_company,
     hubspot_list_pipelines, hubspot_get_activities,
     hubspot_create_contact, hubspot_create_deal, hubspot_update_contact,
     hubspot_update_deal, hubspot_update_company, hubspot_create_company,
     hubspot_create_association, hubspot_list_associations,
     hubspot_create_note, hubspot_create_task, hubspot_delete_contact,
     hubspot_delete_deal}
----------------------------------------------------------------------------
(* linksquares.py *)

linksquares_list_contracts == Reads("linksquares", <<"service", "pages">>)
linksquares_search == Reads("linksquares", <<"check", "service", "pages">>)
linksquares_get_contract == Reads("linksquares", <<"check", "service", "get">>)
linksquares_list_smart_values == Reads("linksquares", <<"check", "service", "get">>)
linksquares_list_amendments == Reads("linksquares", <<"check", "service", "get">>)
linksquares_list_tags == Reads("linksquares", <<"service", "get">>)
linksquares_add_tag == Changes("linksquares", <<"check", "service", "change">>)
linksquares_list_parties == Reads("linksquares", <<"check", "service", "get">>)
linksquares_get_summary == Reads("linksquares", <<"check", "service", "get">>)

LinkSquaresTools ==
    {linksquares_list_contracts, linksquares_search,
     linksquares_get_contract, linksquares_list_smart_values,
     linksquares_list_amendments, linksquares_list_tags,
     linksquares_add_tag, linksquares_list_parties,
     linksquares_get_summary}
----------------------------------------------------------------------------
(* paylocity.py *)

paylocity_list_employees == Reads("paylocity", <<"service", "token", "pages">>)
paylocity_get_employee == Reads("paylocity", <<"check", "service", "token", "get">>)
paylocity_search_employees == Reads("paylocity", <<"check", "service", "token", "get">>)
paylocity_get_pay_statement == Reads("paylocity", <<"check", "service", "token", "get">>)
paylocity_list_departments == Reads("paylocity", <<"service", "token", "get">>)
paylocity_get_pay_history == Reads("paylocity", <<"check", "service", "token", "get">>)
paylocity_list_earnings == Reads("paylocity", <<"check", "service", "token", "get">>)
paylocity_get_benefits == Reads("paylocity", <<"check", "service", "token", "get">>)

PaylocityTools ==
    {paylocity_list_employees, paylocity_get_employee,
     paylocity_search_employees, paylocity_get_pay_statement,
     paylocity_list_departments, paylocity_get_pay_history,
     paylocity_list_earnings, paylocity_get_benefits}
----------------------------------------------------------------------------
(* roboflow.py *)

roboflow_list_projects == Reads("roboflow", <<"service", "creds", "check", "get">>)
roboflow_get_project == Reads("roboflow", <<"check", "service", "get">>)
roboflow_list_versions == Reads("roboflow", <<"check", "service", "creds", "get">>)
roboflow_get_version == Reads("roboflow", <<"check", "service", "creds", "get">>)
roboflow_get_model == Reads("roboflow", <<"check", "service", "creds", "get">>)
roboflow_upload_image == Changes("roboflow", <<"check", "service", "change">>)
roboflow_list_annotations == Reads("roboflow", <<"check", "service", "get">>)
roboflow_start_training == Changes("roboflow", <<"check", "service", "creds", "change">>)
roboflow_get_training_status == Reads("roboflow", <<"check", "service", "creds", "get">>)
roboflow_predict == Reads("roboflow", <<"check", "service", "creds", "get">>)

RoboflowTools ==
    {roboflow_list_projects, roboflow_get_project, roboflow_list_versions,
     roboflow_get_version, roboflow_get_model, roboflow_upload_image,
     roboflow_list_annotations, roboflow_start_training,
     roboflow_get_training_status, roboflow_predict}
----------------------------------------------------------------------------
(* salesforce.py *)

salesforce_search == Reads("salesforce", <<"check", "service", "get">>)
salesforce_query == Reads("salesforce", <<"check", "service", "pages">>)
salesforce_get_record == Reads("salesforce", <<"check", "service", "get">>)
salesforce_describe == Reads("salesforce", <<"check", "service", "get">>)
salesforce_create_record == Changes("salesforce", <<"check", "service", "change">>)
salesforce_update_record == Changes("salesforce", <<"check", "service", "change">>)
salesforce_delete_record == Changes("salesforce", <<"check", "service", "change">>)
salesforce_list_objects == Reads("salesforce", <<"service", "get">>)
salesforce_list_reports == Reads("salesforce", <<"service", "check", "get">>)
salesforce_run_report == Reads("salesforce", <<"check", "service", "get">>)
salesforce_list_recent == Reads("salesforce", <<"check", "service", "get">>)

SalesforceTools ==
    {salesforce_search, salesforce_query, salesforce_get_record,
     salesforce_describe, salesforce_create_record,
     salesforce_update_record, salesforce_delete_record,
     salesforce_list_objects, salesforce_list_reports,
     salesforce_run_report, salesforce_list_recent}
----------------------------------------------------------------------------
(* sap.py *)

sap_list_orders == Reads("sap", <<"service", "creds", "check", "pages">>)
sap_get_order == Reads("sap", <<"check", "service", "creds", "check", "get">>)
sap_search == Reads("sap", <<"check", "service", "creds", "check", "pages">>)
sap_list_order_items == Reads("sap", <<"check", "service", "creds", "check", "get">>)
sap_get_customer == Reads("sap", <<"check", "service", "creds", "check", "get">>)
sap_list_deliveries == Reads("sap", <<"check", "service", "creds", "check", "get">>)
sap_create_order == Changes("sap", <<"check", "service", "creds", "check", "change">>)
sap_update_order == Changes("sap", <<"check", "service", "creds", "check", "change">>)
sap_cancel_order == Changes("sap", <<"check", "service", "creds", "check", "change">>)
sap_list_materials == Reads("sap", <<"service", "creds", "check", "get">>)
sap_get_material == Reads("sap", <<"check", "service", "creds", "check", "get">>)
sap_list_invoices == Reads("sap", <<"service", "creds", "check", "get">>)

SAPTools ==
    {sap_list_orders, sap_get_order, sap_search, sap_list_order_items,
     sap_get_customer, sap_list_deliveries, sap_create_order,
     sap_update_order, sap_cancel_order, sap_list_materials,
     sap_get_material, sap_list_invoices}
----------------------------------------------------------------------------
(* zapier.py *)

zapier_list_actions == Reads("zapier", <<"service", "get">>)
zapier_run_action == Changes("zapier", <<"check", "service", "change">>)
zapier_preview_action == Reads("zapier", <<"check", "service", "get">>)
zapier_get_action == Reads("zapier", <<"check", "service", "get">>)
zapier_list_zaps == Reads("zapier", <<"service", "get">>)
zapier_enable_zap == Changes("zapier", <<"check", "service", "change">>)
zapier_disable_zap == Changes("zapier", <<"check", "service", "change">>)

ZapierTools ==
    {zapier_list_actions, zapier_run_action, zapier_preview_action,
     zapier_get_action, zapier_list_zaps, zapier_enable_zap,
     zapier_disable_zap}
----------------------------------------------------------------------------
(* zendesk.py *)

zendesk_search_tickets == Reads("zendesk", <<"check", "service", "pages">>)
zendesk_get_ticket == Reads("zendesk", <<"service", "get", "tryget">>)
zendesk_search_articles == Reads("zendesk", <<"check", "service", "pages">>)
zendesk_list_users == Reads("zendesk", <<"service", "check", "get">>)
zendesk_get_user == Reads("zendesk", <<"check", "service", "get">>)
zendesk_create_ticket == Changes("zendesk", <<"check", "service", "change">>)
zendesk_add_comment == Changes("zendesk", <<"check", "service", "change">>)
zendesk_update_ticket == Changes("zendesk", <<"check", "service", "change">>)
zendesk_close_ticket == Changes("zendesk", <<"check", "service", "change">>)
zendesk_add_tags == Changes("zendesk", <<"check", "service", "change">>)
zendesk_remove_tags == Changes("zendesk", <<"check", "service", "change">>)
zendesk_list_views == Reads("zendesk", <<"service", "get">>)
zendesk_get_view_tickets == Reads("zendesk", <<"check", "service", "get">>)
zendesk_list_groups == Reads("zendesk", <<"service", "get">>)
zendesk_assign_ticket == Changes("zendesk", <<"check", "service", "change">>)

ZendeskTools ==
    {zendesk_search_tickets, zendesk_get_ticket, zendesk_search_articles,
     zendesk_list_users, zendesk_get_user, zendesk_create_ticket,
     zendesk_add_comment, zendesk_update_ticket, zendesk_close_ticket,
     zendesk_add_tags, zendesk_remove_tags, zendesk_list_views,
     zendesk_get_view_tickets, zendesk_list_groups, zendesk_assign_ticket}
----------------------------------------------------------------------------
ToolsOfBusiness ==
    UNION {AdobeSignTools, ConcurTools, GitHubTools, HubSpotTools,
           LinkSquaresTools, PaylocityTools, RoboflowTools,
           SalesforceTools, SAPTools, ZapierTools, ZendeskTools}
=============================================================================
